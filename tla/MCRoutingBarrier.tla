-------------------------- MODULE MCRoutingBarrier --------------------------
(* The instance of RoutingBarrier that TLC checks. *)
EXTENDS RoutingBarrier
=============================================================================
