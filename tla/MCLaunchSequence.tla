-------------------------- MODULE MCLaunchSequence --------------------------
(* The instance of LaunchSequence that TLC checks: a profile with a proxy *)
(* and one without, a second proxy in the pool, one engine.                 *)
EXTENDS LaunchSequence, TLC

CONSTANTS t1, t2, p1, p2

MCConfigured == (t1 :> p1) @@ (t2 :> NoProxy)
MCInstalled == [s \in Sources |-> IF s = "driver" THEN 148 ELSE None]
=============================================================================
