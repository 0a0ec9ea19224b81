---------------------------- MODULE MCUpdateInstall ----------------------------
(* Model-checking instance of UpdateInstall: the first version and one update. *)
EXTENDS UpdateInstall
=============================================================================
