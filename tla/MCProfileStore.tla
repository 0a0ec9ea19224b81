----------------------------- MODULE MCProfileStore -----------------------------
(* Model-checking instance of ProfileStore: profiles are interchangeable.  *)
EXTENDS ProfileStore, TLC

Symmetry == Permutations(Profiles)
=============================================================================
