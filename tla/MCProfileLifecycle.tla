------------------------- MODULE MCProfileLifecycle -------------------------
\* Small instances of ProfileLifecycle for TLC.
EXTENDS ProfileLifecycle, TLC

\* Clients and browsers are interchangeable (safety runs only).
Symmetry == Permutations(Clients) \cup Permutations(Browsers)
=============================================================================
