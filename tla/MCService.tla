----------------------------- MODULE MCService -----------------------------
(* Small instances of the managers of one data directory for TLC.          *)
EXTENDS Service, TLC

Symmetry == Permutations(Managers) \cup Permutations(Keys) \cup Permutations(Calls)
=============================================================================
