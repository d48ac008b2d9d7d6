----------------------------- MODULE MCManager -----------------------------
(* Small instances of the manager for TLC. *)
EXTENDS ManagerProperties, TLC

(* Instances and keys are only compared, and no liveness is checked where  *)
(* this symmetry is used.                                                  *)
Symmetry == Permutations(Instances) \cup Permutations(Keys)
=============================================================================
