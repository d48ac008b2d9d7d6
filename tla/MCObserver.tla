----------------------------- MODULE MCObserver -----------------------------
(* Small instances of the log observer for TLC. *)
EXTENDS Observer

CONSTANTS a, b

(* Rules as long as the kept suffix allows, longer than a chunk, and       *)
(* overlapping each other.                                                 *)
Success == {<<a, b, a>>, <<b, a>>}
Failure == {<<b, b>>}
=============================================================================
