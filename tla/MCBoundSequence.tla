-------------------------- MODULE MCBoundSequence --------------------------
(* Small instances of BoundSequence for TLC. *)
EXTENDS BoundSequence

(* Elements and loops are interchangeable (for the runs without liveness). *)
Symmetry == Permutations(Element) \cup Permutations(Loop)
=============================================================================
