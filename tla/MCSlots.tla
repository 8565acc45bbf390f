------------------------------ MODULE MCSlots ------------------------------
(* Small instances of Slots for TLC. *)
EXTENDS Slots, TLC

CONSTANTS n1, n2, t1, o1

(* Two parameters of any types, or three of those that use one another's slots. *)
Signatures ==
  UpTo(2, Kind) \cup [1 .. 3 -> {"number", "vector"}] \cup [1 .. 3 -> {"number", "map"}]

(* Lists, which are read through the slot after their own. *)
SomeResults == {[list |-> <<n>>] : n \in Number}

ListsAndNumbers == UpTo(2, {"number", "vector"})

(* Numbers are interchangeable. *)
Symmetry == Permutations(Number)
=============================================================================
