-------------------------- MODULE MCForeignObjects --------------------------
(* Small instances of ForeignObjects for TLC. *)
EXTENDS ForeignObjects, TLC

(* Copies and shared pointers alone; all ways, with copies that throw.     *)
SharedOrAll == {<<{"copy", "shared"}, {"constructor"}>>, <<Ways, {"constructor", "copy"}>>}

WithReferences == {<<{"copy", "shared", "reference"}, {"constructor"}>>}

(* Objects, cells and the application's variables are interchangeable. *)
Symmetry == UNION {Permutations(S) : S \in {Obj, Cell, Shared, ReturnValue}}
=============================================================================
