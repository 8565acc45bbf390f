----------------------------- MODULE MCHolders -----------------------------
(* Small instances of Holders for TLC. *)
EXTENDS HoldersRefinement, TLC

(* The VMs, VM objects, Handles, WrenHandles, Wren objects and holders of  *)
(* each class are interchangeable.                                         *)
Symmetry ==
  UNION {Permutations(S) :
           S \in {VM, VMObject, Shared, ReturnValue, Variable, Method, WrenHandle, Obj}}
=============================================================================
