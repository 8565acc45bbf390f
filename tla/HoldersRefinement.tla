------------------------- MODULE HoldersRefinement -------------------------
(***************************************************************************)
(* Holders implements Retention: shared pointers, Handles, weak pointers   *)
(* and WrenHandles together behave as plain references.                    *)
(***************************************************************************)
EXTENDS Holders

(* What a Handle stands for while its VM lives. *)
Meaning(h) == IF Usable(h) THEN wh[handle[h].wh] ELSE NULL

held == [x \in Ptr \cup ReturnValue |->
           IF x \in ReturnValue THEN Meaning(x)
           ELSE IF ptr[x] = NULL THEN NULL ELSE Meaning(ptr[x])]

Promise == INSTANCE Retention WITH
  life <- vmState,
  Copyable <- Variable,
  Pair <- Method,
  Movable <- ReturnValue

(* Each operation of the holders is one operation on plain references, or  *)
(* changes nothing a user could see.                                       *)
ImplementsRetention == Promise!Spec
=============================================================================
