--------------------------- MODULE ContainerLoops ---------------------------
(***************************************************************************)
(* Loops of Wren code over a bound C++ container: the iterator protocol as *)
(* std.hpp implements it.  An iterator is a foreign object of its own, so  *)
(* nothing ties it to the container, and loops of several fibers and       *)
(* changes of the container interleave.                                    *)
(*                                                                         *)
(* Elements are identities and not values.  In a node-based container      *)
(* (std::list, std::map, std::unordered_map) an iterator denotes an        *)
(* element, or 0 for end(); in a std::vector it is an offset into a buffer *)
(* that growth replaces.  Undefined behaviour ends a run.                  *)
(***************************************************************************)
EXTENDS Integers, SequencesExt

CONSTANTS
  Element,   \* elements, or the keys of a map
  Loop,      \* loops over the container
  NodeBased  \* whether iterators denote elements

ASSUME LoopAssumption ==
  NodeBased \in BOOLEAN /\ 0 \notin Element /\ IsFiniteSet(Element)

VARIABLES
  items,     \* the elements in the order of the container
  loop,      \* each loop: its phase, its iterator, and what it has seen
  outcome    \* how the last call ended

loopVars == <<items, loop, outcome>>

Idle == [phase |-> "idle", at |-> 0, stale |-> FALSE, intact |-> TRUE,
         seen |-> <<>>, stayed |-> {}]

LoopTypeOK ==
  /\ items \in Seq(Element)
  /\ outcome \in {"ok", "error", "undefined"}
  /\ loop \in [Loop -> [phase : {"idle", "advance", "value", "done"},
                        at : Nat \cup Element, stale : BOOLEAN, intact : BOOLEAN,
                        seen : Seq(Element), stayed : SUBSET Element]]

Running == outcome # "undefined"

LoopInit ==
  /\ items = <<>>
  /\ loop = [l \in Loop |-> Idle]
  /\ outcome = "ok"
----------------------------------------------------------------------------
(* Iterators. *)

IteratorTo(p) == IF ~NodeBased THEN p
                 ELSE IF p \in DOMAIN items THEN items[p] ELSE 0

PositionOf(it) == IF NodeBased THEN CHOOSE p \in DOMAIN items : items[p] = it
                  ELSE it

(* The iterator of l can be used in the phase l is in. *)
Valid(l) ==
  /\ ~loop[l].stale
  /\ loop[l].phase = "value" =>
       IF NodeBased THEN loop[l].at # 0 ELSE loop[l].at <= Len(items)

(* iterate(null) as maps have it: begin() is returned untested. *)
BeginUntested(l) ==
  /\ Running /\ loop[l].phase = "idle"
  /\ loop' = [loop EXCEPT ![l] =
                 [Idle EXCEPT !.phase = "value", !.at = IteratorTo(1),
                              !.stayed = ToSet(items)]]
  /\ outcome' = "ok" /\ UNCHANGED items

(* iterate(null) as vectors and lists have it. *)
Begin(l) ==
  IF items # <<>> THEN BeginUntested(l)
  ELSE /\ Running /\ loop[l].phase = "idle"
       /\ loop' = [loop EXCEPT ![l] = [Idle EXCEPT !.phase = "done"]]
       /\ outcome' = "ok" /\ UNCHANGED items

(* Mutant: the end is taken for the last element. *)
AdvanceShort(l) ==
  /\ Running /\ loop[l].phase = "advance" /\ Valid(l)
  /\ LET p == PositionOf(loop[l].at) + 1
     IN  loop' = [loop EXCEPT ![l] =
                    IF p >= Len(items) THEN [@ EXCEPT !.phase = "done"]
                    ELSE [@ EXCEPT !.phase = "value", !.at = IteratorTo(p)]]
  /\ outcome' = "ok" /\ UNCHANGED items

(* Mutant: the next position is never compared with the end. *)
AdvanceAlways(l) ==
  /\ Running /\ loop[l].phase = "advance" /\ Valid(l)
  /\ LET p == PositionOf(loop[l].at) + 1
     IN  loop' = [loop EXCEPT ![l] =
                    [@ EXCEPT !.phase = "value",
                              !.at = IteratorTo(IF p > Len(items) THEN 1 ELSE p)]]
  /\ outcome' = "ok" /\ UNCHANGED items

(* Mutant: the end is returned as an iterator. *)
AdvancePast(l) ==
  /\ Running /\ loop[l].phase = "advance" /\ Valid(l)
  /\ LET p == PositionOf(loop[l].at) + 1
     IN  loop' = [loop EXCEPT ![l] = [@ EXCEPT !.phase = "value", !.at = IteratorTo(p)]]
  /\ outcome' = "ok" /\ UNCHANGED items

(* iterate(it): a copy of the iterator is advanced and compared with end(). *)
(* A vector that has shrunk can leave it beyond the end.                   *)
Advance(l) ==
  /\ Running /\ loop[l].phase = "advance" /\ Valid(l)
  /\ LET p == PositionOf(loop[l].at) + 1
     IN  loop' = [loop EXCEPT ![l] =
                    IF p = Len(items) + 1 THEN [@ EXCEPT !.phase = "done"]
                    ELSE [@ EXCEPT !.phase = "value", !.at = IteratorTo(p)]]
  /\ outcome' = "ok" /\ UNCHANGED items

(* What a loop has seen; more than MaxSeen elements are too many anyway. *)
MaxSeen == Cardinality(Element) + 1
See(seen, e) == IF Len(seen) < MaxSeen THEN Append(seen, e) ELSE seen

(* iteratorValue(it) *)
Value(l) ==
  /\ Running /\ loop[l].phase = "value" /\ Valid(l)
  /\ loop' = [loop EXCEPT ![l].phase = "advance",
                          ![l].seen = See(@, items[PositionOf(loop[l].at)])]
  /\ outcome' = "ok" /\ UNCHANGED items

(* Use of an iterator whose element or buffer has been freed, or that lies *)
(* beyond the end.                                                         *)
UseInvalid(l) ==
  /\ Running /\ loop[l].phase \in {"advance", "value"}
  /\ ~Valid(l)
  /\ outcome' = "undefined" /\ UNCHANGED <<items, loop>>

(* The loop l goes on. *)
Continue(l) == Advance(l) \/ Value(l) \/ UseInvalid(l)

(* The loops after a change that leaves the elements s and frees what the  *)
(* iterators in S point to.                                                *)
Changed(s, S) ==
  [l \in Loop |->
     IF loop[l].phase = "idle" THEN Idle
     ELSE IF loop[l].phase = "done" THEN [loop[l] EXCEPT !.intact = FALSE]
     ELSE [loop[l] EXCEPT !.intact = FALSE, !.stayed = @ \cap ToSet(s),
                          !.stale = @ \/ loop[l].at \in S]]
----------------------------------------------------------------------------
(* A loop over a container that nobody changes meanwhile sees each element *)
(* once and in order, whatever other loops do to their own iterators.      *)
LoopExact == \A l \in Loop :
  loop[l].phase = "done" /\ loop[l].intact => loop[l].seen = items

(* Such a loop never uses an iterator that is not valid. *)
LoopDefined == \A l \in Loop :
  loop[l].phase \in {"advance", "value"} /\ loop[l].intact => Valid(l)

(* A list or a std::map may be changed under way: as long as it ends, it has *)
(* seen every element that was there all the time, none twice, and those   *)
(* that are still there in their order.                                    *)
LoopComplete == \A l \in Loop :
  loop[l].phase = "done" =>
    /\ loop[l].stayed \subseteq ToSet(loop[l].seen)
    /\ Len(loop[l].seen) = Cardinality(ToSet(loop[l].seen))
    /\ \A p, q \in DOMAIN loop[l].seen :
         p < q /\ {loop[l].seen[p], loop[l].seen[q]} \subseteq ToSet(items) =>
           PositionOf(loop[l].seen[p]) < PositionOf(loop[l].seen[q])

(* Loops end when the container is not extended for ever. *)
LoopsEnd == \A l \in Loop :
  loop[l].phase \in {"advance", "value"} ~>
    loop[l].phase = "done" \/ outcome = "undefined"
----------------------------------------------------------------------------
(* What Traversal says of a loop: a loop over a changed vector is promised *)
(* nothing.                                                                *)
Lost(l) == ~NodeBased /\ ~loop[l].intact

Phase(l) == IF Lost(l) THEN "lost"
            ELSE IF loop[l].phase \in {"advance", "value"} THEN "running"
            ELSE loop[l].phase
Due(l) == IF Lost(l) THEN {} ELSE loop[l].stayed \ ToSet(loop[l].seen)
History(l) == IF Lost(l) THEN <<>> ELSE loop[l].seen

Visits == INSTANCE Traversal WITH
  phase <- [l \in Loop |-> Phase(l)],
  due <- [l \in Loop |-> Due(l)],
  seen <- [l \in Loop |-> History(l)]

(* Every step of the iterators is one of a loop that visits what stays, in *)
(* order and once, or shows no change.                                     *)
ImplementsTraversal == Visits!Spec
=============================================================================
