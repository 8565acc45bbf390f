--------------------------- MODULE BoundSequence ---------------------------
(***************************************************************************)
(* StdVectorBindings and StdListBindings (std.hpp): a std::vector or       *)
(* std::list that Wren code changes and loops over.                        *)
(***************************************************************************)
EXTENDS ContainerLoops

CONSTANT MaxIndex  \* bound on the indexes Wren code passes

ASSUME SequenceAssumption == MaxIndex \in Nat

Index == -MaxIndex .. MaxIndex

VARIABLES
  unused,    \* elements not added yet: each is added at most once
  room       \* capacity of a vector's buffer

vars == <<items, loop, outcome, unused, room>>

TypeOK ==
  /\ LoopTypeOK
  /\ unused \in SUBSET Element
  /\ room \in Nat /\ (NodeBased \/ Len(items) <= room)

Init == LoopInit /\ unused = Element /\ room = 0

(* The call has undefined behaviour. *)
Undefined == outcome' = "undefined" /\ UNCHANGED <<items, loop, unused, room>>

(* It throws "invalid index". *)
Throw == outcome' = "error" /\ UNCHANGED <<items, loop, unused, room>>

(* iterate and iteratorValue *)
LoopStep(l) == (Begin(l) \/ Continue(l)) /\ UNCHANGED <<unused, room>>

(* Mutant: a full vector keeps its buffer. *)
PutInPlace(e, p) ==
  /\ e \in unused /\ unused' = unused \ {e}
  /\ items' = InsertAt(items, p, e)
  /\ room' = room /\ loop' = Changed(items', {})
  /\ outcome' = "ok"

(* e is put before position p; a full vector moves to a larger buffer. *)
Put(e, p) ==
  /\ e \in unused /\ unused' = unused \ {e}
  /\ items' = InsertAt(items, p, e)
  /\ IF ~NodeBased /\ Len(items) = room
     THEN /\ room' \in Len(items) + 1 .. Cardinality(Element)
          /\ loop' = Changed(items', Nat)
     ELSE room' = room /\ loop' = Changed(items', {})
  /\ outcome' = "ok"

(* The element at position p is erased. *)
Erase(p) ==
  /\ items' = RemoveAt(items, p)
  /\ loop' = Changed(items', {items[p]})
  /\ outcome' = "ok"
  /\ UNCHANGED <<unused, room>>

(* Negative indexes count from the end; the result counts from zero. *)
FromEnd(i) == IF i < 0 THEN Len(items) + i ELSE i

(* back() and pop_back() *)
EraseLast == IF items = <<>> THEN Undefined ELSE Erase(Len(items))

Add(e) == Running /\ Put(e, Len(items) + 1)

(* Mutant: negative indexes other than -1 count from beyond the end, as in *)
(* the lists of Wren.                                                      *)
InsertLikeWren(i, e) ==
  /\ Running
  /\ LET k == IF i < 0 THEN Len(items) + 1 + i ELSE i
     IN  IF k > Len(items) THEN Throw
         ELSE IF k < 0 THEN Undefined ELSE Put(e, k + 1)

(* insert(i, e): -1 appends, and an index below the first element is       *)
(* undefined.                                                              *)
Insert(i, e) ==
  /\ Running
  /\ LET k == FromEnd(i)
     IN  IF i = -1 THEN Put(e, Len(items) + 1)
         ELSE IF k > Len(items) THEN Throw
         ELSE IF k < 0 THEN Undefined
         ELSE Put(e, k + 1)

(* removeAt(i): the size as index removes the last element; an index below *)
(* the first throws from at() of a vector, and walks before begin() of a   *)
(* list.                                                                   *)
RemoveIndex(i) ==
  /\ Running
  /\ LET k == FromEnd(i)
     IN  IF i = -1 \/ k = Len(items) THEN EraseLast
         ELSE IF k > Len(items) THEN Throw
         ELSE IF k < 0 THEN (IF NodeBased THEN Undefined ELSE Throw)
         ELSE Erase(k + 1)

Pop == Running /\ EraseLast

Clear ==
  /\ Running
  /\ items' = <<>>
  /\ loop' = Changed(items', ToSet(items))
  /\ outcome' = "ok"
  /\ UNCHANGED <<unused, room>>

(* [i] and [i]=(e) take a size_t and test nothing; which value an element  *)
(* has is not modelled.                                                    *)
Subscript(i) ==
  /\ Running
  /\ IF 0 <= i /\ i < Len(items) THEN outcome' = "ok" /\ UNCHANGED <<items, loop, unused, room>>
     ELSE Undefined

(* contains, count, size and empty *)
Query == Running /\ outcome' = "ok" /\ UNCHANGED <<items, loop, unused, room>>

Next ==
  \/ \E l \in Loop : LoopStep(l)
  \/ \E e \in Element : Add(e)
  \/ \E i \in Index, e \in Element : Insert(i, e)
  \/ \E i \in Index : RemoveIndex(i) \/ Subscript(i)
  \/ Pop \/ Clear \/ Query

(* The body of a loop ends, and the fiber it is in is resumed. *)
Fairness == \A l \in Loop : WF_vars(Continue(l) /\ UNCHANGED <<unused, room>>)

Spec == Init /\ [][Next]_vars /\ Fairness
----------------------------------------------------------------------------
(* What an index within the container means (stl.md:166-170 and the tests  *)
(* in lists.cpp:31-56): -k is the k-th element from the back, an insertion *)
(* comes before the element an index names, and -1 inserts at the end.     *)
Named(i) == IF i < 0 THEN Len(items) + i + 1 ELSE i + 1
PlaceOf(i) == IF i = -1 THEN Len(items) + 1 ELSE Named(i)
IndexesMeanPositions ==
  [][\A i \in Index : Named(i) \in DOMAIN items =>
       /\ RemoveIndex(i) => /\ outcome' = "ok"
                            /\ items' = SubSeq(items, 1, Named(i) - 1)
                                          \o SubSeq(items, Named(i) + 1, Len(items))
       /\ \A e \in Element : Insert(i, e) =>
            /\ outcome' = "ok"
            /\ Len(items') = Len(items) + 1 /\ items'[PlaceOf(i)] = e
            /\ RemoveAt(items', PlaceOf(i)) = items]_vars
=============================================================================
