------------------------ MODULE BoundSequenceProofs ------------------------
(***************************************************************************)
(* Proofs about BoundSequence, for any elements, loops, indexes and        *)
(* capacities of a vector.                                                 *)
(***************************************************************************)
EXTENDS BoundSequence, SequenceTheorems, FiniteSetTheorems, TLAPS

(* a comes before b in s. *)
Precedes(s, a, b) == \E p, q \in DOMAIN s : p < q /\ s[p] = a /\ s[q] = b
----------------------------------------------------------------------------
(* Sequences. *)

(* What is put in at a position moves the rest up. *)
LEMMA Inserted ==
  ASSUME NEW S, NEW s \in Seq(S), NEW p \in 1 .. Len(s) + 1, NEW e \in S
  PROVE  /\ InsertAt(s, p, e) \in Seq(S)
         /\ Len(InsertAt(s, p, e)) = Len(s) + 1
         /\ DOMAIN InsertAt(s, p, e) = 1 .. Len(s) + 1
         /\ \A i \in 1 .. Len(s) + 1 :
              InsertAt(s, p, e)[i] = IF i < p THEN s[i] ELSE IF i = p THEN e ELSE s[i - 1]
  <1> DEFINE a == SubSeq(s, 1, p - 1)
             b == <<e>>
             c == SubSeq(s, p, Len(s))
  <1>0. Len(s) \in Nat /\ p \in Nat /\ 1 <= p /\ p <= Len(s) + 1
        /\ \A i \in 1 .. Len(s) : s[i] \in S
    BY LenProperties, ElementOfSeq
  <1>1. a \in Seq(S) /\ Len(a) = p - 1 /\ \A i \in 1 .. p - 1 : a[i] = s[i]
    <2>1. \A i \in 1 .. p - 1 : s[i] \in S
      BY <1>0
    <2>2. /\ a \in Seq(S)
          /\ Len(a) = IF 1 <= p - 1 THEN p - 1 - 1 + 1 ELSE 0
          /\ \A i \in 1 .. p - 1 - 1 + 1 : a[i] = s[1 + i - 1]
      BY <1>0, <2>1, SubSeqProperties
    <2> HIDE DEF a
    <2> QED
      BY <2>2, <1>0
  <1>2. b \in Seq(S) /\ Len(b) = 1 /\ b[1] = e
    OBVIOUS
  <1>3. /\ c \in Seq(S) /\ Len(c) = Len(s) - p + 1
        /\ \A i \in 1 .. Len(s) - p + 1 : c[i] = s[p + i - 1]
    <2>1. \A i \in p .. Len(s) : s[i] \in S
      BY <1>0
    <2>2. /\ c \in Seq(S)
          /\ Len(c) = IF p <= Len(s) THEN Len(s) - p + 1 ELSE 0
          /\ \A i \in 1 .. Len(s) - p + 1 : c[i] = s[p + i - 1]
      BY <1>0, <2>1, SubSeqProperties
    <2> HIDE DEF c
    <2> QED
      BY <2>2, <1>0
  <1> HIDE DEF a, b, c
  <1> DEFINE ab == a \o b
  <1>4. /\ ab \in Seq(S) /\ Len(ab) = p
        /\ \A i \in 1 .. p : ab[i] = IF i < p THEN s[i] ELSE e
    <2>1. /\ a \o b \in Seq(S) /\ Len(a \o b) = Len(a) + Len(b)
          /\ \A i \in 1 .. Len(a) + Len(b) :
               (a \o b)[i] = IF i <= Len(a) THEN a[i] ELSE b[i - Len(a)]
      BY <1>1, <1>2, ConcatProperties
    <2> QED
      BY <2>1, <1>0, <1>1, <1>2
  <1> HIDE DEF ab
  <1>5. /\ ab \o c \in Seq(S) /\ Len(ab \o c) = Len(s) + 1
        /\ \A i \in 1 .. Len(s) + 1 : (ab \o c)[i] = IF i <= p THEN ab[i] ELSE c[i - p]
    <2>1. /\ ab \o c \in Seq(S) /\ Len(ab \o c) = Len(ab) + Len(c)
          /\ \A i \in 1 .. Len(ab) + Len(c) :
               (ab \o c)[i] = IF i <= Len(ab) THEN ab[i] ELSE c[i - Len(ab)]
      BY <1>3, <1>4, ConcatProperties
    <2> QED
      BY <2>1, <1>0, <1>3, <1>4
  <1>6. InsertAt(s, p, e) = ab \o c
    BY DEF InsertAt, a, b, c, ab
  <1> DEFINE t == ab \o c
  <1> HIDE DEF t
  <1>7. ASSUME NEW i \in 1 .. Len(s) + 1
        PROVE  t[i] = IF i < p THEN s[i] ELSE IF i = p THEN e ELSE s[i - 1]
    <2>0. i \in Int /\ p \in Int
      BY <1>0
    <2>1. t[i] = IF i <= p THEN ab[i] ELSE c[i - p]
      BY <1>5 DEF t
    <2>2. CASE i <= p
      BY <2>0, <2>1, <2>2, <1>4
    <2>3. CASE ~(i <= p)
      <3>1. i - p \in 1 .. Len(s) - p + 1 /\ p + (i - p) - 1 = i - 1
        BY <2>3, <1>0
      <3>2. c[i - p] = s[i - 1]
        BY <3>1, <1>3
      <3> QED
        BY <3>2, <2>0, <2>1, <2>3
    <2> QED
      BY <2>2, <2>3
  <1> QED
    BY <1>5, <1>6, <1>7, LenProperties DEF t

(* What is taken from a position lets the rest move down. *)
LEMMA Removed ==
  ASSUME NEW S, NEW s \in Seq(S), NEW p \in 1 .. Len(s)
  PROVE  /\ RemoveAt(s, p) \in Seq(S)
         /\ Len(RemoveAt(s, p)) = Len(s) - 1
         /\ DOMAIN RemoveAt(s, p) = 1 .. Len(s) - 1
         /\ \A i \in 1 .. Len(s) - 1 :
              RemoveAt(s, p)[i] = IF i < p THEN s[i] ELSE s[i + 1]
  <1> DEFINE a == SubSeq(s, 1, p - 1)
             c == SubSeq(s, p + 1, Len(s))
  <1>0. Len(s) \in Nat /\ p \in Nat /\ 1 <= p /\ p <= Len(s)
        /\ \A i \in 1 .. Len(s) : s[i] \in S
    BY LenProperties, ElementOfSeq
  <1>1. a \in Seq(S) /\ Len(a) = p - 1 /\ \A i \in 1 .. p - 1 : a[i] = s[i]
    <2>1. \A i \in 1 .. p - 1 : s[i] \in S
      BY <1>0
    <2>2. /\ a \in Seq(S)
          /\ Len(a) = IF 1 <= p - 1 THEN p - 1 - 1 + 1 ELSE 0
          /\ \A i \in 1 .. p - 1 - 1 + 1 : a[i] = s[1 + i - 1]
      BY <1>0, <2>1, SubSeqProperties
    <2> HIDE DEF a
    <2> QED
      BY <2>2, <1>0
  <1>3. /\ c \in Seq(S) /\ Len(c) = Len(s) - p
        /\ \A i \in 1 .. Len(s) - p : c[i] = s[p + i]
    <2>1. \A i \in p + 1 .. Len(s) : s[i] \in S
      BY <1>0
    <2>2. /\ c \in Seq(S)
          /\ Len(c) = IF p + 1 <= Len(s) THEN Len(s) - (p + 1) + 1 ELSE 0
          /\ \A i \in 1 .. Len(s) - (p + 1) + 1 : c[i] = s[p + 1 + i - 1]
      BY <1>0, <2>1, SubSeqProperties
    <2> HIDE DEF c
    <2> QED
      BY <2>2, <1>0
  <1> HIDE DEF a, c
  <1>4. /\ a \o c \in Seq(S) /\ Len(a \o c) = Len(s) - 1
        /\ \A i \in 1 .. Len(s) - 1 : (a \o c)[i] = IF i < p THEN s[i] ELSE s[i + 1]
    <2>1. /\ a \o c \in Seq(S) /\ Len(a \o c) = Len(a) + Len(c)
          /\ \A i \in 1 .. Len(a) + Len(c) :
               (a \o c)[i] = IF i <= Len(a) THEN a[i] ELSE c[i - Len(a)]
      BY <1>1, <1>3, ConcatProperties
    <2> DEFINE t == a \o c
    <2> HIDE DEF t
    <2>2. ASSUME NEW i \in 1 .. Len(s) - 1
          PROVE  t[i] = IF i < p THEN s[i] ELSE s[i + 1]
      <3>0. i \in Int /\ p \in Int /\ i \in 1 .. Len(a) + Len(c)
        BY <1>0, <1>1, <1>3
      <3>1. t[i] = IF i <= p - 1 THEN a[i] ELSE c[i - (p - 1)]
        BY <2>1, <3>0, <1>1 DEF t
      <3>2. CASE i < p
        BY <3>0, <3>1, <3>2, <1>1
      <3>3. CASE ~(i < p)
        <4>1. i - (p - 1) \in 1 .. Len(s) - p /\ p + (i - (p - 1)) = i + 1
          BY <3>3, <1>0
        <4>2. c[i - (p - 1)] = s[i + 1]
          BY <4>1, <1>3
        <4> QED
          BY <4>2, <3>0, <3>1, <3>3
      <3> QED
        BY <3>2, <3>3
    <2> QED
      BY <2>1, <2>2, <1>0, <1>1, <1>3 DEF t
  <1>5. RemoveAt(s, p) = a \o c
    BY DEF RemoveAt, a, c
  <1> QED
    BY <1>4, <1>5, LenProperties

(* A sequence without repetitions is no longer than there are elements. *)
LEMMA DistinctLength ==
  ASSUME NEW s \in Seq(Element), IsInjective(s)
  PROVE  /\ Len(s) \in Nat /\ Len(s) <= Cardinality(Element) /\ Cardinality(Element) \in Nat
         /\ Len(s) = Cardinality(ToSet(s))
  <1>1. Len(s) \in Nat /\ s \in [1 .. Len(s) -> Element] /\ DOMAIN s = 1 .. Len(s)
    BY LenProperties
  <1>2. IsFiniteSet(1 .. Len(s)) /\ Cardinality(1 .. Len(s)) = Len(s)
    BY <1>1, FS_Interval
  <1>3. s \in Injection(1 .. Len(s), Element)
    BY <1>1 DEF Injection
  <1>4. Cardinality(1 .. Len(s)) <= Cardinality(Element)
    BY <1>3, LoopAssumption, FS_Injection
  <1>5. s \in Bijection(1 .. Len(s), ToSet(s))
    BY <1>1 DEF Bijection, Injection, Surjection, ToSet
  <1>6. Cardinality(ToSet(s)) = Cardinality(1 .. Len(s))
    BY <1>2, <1>5, FS_Bijection DEF ExistsBijection
  <1> QED
    BY <1>1, <1>2, <1>4, <1>6, LoopAssumption, FS_CardinalityType

(* A new element is in once, and the others keep their order. *)
LEMMA InsertedOnce ==
  ASSUME NEW s \in Seq(Element), IsInjective(s), NEW p \in 1 .. Len(s) + 1,
         NEW e \in Element, e \notin ToSet(s),
         NEW t, t = InsertAt(s, p, e)
  PROVE  /\ t \in Seq(Element) /\ IsInjective(t) /\ Len(t) = Len(s) + 1
         /\ ToSet(t) = ToSet(s) \cup {e}
         /\ \A a, b : Precedes(s, a, b) => Precedes(t, a, b)
  <1>1. /\ t \in Seq(Element) /\ Len(t) = Len(s) + 1 /\ DOMAIN t = 1 .. Len(s) + 1
        /\ \A i \in 1 .. Len(s) + 1 :
             t[i] = IF i < p THEN s[i] ELSE IF i = p THEN e ELSE s[i - 1]
    BY Inserted
  <1>2. Len(s) \in Nat /\ DOMAIN s = 1 .. Len(s) /\ p \in Int /\ 1 <= p /\ p <= Len(s) + 1
    BY LenProperties
  <1> DEFINE up(i) == IF i < p THEN i ELSE i + 1
  <1>3. \A i \in DOMAIN s : up(i) \in DOMAIN t /\ t[up(i)] = s[i]
    BY <1>1, <1>2
  <1>4. \A j \in DOMAIN t : j = p \/ \E i \in DOMAIN s : j = up(i)
    <2> TAKE j \in DOMAIN t
    <2>1. CASE j < p
      BY <2>1, <1>1, <1>2
    <2>2. CASE j > p
      <3>1. j - 1 \in DOMAIN s /\ up(j - 1) = j
        BY <2>2, <1>1, <1>2
      <3> QED
        BY <3>1
    <2> QED
      BY <2>1, <2>2, <1>1, <1>2
  <1>5. t[p] = e /\ p \in DOMAIN t
    BY <1>1, <1>2
  <1>6. \A i, k \in DOMAIN s : i < k => up(i) < up(k)
    BY <1>2
  <1> HIDE DEF up
  <1>7. IsInjective(t)
    BY <1>3, <1>4, <1>5 DEF IsInjective, ToSet
  <1>8. ToSet(t) = ToSet(s) \cup {e}
    BY <1>3, <1>4, <1>5 DEF ToSet
  <1>9. \A a, b : Precedes(s, a, b) => Precedes(t, a, b)
    BY <1>3, <1>6 DEF Precedes
  <1> QED
    BY <1>1, <1>7, <1>8, <1>9

(* Without one element the others keep their order. *)
LEMMA RemovedOnce ==
  ASSUME NEW s \in Seq(Element), IsInjective(s), NEW p \in 1 .. Len(s),
         NEW t, t = RemoveAt(s, p)
  PROVE  /\ t \in Seq(Element) /\ IsInjective(t) /\ Len(t) = Len(s) - 1
         /\ ToSet(t) = ToSet(s) \ {s[p]}
         /\ \A a, b \in ToSet(t) : Precedes(s, a, b) => Precedes(t, a, b)
  <1>1. /\ t \in Seq(Element) /\ Len(t) = Len(s) - 1 /\ DOMAIN t = 1 .. Len(s) - 1
        /\ \A i \in 1 .. Len(s) - 1 : t[i] = IF i < p THEN s[i] ELSE s[i + 1]
    BY Removed
  <1>2. Len(s) \in Nat /\ DOMAIN s = 1 .. Len(s) /\ p \in Int /\ 1 <= p /\ p <= Len(s)
    BY LenProperties
  <1> DEFINE down(i) == IF i < p THEN i ELSE i - 1
             up(i) == IF i < p THEN i ELSE i + 1
  <1>3. \A i \in DOMAIN s : i # p => down(i) \in DOMAIN t /\ t[down(i)] = s[i]
    <2> TAKE i \in DOMAIN s
    <2>1. CASE i < p
      BY <2>1, <1>1, <1>2
    <2>2. CASE i > p
      <3>1. i - 1 \in DOMAIN t /\ ~(i - 1 < p) /\ (i - 1) + 1 = i
        BY <2>2, <1>1, <1>2
      <3>2. t[i - 1] = s[i]
        BY <3>1, <1>1
      <3> QED
        BY <3>1, <3>2, <2>2, <1>2
    <2> QED
      BY <2>1, <2>2, <1>2
  <1>4. \A j \in DOMAIN t : up(j) \in DOMAIN s /\ up(j) # p /\ s[up(j)] = t[j]
    BY <1>1, <1>2
  <1>5. \A i, k \in DOMAIN t : up(i) = up(k) => i = k
    BY <1>1, <1>2
  <1>6. \A i, k \in DOMAIN s : i < k /\ i # p /\ k # p => down(i) < down(k)
    BY <1>2
  <1> HIDE DEF up, down
  <1>7. IsInjective(t)
    BY <1>4, <1>5 DEF IsInjective
  <1>8. ToSet(t) = ToSet(s) \ {s[p]}
    BY <1>2, <1>3, <1>4 DEF ToSet, IsInjective
  <1>9. ASSUME NEW a \in ToSet(t), NEW b \in ToSet(t), Precedes(s, a, b)
        PROVE  Precedes(t, a, b)
    <2>1. PICK i, k \in DOMAIN s : i < k /\ s[i] = a /\ s[k] = b
      BY <1>9 DEF Precedes
    <2>2. i # p /\ k # p
      BY <2>1, <1>8
    <2> QED
      BY <2>1, <2>2, <1>3, <1>6 DEF Precedes
  <1> QED
    BY <1>1, <1>7, <1>8, <1>9

(* The order of distinct elements is strict, and there is a next one or none. *)
LEMMA Order ==
  ASSUME NEW s \in Seq(Element), IsInjective(s), NEW n \in DOMAIN s
  PROVE  /\ ~Precedes(s, s[n], s[n])
         /\ \A b : Precedes(s, s[n], b) => n # Len(s) /\ (b = s[n + 1] \/ Precedes(s, s[n + 1], b))
         /\ n # Len(s) => n + 1 \in DOMAIN s /\ Precedes(s, s[n], s[n + 1])
         /\ \A a : n # Len(s) /\ Precedes(s, a, s[n]) => Precedes(s, a, s[n + 1])
  <1>1. Len(s) \in Nat /\ DOMAIN s = 1 .. Len(s) /\ n \in Int
    BY LenProperties
  <1>2. \A i \in DOMAIN s : s[i] = s[n] => i = n
    BY DEF IsInjective
  <1>3. ~Precedes(s, s[n], s[n])
    BY <1>1, <1>2 DEF Precedes
  <1>4. ASSUME n # Len(s)
        PROVE  n + 1 \in DOMAIN s /\ n < n + 1
    BY <1>1, <1>4
  <1>5. ASSUME NEW b, Precedes(s, s[n], b)
        PROVE  n # Len(s) /\ (b = s[n + 1] \/ Precedes(s, s[n + 1], b))
    <2>1. PICK k \in DOMAIN s : n < k /\ s[k] = b
      BY <1>2, <1>5 DEF Precedes
    <2>2. n # Len(s) /\ (k = n + 1 \/ n + 1 < k)
      BY <2>1, <1>1
    <2> QED
      BY <2>1, <2>2, <1>4 DEF Precedes
  <1>6. ASSUME NEW a, n # Len(s), Precedes(s, a, s[n])
        PROVE  Precedes(s, a, s[n + 1])
    <2>1. PICK i \in DOMAIN s : i < n /\ s[i] = a
      BY <1>2, <1>6 DEF Precedes
    <2>2. i < n + 1
      BY <2>1, <1>1
    <2> QED
      BY <2>1, <2>2, <1>4, <1>6 DEF Precedes
  <1> QED
    BY <1>3, <1>4, <1>5, <1>6 DEF Precedes
----------------------------------------------------------------------------
(* A loop of which the next step is still to come. *)
Active(l) == loop[l].phase \in {"advance", "value"}

(* An element is in the container at most once, and not before it is added. *)
Elements ==
  /\ items \in Seq(Element) /\ IsInjective(items)
  /\ unused \subseteq Element /\ ToSet(items) \cap unused = {}

(* An iterator that was not invalidated denotes an element of a list, or a *)
(* place in a vector or beyond its end.                                    *)
Iterators == \A l \in Loop : Active(l) /\ ~loop[l].stale =>
  IF NodeBased THEN loop[l].at \in ToSet(items) ELSE loop[l].at \in Nat \ {0}

(* How many steps of iterate() have succeeded. *)
Reached(l) == Len(loop[l].seen) + (IF loop[l].phase = "value" THEN 1 ELSE 0)

(* A loop over an unchanged container has seen the elements up to the one  *)
(* its iterator is at.                                                     *)
Exact(l) ==
  /\ ~loop[l].stale
  /\ loop[l].phase = "done" => loop[l].seen = items
  /\ Active(l) =>
       /\ Reached(l) \in 1 .. Len(items) /\ loop[l].at = IteratorTo(Reached(l))
       /\ \A p \in 1 .. Len(loop[l].seen) : loop[l].seen[p] = items[p]

Undisturbed == \A l \in Loop : loop[l].phase # "idle" /\ loop[l].intact => Exact(l)

(* The inductive invariant for undisturbed loops. *)
Reliable == TypeOK /\ Elements /\ Iterators /\ Undisturbed

(* A loop over a changed list: the order of what it has seen, and where    *)
(* that and what is still to come are.                                     *)
Ordered(l) ==
  /\ IsInjective(loop[l].seen) /\ ToSet(loop[l].seen) \cap unused = {}
  /\ \A p, q \in DOMAIN loop[l].seen :
       p < q /\ loop[l].seen[p] \in ToSet(items) /\ loop[l].seen[q] \in ToSet(items) =>
         Precedes(items, loop[l].seen[p], loop[l].seen[q])

Ahead(l) ==
  /\ loop[l].stayed \subseteq ToSet(items)
  /\ \A e \in loop[l].stayed :
       \/ e \in ToSet(loop[l].seen) \/ Precedes(items, loop[l].at, e)
       \/ loop[l].phase = "value" /\ e = loop[l].at
  /\ \A e \in ToSet(loop[l].seen) \cap ToSet(items) :
       \/ Precedes(items, e, loop[l].at)
       \/ loop[l].phase = "advance" /\ e = loop[l].at

Followed == \A l \in Loop : loop[l].phase # "idle" =>
  /\ Ordered(l)
  /\ loop[l].phase = "done" => loop[l].stayed \subseteq ToSet(loop[l].seen)
  /\ Active(l) /\ ~loop[l].stale => Ahead(l)

(* The inductive invariant for loops over lists. *)
Complete == Reliable /\ Followed
----------------------------------------------------------------------------
(* The steps there are: of loops, of changes, and those that only answer.  *)

(* The container is changed, and what is in S is freed. *)
Change(S) ==
  /\ items' \in Seq(Element) /\ IsInjective(items')
  /\ unused' \subseteq unused /\ ToSet(items') \subseteq ToSet(items) \cup (unused \ unused')
  /\ ToSet(items) \ S \subseteq ToSet(items')
  /\ \A a, b \in ToSet(items) \cap ToSet(items') :
       Precedes(items, a, b) => Precedes(items', a, b)
  /\ loop' = Changed(items', S)
  /\ room' \in Nat /\ (NodeBased \/ Len(items') <= room')
  /\ outcome' = "ok"

(* What only answers. *)
Answer ==
  outcome' \in {"ok", "error", "undefined"} /\ UNCHANGED <<items, loop, unused, room>>

(* add, insert: an element that was not in, and a larger buffer if need be. *)
LEMMA PutChanges ==
  ASSUME TypeOK, Elements, NEW e \in Element, NEW p \in 1 .. Len(items) + 1, Put(e, p)
  PROVE  \E S : Change(S)
  <1>1. /\ e \in unused /\ unused' = unused \ {e} /\ items' = InsertAt(items, p, e)
        /\ outcome' = "ok"
    BY DEF Put
  <1>2. items \in Seq(Element) /\ IsInjective(items) /\ e \notin ToSet(items)
        /\ Len(items) \in Nat
    BY <1>1, LenProperties DEF Elements
  <1>3. /\ items' \in Seq(Element) /\ IsInjective(items') /\ Len(items') = Len(items) + 1
        /\ ToSet(items') = ToSet(items) \cup {e}
        /\ \A a, b : Precedes(items, a, b) => Precedes(items', a, b)
    BY <1>1, <1>2, InsertedOnce
  <1>4. PICK S : loop' = Changed(items', S) /\ room' \in Nat /\ (NodeBased \/ Len(items') <= room')
    <2>1. room \in Nat /\ (NodeBased \/ Len(items) <= room)
      BY DEF TypeOK
    <2>2. CASE ~NodeBased /\ Len(items) = room
      <3>1. Cardinality(Element) \in Nat
        BY LoopAssumption, FS_CardinalityType
      <3>2. room' \in Len(items) + 1 .. Cardinality(Element) /\ loop' = Changed(items', Nat)
        BY <2>2 DEF Put
      <3>3. room' \in Nat /\ Len(items') <= room'
        BY <3>1, <3>2, <1>2, <1>3
      <3> QED
        BY <3>2, <3>3
    <2>3. CASE NodeBased \/ Len(items) # room
      <3>1. room' = room /\ loop' = Changed(items', {})
        BY <2>3 DEF Put
      <3>2. NodeBased \/ Len(items') <= room'
        BY <3>1, <2>1, <2>3, <1>2, <1>3
      <3> QED
        BY <3>1, <3>2, <2>1
    <2> QED
      BY <2>2, <2>3
  <1>5. Change(S)
    BY <1>1, <1>3, <1>4 DEF Change
  <1> QED
    BY <1>5

(* removeAt, pop: an element is taken out. *)
LEMMA EraseChanges ==
  ASSUME TypeOK, Elements, NEW p \in 1 .. Len(items), Erase(p)
  PROVE  \E S : Change(S)
  <1>1. /\ items' = RemoveAt(items, p) /\ loop' = Changed(items', {items[p]})
        /\ outcome' = "ok" /\ UNCHANGED <<unused, room>>
    BY DEF Erase
  <1>2. items \in Seq(Element) /\ IsInjective(items) /\ Len(items) \in Nat
    BY LenProperties DEF Elements
  <1>3. /\ items' \in Seq(Element) /\ IsInjective(items') /\ Len(items') = Len(items) - 1
        /\ ToSet(items') = ToSet(items) \ {items[p]}
        /\ \A a, b \in ToSet(items') : Precedes(items, a, b) => Precedes(items', a, b)
    BY <1>1, <1>2, RemovedOnce
  <1>4. room' \in Nat /\ (NodeBased \/ Len(items') <= room')
    BY <1>1, <1>2, <1>3 DEF TypeOK
  <1>5. Change({items[p]})
    BY <1>1, <1>3, <1>4 DEF Change
  <1> QED
    BY <1>5

(* clear *)
LEMMA ClearChanges ==
  ASSUME TypeOK, Elements, Clear
  PROVE  \E S : Change(S)
  <1>1. /\ items' = <<>> /\ loop' = Changed(items', ToSet(items))
        /\ outcome' = "ok" /\ UNCHANGED <<unused, room>>
    BY DEF Clear
  <1>2. items' \in Seq(Element) /\ IsInjective(items') /\ ToSet(items') = {} /\ Len(items') = 0
    BY <1>1, EmptySeq DEF IsInjective, ToSet
  <1>3. room' \in Nat /\ (NodeBased \/ Len(items') <= room')
    BY <1>1, <1>2 DEF TypeOK
  <1>4. Change(ToSet(items))
    BY <1>1, <1>2, <1>3 DEF Change
  <1> QED
    BY <1>4

(* Every step is one of these. *)
LEMMA Steps ==
  ASSUME TypeOK, Elements, Next
  PROVE  \/ \E l \in Loop : /\ Begin(l) \/ Advance(l) \/ Value(l)
                            /\ UNCHANGED <<unused, room>>
         \/ \E S : Change(S)
         \/ Answer
  <1> USE DEF Answer
  <1>0. Len(items) \in Nat /\ (items # <<>> => Len(items) # 0)
    BY EmptySeq, LenProperties DEF Elements
  <1>1. ASSUME EraseLast
        PROVE  (\E S : Change(S)) \/ Answer
    <2>1. CASE items = <<>>
      BY <1>1, <2>1 DEF EraseLast, Undefined
    <2>2. CASE items # <<>>
      <3>1. Erase(Len(items)) /\ Len(items) \in 1 .. Len(items)
        BY <1>0, <1>1, <2>2 DEF EraseLast
      <3> QED
        BY <3>1, EraseChanges
    <2> QED
      BY <2>1, <2>2
  <1>2. ASSUME NEW i \in Index, RemoveIndex(i)
        PROVE  (\E S : Change(S)) \/ Answer
    <2>1. FromEnd(i) \in Int
      BY <1>0, SequenceAssumption DEF FromEnd, Index
    <2>2. CASE EraseLast
      BY <2>2, <1>1
    <2>3. CASE Throw \/ Undefined
      BY <2>3 DEF Throw, Undefined
    <2>4. CASE 0 <= FromEnd(i) /\ FromEnd(i) < Len(items) /\ Erase(FromEnd(i) + 1)
      <3>1. FromEnd(i) + 1 \in 1 .. Len(items)
        BY <2>1, <2>4, <1>0
      <3> QED
        BY <3>1, <2>4, EraseChanges
    <2> QED
      BY <1>0, <1>2, <2>1, <2>2, <2>3, <2>4 DEF RemoveIndex
  <1>3. ASSUME NEW i \in Index, NEW e \in Element, Insert(i, e)
        PROVE  (\E S : Change(S)) \/ Answer
    <2>1. FromEnd(i) \in Int
      BY <1>0, SequenceAssumption DEF FromEnd, Index
    <2>2. CASE Throw \/ Undefined
      BY <2>2 DEF Throw, Undefined
    <2>3. CASE \E p \in 1 .. Len(items) + 1 : Put(e, p)
      BY <2>3, PutChanges
    <2>4. Len(items) + 1 \in 1 .. Len(items) + 1
      BY <1>0
    <2>5. ~(FromEnd(i) > Len(items)) /\ ~(FromEnd(i) < 0) => FromEnd(i) + 1 \in 1 .. Len(items) + 1
      BY <2>1, <1>0
    <2> QED
      BY <1>3, <2>2, <2>3, <2>4, <2>5 DEF Insert
  <1>4. ASSUME NEW e \in Element, Add(e)
        PROVE  \E S : Change(S)
    <2>1. Len(items) + 1 \in 1 .. Len(items) + 1 /\ Put(e, Len(items) + 1)
      BY <1>0, <1>4 DEF Add
    <2> QED
      BY <2>1, PutChanges
  <1>5. ASSUME NEW l \in Loop, LoopStep(l)
        PROVE  \/ /\ Begin(l) \/ Advance(l) \/ Value(l)
                  /\ UNCHANGED <<unused, room>>
               \/ Answer
    BY <1>5 DEF LoopStep, Continue, UseInvalid
  <1>6. ASSUME NEW i \in Index, Subscript(i)
        PROVE  Answer
    BY <1>6 DEF Subscript, Undefined
  <1>7. Query => Answer
    BY DEF Query
  <1>8. Pop => (\E S : Change(S)) \/ Answer
    BY <1>1 DEF Pop
  <1> QED
    BY <1>2, <1>3, <1>4, <1>5, <1>6, <1>7, <1>8, ClearChanges DEF Next

(* Loops after a change. *)
LEMMA ChangedLoops ==
  ASSUME TypeOK, NEW S, Change(S)
  PROVE  /\ LoopTypeOK'
         /\ \A l \in Loop :
              /\ loop'[l].phase = loop[l].phase
              /\ loop[l].phase # "idle" => ~loop'[l].intact /\ loop'[l].seen = loop[l].seen
              /\ loop[l].phase = "done" => loop'[l].stayed = loop[l].stayed
              /\ Active(l) =>
                   /\ loop'[l].at = loop[l].at
                   /\ loop'[l].stale = (loop[l].stale \/ loop[l].at \in S)
                   /\ loop'[l].stayed = loop[l].stayed \cap ToSet(items')
  <1>1. items' \in Seq(Element) /\ loop' = Changed(items', S) /\ outcome' = "ok"
    BY DEF Change
  <1>2. Idle \in [phase : {"idle", "advance", "value", "done"},
                  at : Nat \cup Element, stale : BOOLEAN, intact : BOOLEAN,
                  seen : Seq(Element), stayed : SUBSET Element]
    BY EmptySeq DEF Idle
  <1>3. ASSUME NEW l \in Loop
        PROVE  /\ loop'[l] \in [phase : {"idle", "advance", "value", "done"},
                                at : Nat \cup Element, stale : BOOLEAN, intact : BOOLEAN,
                                seen : Seq(Element), stayed : SUBSET Element]
               /\ loop'[l].phase = loop[l].phase
               /\ loop[l].phase # "idle" => ~loop'[l].intact /\ loop'[l].seen = loop[l].seen
               /\ loop[l].phase = "done" => loop'[l].stayed = loop[l].stayed
               /\ Active(l) =>
                    /\ loop'[l].at = loop[l].at
                    /\ loop'[l].stale = (loop[l].stale \/ loop[l].at \in S)
                    /\ loop'[l].stayed = loop[l].stayed \cap ToSet(items')
    <2>0. loop[l] \in [phase : {"idle", "advance", "value", "done"},
                       at : Nat \cup Element, stale : BOOLEAN, intact : BOOLEAN,
                       seen : Seq(Element), stayed : SUBSET Element]
      BY DEF TypeOK, LoopTypeOK
    <2>1. CASE loop[l].phase = "idle"
      <3>1. loop'[l] = Idle
        BY <1>1, <2>1 DEF Changed
      <3> QED
        BY <3>1, <1>2, <2>1 DEF Idle, Active
    <2>2. CASE loop[l].phase = "done"
      <3>1. loop'[l] = [loop[l] EXCEPT !.intact = FALSE]
        BY <1>1, <2>2 DEF Changed
      <3> QED
        BY <3>1, <2>0, <2>2 DEF Active
    <2>3. CASE Active(l)
      <3>1. loop'[l] = [loop[l] EXCEPT !.intact = FALSE, !.stayed = @ \cap ToSet(items'),
                                       !.stale = @ \/ loop[l].at \in S]
        BY <1>1, <2>3 DEF Changed, Active
      <3> QED
        BY <3>1, <2>0, <2>3 DEF Active
    <2> QED
      BY <2>0, <2>1, <2>2, <2>3 DEF Active
  <1>4. loop' = [l \in Loop |-> loop'[l]]
    BY <1>1 DEF Changed
  <1> QED
    BY <1>1, <1>3, <1>4 DEF LoopTypeOK

(* A change leaves no loop undisturbed, and removes what it frees. *)
LEMMA ChangeReliable ==
  ASSUME Reliable, NEW S, Change(S)
  PROVE  Reliable'
  <1>1. TypeOK'
    BY ChangedLoops DEF Reliable, TypeOK, Elements, Change
  <1>2. Elements'
    BY DEF Reliable, Elements, Change
  <1>3. Iterators'
    BY ChangedLoops DEF Reliable, Iterators, Active, Change
  <1>4. Undisturbed'
    BY ChangedLoops DEF Reliable, Undisturbed
  <1> QED
    BY <1>1, <1>2, <1>3, <1>4 DEF Reliable

(* An iterator of a list is at the place of its element. *)
LEMMA PlaceOfElement ==
  ASSUME NodeBased, Elements, NEW n \in 1 .. Len(items)
  PROVE  PositionOf(items[n]) = n
  BY LenProperties DEF PositionOf, Elements, IsInjective

(* Where an iterator that can be used is. *)
LEMMA PlaceOfIterator ==
  ASSUME Reliable, NEW l \in Loop, Active(l), Valid(l)
  PROVE  /\ PositionOf(loop[l].at) \in Nat \ {0}
         /\ NodeBased \/ loop[l].phase = "value" => PositionOf(loop[l].at) \in 1 .. Len(items)
         /\ NodeBased => items[PositionOf(loop[l].at)] = loop[l].at
         /\ Exact(l) => PositionOf(loop[l].at) = Reached(l)
  <1>0. items \in Seq(Element) /\ Len(items) \in Nat /\ DOMAIN items = 1 .. Len(items)
    BY LenProperties DEF Reliable, Elements
  <1>1. CASE NodeBased
    <2>1. PICK n \in 1 .. Len(items) : loop[l].at = items[n]
      BY <1>0, <1>1 DEF Reliable, Iterators, Valid, ToSet
    <2>2. PositionOf(loop[l].at) = n
      BY <1>1, <2>1, PlaceOfElement DEF Reliable
    <2>3. ASSUME Exact(l)
          PROVE  Reached(l) = n
      <3>1. loop[l].at = items[Reached(l)] /\ Reached(l) \in 1 .. Len(items)
        BY <1>0, <1>1, <2>3 DEF Exact, IteratorTo
      <3> QED
        BY <3>1, <2>1, <1>0 DEF Reliable, Elements, IsInjective
    <2> QED
      BY <1>0, <2>1, <2>2, <2>3
  <1>2. CASE ~NodeBased
    <2>1. loop[l].at \in Nat \ {0} /\ PositionOf(loop[l].at) = loop[l].at
      BY <1>2 DEF Reliable, Iterators, Valid, PositionOf
    <2>2. loop[l].phase = "value" => loop[l].at <= Len(items)
      BY <1>2 DEF Valid
    <2>3. Exact(l) => loop[l].at = Reached(l)
      BY <1>2 DEF Exact, IteratorTo
    <2> QED
      BY <1>0, <1>2, <2>1, <2>2, <2>3
  <1> QED
    BY <1>1, <1>2

(* A step of one loop: what is left to show is about that loop. *)
LEMMA LoopReliable ==
  ASSUME Reliable, NEW l \in Loop, UNCHANGED <<items, unused, room>>, outcome' = "ok",
         NEW r \in [phase : {"idle", "advance", "value", "done"},
                    at : Nat \cup Element, stale : BOOLEAN, intact : BOOLEAN,
                    seen : Seq(Element), stayed : SUBSET Element],
         loop' = [loop EXCEPT ![l] = r],
         r.phase \in {"advance", "value"} =>
           IF NodeBased THEN r.at \in ToSet(items) ELSE r.at \in Nat \ {0},
         r.intact => Exact(l)'
  PROVE  Reliable'
  <1>1. loop'[l] = r /\ \A m \in Loop \ {l} : loop'[m] = loop[m]
    BY DEF Reliable, TypeOK, LoopTypeOK
  <1>2. TypeOK' /\ Elements'
    BY DEF Reliable, TypeOK, LoopTypeOK, Elements
  <1>3. Iterators'
    BY <1>1 DEF Reliable, Iterators, Active
  <1>4. ASSUME NEW m \in Loop, m # l, Exact(m)
        PROVE  Exact(m)'
    BY <1>1, <1>4 DEF Exact, Active, Reached, IteratorTo
  <1>5. Undisturbed'
    BY <1>1, <1>4 DEF Reliable, Undisturbed
  <1> QED
    BY <1>2, <1>3, <1>5 DEF Reliable

(* iterate(null): a loop starts at the first element, or ends. *)
LEMMA BeginReliable ==
  ASSUME Reliable, NEW l \in Loop, Begin(l), UNCHANGED <<unused, room>>
  PROVE  Reliable'
  <1>0. items \in Seq(Element) /\ Len(items) \in Nat /\ DOMAIN items = 1 .. Len(items)
        /\ ToSet(items) \in SUBSET Element
    BY LenProperties, ElementOfSeq DEF Reliable, Elements, ToSet
  <1>1. CASE items # <<>>
    <2> DEFINE r == [Idle EXCEPT !.phase = "value", !.at = IteratorTo(1), !.stayed = ToSet(items)]
    <2>1. loop' = [loop EXCEPT ![l] = r] /\ outcome' = "ok" /\ UNCHANGED items
      BY <1>1 DEF Begin, BeginUntested
    <2>2. 1 \in 1 .. Len(items)
      BY <1>0, <1>1, EmptySeq
    <2>3. /\ IF NodeBased THEN IteratorTo(1) \in ToSet(items) ELSE IteratorTo(1) \in Nat \ {0}
          /\ IteratorTo(1) \in Nat \cup Element
      BY <1>0, <2>2 DEF IteratorTo, ToSet
    <2>4. <<>> \in Seq(Element) /\ Len(<<>>) = 0
      BY EmptySeq
    <2>5. /\ r.phase = "value" /\ r.at = IteratorTo(1) /\ r.seen = <<>> /\ ~r.stale
          /\ r \in [phase : {"idle", "advance", "value", "done"},
                    at : Nat \cup Element, stale : BOOLEAN, intact : BOOLEAN,
                    seen : Seq(Element), stayed : SUBSET Element]
      BY <1>0, <2>3, <2>4 DEF Idle
    <2> HIDE DEF r
    <2>6. loop'[l] = r
      BY <2>1 DEF Reliable, TypeOK, LoopTypeOK
    <2>7. Exact(l)'
      <3>1. Reached(l)' = 1 /\ Len(loop'[l].seen) = 0
        BY <2>5, <2>6, <2>4 DEF Reached
      <3>2. loop'[l].at = IteratorTo(Reached(l))'
        BY <3>1, <2>1, <2>5, <2>6 DEF IteratorTo
      <3> QED
        BY <3>1, <3>2, <2>1, <2>2, <2>5, <2>6 DEF Exact, Active
    <2> QED
      BY <2>1, <2>3, <2>5, <2>7, LoopReliable
  <1>2. CASE items = <<>>
    <2> DEFINE r == [Idle EXCEPT !.phase = "done"]
    <2>1. loop' = [loop EXCEPT ![l] = r] /\ outcome' = "ok" /\ UNCHANGED items
      BY <1>2 DEF Begin
    <2>2. /\ r.phase = "done" /\ r.seen = <<>> /\ ~r.stale
          /\ r \in [phase : {"idle", "advance", "value", "done"},
                    at : Nat \cup Element, stale : BOOLEAN, intact : BOOLEAN,
                    seen : Seq(Element), stayed : SUBSET Element]
      BY EmptySeq DEF Idle
    <2> HIDE DEF r
    <2>3. loop'[l] = r
      BY <2>1 DEF Reliable, TypeOK, LoopTypeOK
    <2>4. Exact(l)'
      BY <1>2, <2>1, <2>2, <2>3 DEF Exact, Active
    <2> QED
      BY <2>1, <2>2, <2>4, LoopReliable
  <1> QED
    BY <1>1, <1>2

(* iterate(it): the loop goes to the next element, or ends after the last. *)
LEMMA AdvanceReliable ==
  ASSUME Reliable, NEW l \in Loop, Advance(l), UNCHANGED <<unused, room>>
  PROVE  Reliable'
  <1> DEFINE p == PositionOf(loop[l].at) + 1
  <1>0. /\ items \in Seq(Element) /\ Len(items) \in Nat /\ DOMAIN items = 1 .. Len(items)
        /\ loop[l] \in [phase : {"idle", "advance", "value", "done"},
                        at : Nat \cup Element, stale : BOOLEAN, intact : BOOLEAN,
                        seen : Seq(Element), stayed : SUBSET Element]
        /\ Len(loop[l].seen) \in Nat /\ DOMAIN loop[l].seen = 1 .. Len(loop[l].seen)
    BY LenProperties DEF Reliable, Elements, TypeOK, LoopTypeOK
  <1>1. loop[l].phase = "advance" /\ Active(l) /\ Valid(l) /\ ~loop[l].stale
        /\ outcome' = "ok" /\ UNCHANGED items
    BY DEF Advance, Active, Valid
  <1>2. p \in Nat \ {0} /\ (NodeBased => p \in 2 .. Len(items) + 1)
    BY <1>0, <1>1, PlaceOfIterator
  <1>3. ASSUME loop[l].intact
        PROVE  /\ p = Len(loop[l].seen) + 1 /\ p \in 2 .. Len(items) + 1
               /\ \A i \in 1 .. Len(loop[l].seen) : loop[l].seen[i] = items[i]
    <2>1. Exact(l)
      BY <1>1, <1>3 DEF Reliable, Undisturbed, Active
    <2>2. p = Reached(l) + 1
      BY <1>1, <2>1, PlaceOfIterator
    <2>3. Reached(l) = Len(loop[l].seen)
      BY <1>0, <1>1 DEF Reached
    <2> QED
      BY <1>0, <1>1, <2>1, <2>2, <2>3 DEF Exact
  <1>4. CASE p = Len(items) + 1
    <2> DEFINE r == [loop[l] EXCEPT !.phase = "done"]
    <2>1. loop' = [loop EXCEPT ![l] = r]
      BY <1>4 DEF Advance
    <2>2. /\ r.phase = "done" /\ r.seen = loop[l].seen /\ ~r.stale /\ r.intact = loop[l].intact
          /\ r \in [phase : {"idle", "advance", "value", "done"},
                    at : Nat \cup Element, stale : BOOLEAN, intact : BOOLEAN,
                    seen : Seq(Element), stayed : SUBSET Element]
      BY <1>0, <1>1
    <2> HIDE DEF r
    <2>3. loop'[l] = r
      BY <2>1 DEF Reliable, TypeOK, LoopTypeOK
    <2>4. ASSUME r.intact
          PROVE  Exact(l)'
      <3>1. Len(loop[l].seen) = Len(items) /\ \A i \in 1 .. Len(items) : loop[l].seen[i] = items[i]
        BY <1>0, <1>3, <1>4, <2>2, <2>4
      <3>2. loop[l].seen = items
        BY <1>0, <3>1, SeqEqual
      <3> QED
        BY <3>2, <1>1, <2>2, <2>3 DEF Exact, Active
    <2> QED
      BY <1>1, <2>1, <2>2, <2>4, LoopReliable
  <1>5. CASE p # Len(items) + 1
    <2> DEFINE r == [loop[l] EXCEPT !.phase = "value", !.at = IteratorTo(p)]
    <2>1. loop' = [loop EXCEPT ![l] = r]
      BY <1>5 DEF Advance
    <2>2. IF NodeBased THEN IteratorTo(p) \in ToSet(items) /\ IteratorTo(p) \in Element
          ELSE IteratorTo(p) \in Nat \ {0}
      <3>1. CASE NodeBased
        <4>1. p \in 1 .. Len(items)
          BY <1>0, <1>2, <1>5, <3>1
        <4> HIDE DEF p
        <4> QED
          BY <4>1, <3>1, <1>0, ElementOfSeq DEF IteratorTo, ToSet
      <3>2. CASE ~NodeBased
        BY <3>2, <1>2 DEF IteratorTo
      <3> QED
        BY <3>1, <3>2
    <2>3. /\ r.phase = "value" /\ r.seen = loop[l].seen /\ ~r.stale /\ r.intact = loop[l].intact
          /\ r.at = IteratorTo(p)
          /\ r \in [phase : {"idle", "advance", "value", "done"},
                    at : Nat \cup Element, stale : BOOLEAN, intact : BOOLEAN,
                    seen : Seq(Element), stayed : SUBSET Element]
      BY <1>0, <1>1, <2>2
    <2> HIDE DEF r
    <2>4. loop'[l] = r
      BY <2>1 DEF Reliable, TypeOK, LoopTypeOK
    <2>5. ASSUME r.intact
          PROVE  Exact(l)'
      <3>1. Reached(l)' = Len(loop[l].seen) + 1
        BY <2>3, <2>4 DEF Reached
      <3>2. Reached(l)' \in 1 .. Len(items)
        BY <3>1, <1>0, <1>3, <1>5, <2>3, <2>5
      <3>3. loop'[l].at = IteratorTo(Reached(l))'
        BY <3>1, <1>1, <1>3, <2>3, <2>4, <2>5 DEF IteratorTo
      <3> QED
        BY <3>2, <3>3, <1>1, <1>3, <2>3, <2>4, <2>5 DEF Exact, Active
    <2> QED
      BY <1>1, <2>1, <2>2, <2>3, <2>5, LoopReliable
  <1> QED
    BY <1>4, <1>5

(* iteratorValue(it): the loop sees the element its iterator is at. *)
LEMMA ValueReliable ==
  ASSUME Reliable, NEW l \in Loop, Value(l), UNCHANGED <<unused, room>>
  PROVE  Reliable'
  <1> DEFINE n == PositionOf(loop[l].at)
             r == [loop[l] EXCEPT !.phase = "advance", !.seen = See(loop[l].seen, items[n])]
  <1>0. /\ items \in Seq(Element) /\ Len(items) \in Nat /\ DOMAIN items = 1 .. Len(items)
        /\ loop[l] \in [phase : {"idle", "advance", "value", "done"},
                        at : Nat \cup Element, stale : BOOLEAN, intact : BOOLEAN,
                        seen : Seq(Element), stayed : SUBSET Element]
        /\ Len(loop[l].seen) \in Nat
    BY LenProperties DEF Reliable, Elements, TypeOK, LoopTypeOK
  <1>1. /\ loop[l].phase = "value" /\ Active(l) /\ Valid(l) /\ ~loop[l].stale
        /\ outcome' = "ok" /\ UNCHANGED items
    BY DEF Value, Active, Valid
  <1>2. n \in 1 .. Len(items) /\ items[n] \in Element
    BY <1>0, <1>1, PlaceOfIterator, ElementOfSeq
  <1>3. loop' = [loop EXCEPT ![l] = r]
    BY DEF Value
  <1> HIDE DEF n
  <1>4. See(loop[l].seen, items[n]) \in Seq(Element)
    BY <1>0, <1>2, AppendProperties DEF See
  <1>5. /\ r.phase = "advance" /\ r.seen = See(loop[l].seen, items[n]) /\ ~r.stale
        /\ r.intact = loop[l].intact /\ r.at = loop[l].at
        /\ r \in [phase : {"idle", "advance", "value", "done"},
                  at : Nat \cup Element, stale : BOOLEAN, intact : BOOLEAN,
                  seen : Seq(Element), stayed : SUBSET Element]
    BY <1>0, <1>1, <1>4
  <1> HIDE DEF r
  <1>6. loop'[l] = r
    BY <1>3 DEF Reliable, TypeOK, LoopTypeOK
  <1>7. IF NodeBased THEN r.at \in ToSet(items) ELSE r.at \in Nat \ {0}
    BY <1>1, <1>5 DEF Reliable, Iterators
  <1>8. ASSUME r.intact
        PROVE  Exact(l)'
    <2>1. Exact(l)
      BY <1>1, <1>5, <1>8 DEF Reliable, Undisturbed
    <2>2. n = Len(loop[l].seen) + 1 /\ loop[l].at = IteratorTo(n)
          /\ \A i \in 1 .. Len(loop[l].seen) : loop[l].seen[i] = items[i]
      BY <2>1, <1>0, <1>1, PlaceOfIterator DEF Exact, Reached, n
    <2>3. Len(loop[l].seen) < MaxSeen
      BY <2>2, <1>0, <1>2, DistinctLength DEF Reliable, Elements, MaxSeen
    <2>4. /\ Len(r.seen) = n
          /\ \A i \in 1 .. n : r.seen[i] = items[i]
      <3>1. r.seen = Append(loop[l].seen, items[n])
        BY <2>3, <1>5 DEF See
      <3>2. /\ Len(r.seen) = Len(loop[l].seen) + 1
            /\ \A i \in 1 .. Len(loop[l].seen) : r.seen[i] = loop[l].seen[i]
            /\ r.seen[Len(loop[l].seen) + 1] = items[n]
        BY <3>1, <1>0, <1>2, AppendProperties
      <3> QED
        BY <3>2, <2>2, <1>0
    <2>5. Reached(l)' = n
      BY <1>2, <1>5, <1>6, <2>4 DEF Reached
    <2>6. loop'[l].at = IteratorTo(Reached(l))'
      BY <2>2, <2>5, <1>1, <1>5, <1>6 DEF IteratorTo
    <2> QED
      BY <2>4, <2>5, <2>6, <1>1, <1>2, <1>5, <1>6 DEF Exact, Active
  <1> QED
    BY <1>1, <1>3, <1>5, <1>7, <1>8, LoopReliable

(* What only answers moves nothing. *)
LEMMA AnswerReliable ==
  ASSUME Reliable, UNCHANGED <<items, loop, unused, room>>,
         outcome' \in {"ok", "error", "undefined"}
  PROVE  Reliable'
  BY DEF Reliable, TypeOK, LoopTypeOK, Elements, Iterators, Undisturbed, Exact, Active,
         Reached, IteratorTo

(* At the start no loop runs. *)
LEMMA InitReliable == Init => Reliable
  <1> SUFFICES ASSUME Init PROVE Reliable
    OBVIOUS
  <1>1. <<>> \in Seq(Element) /\ Len(<<>>) = 0
    BY EmptySeq
  <1>2. TypeOK
    BY <1>1 DEF Init, LoopInit, TypeOK, LoopTypeOK, Idle
  <1>3. Elements
    BY <1>1 DEF Init, LoopInit, Elements, IsInjective, ToSet
  <1>4. \A l \in Loop : loop[l].phase = "idle"
    BY DEF Init, LoopInit, Idle
  <1> QED
    BY <1>2, <1>3, <1>4 DEF Reliable, Iterators, Undisturbed, Active

(* The invariant is inductive. *)
LEMMA NextReliable == Reliable /\ [Next]_vars => Reliable'
  <1> SUFFICES ASSUME Reliable, [Next]_vars PROVE Reliable'
    OBVIOUS
  <1>1. CASE Next
    <2>1. TypeOK /\ Elements
      BY DEF Reliable
    <2>2. \/ \E l \in Loop : (Begin(l) \/ Advance(l) \/ Value(l)) /\ UNCHANGED <<unused, room>>
          \/ \E S : Change(S)
          \/ Answer
      BY <2>1, <1>1, Steps
    <2> QED
      BY <2>2, BeginReliable, AdvanceReliable, ValueReliable, ChangeReliable, AnswerReliable
      DEF Answer
  <1>2. CASE UNCHANGED vars
    BY <1>2, AnswerReliable DEF vars, Reliable, TypeOK, LoopTypeOK
  <1> QED
    BY <1>1, <1>2

(* The invariant holds, for vectors and lists. *)
LEMMA AlwaysReliable == Spec => []Reliable
  BY InitReliable, NextReliable, PTL DEF Spec

(* Every variable keeps to its type, and a vector has room for what it     *)
(* holds.                                                                  *)
THEOREM SequenceTyped == Spec => []TypeOK
  <1>1. Reliable => TypeOK
    BY DEF Reliable
  <1> QED
    BY <1>1, AlwaysReliable, PTL

(* A loop over a vector or a list that nobody changes meanwhile sees each  *)
(* element once and in order (std.hpp: iterate and iteratorValue).         *)
THEOREM UndisturbedLoopsExact == Spec => []LoopExact
  <1>1. Reliable => LoopExact
    BY DEF Reliable, Undisturbed, Exact, LoopExact
  <1> QED
    BY <1>1, AlwaysReliable, PTL

(* Such a loop never uses an iterator that is not valid. *)
THEOREM UndisturbedLoopsDefined == Spec => []LoopDefined
  <1>1. ASSUME Reliable, NEW l \in Loop, Active(l), loop[l].intact
        PROVE  Valid(l)
    <2>1. Exact(l) /\ ~loop[l].stale
      BY <1>1 DEF Reliable, Undisturbed, Exact, Active
    <2>2. items \in Seq(Element) /\ Len(items) \in Nat /\ DOMAIN items = 1 .. Len(items)
      BY <1>1, LenProperties DEF Reliable, Elements
    <2>3. CASE NodeBased
      <3>1. loop[l].at \in Element
        BY <2>1, <2>2, <2>3, <1>1, ElementOfSeq DEF Exact, IteratorTo
      <3> QED
        BY <3>1, <2>1, <2>3, LoopAssumption DEF Valid
    <2>4. CASE ~NodeBased
      BY <2>1, <2>2, <2>4, <1>1 DEF Exact, IteratorTo, Valid
    <2> QED
      BY <2>3, <2>4
  <1>2. Reliable => LoopDefined
    BY <1>1 DEF LoopDefined, Active
  <1> QED
    BY <1>2, AlwaysReliable, PTL
----------------------------------------------------------------------------
(* Changes of a list keep the order of what a loop has seen, and what was  *)
(* there all the time stays in or ahead of it.                             *)
LEMMA ChangeFollowed ==
  ASSUME Complete, NodeBased, NEW S, Change(S)
  PROVE  Followed'
  <1> USE DEF Complete, Reliable
  <1>0. /\ ToSet(items') \subseteq ToSet(items) \cup (unused \ unused')
        /\ unused' \subseteq unused /\ ToSet(items) \ S \subseteq ToSet(items')
        /\ \A a, b \in ToSet(items) \cap ToSet(items') :
             Precedes(items, a, b) => Precedes(items', a, b)
    BY DEF Change
  <1> SUFFICES ASSUME NEW l \in Loop, loop'[l].phase # "idle"
               PROVE  /\ Ordered(l)'
                      /\ loop'[l].phase = "done" => loop'[l].stayed \subseteq ToSet(loop'[l].seen)
                      /\ Active(l)' /\ ~loop'[l].stale => Ahead(l)'
    BY DEF Followed
  <1>1. /\ loop'[l].phase = loop[l].phase /\ loop[l].phase # "idle"
        /\ loop'[l].seen = loop[l].seen
        /\ loop[l].phase = "done" => loop'[l].stayed = loop[l].stayed
        /\ Active(l) =>
             /\ loop'[l].at = loop[l].at
             /\ loop'[l].stale = (loop[l].stale \/ loop[l].at \in S)
             /\ loop'[l].stayed = loop[l].stayed \cap ToSet(items')
    BY ChangedLoops
  <1>2. /\ Ordered(l)
        /\ loop[l].phase = "done" => loop[l].stayed \subseteq ToSet(loop[l].seen)
        /\ Active(l) /\ ~loop[l].stale => Ahead(l)
    BY <1>1 DEF Followed
  <1>3. ASSUME NEW e \in ToSet(loop[l].seen), e \in ToSet(items')
        PROVE  e \in ToSet(items)
    BY <1>0, <1>2, <1>3 DEF Ordered
  <1>4. Ordered(l)'
    <2>1. \A p \in DOMAIN loop[l].seen : loop[l].seen[p] \in ToSet(loop[l].seen)
      BY DEF ToSet
    <2> QED
      BY <1>0, <1>1, <1>2, <1>3, <2>1 DEF Ordered
  <1>5. ASSUME Active(l)', ~loop'[l].stale
        PROVE  Ahead(l)'
    <2>1. /\ Active(l) /\ ~loop[l].stale /\ loop'[l].at = loop[l].at
          /\ loop'[l].stayed = loop[l].stayed \cap ToSet(items')
          /\ loop[l].at \notin S
      BY <1>1, <1>5 DEF Active
    <2>2. loop[l].at \in ToSet(items) \cap ToSet(items')
      BY <2>1, <1>0 DEF Iterators
    <2>3. \A e \in ToSet(items) \cap ToSet(items') :
            /\ Precedes(items, loop[l].at, e) => Precedes(items', loop[l].at, e)
            /\ Precedes(items, e, loop[l].at) => Precedes(items', e, loop[l].at)
      BY <2>2, <1>0
    <2>4. Ahead(l)
      BY <2>1, <1>2
    <2> QED
      BY <2>1, <2>3, <2>4, <1>1, <1>3 DEF Ahead
  <1> QED
    BY <1>1, <1>2, <1>4, <1>5

(* A step of one loop: what is left to show is about that loop. *)
LEMMA LoopFollowed ==
  ASSUME Complete, NEW l \in Loop, UNCHANGED <<items, unused>>,
         NEW r, loop' = [loop EXCEPT ![l] = r], loop'[l] = r,
         Ordered(l)', r.phase = "done" => r.stayed \subseteq ToSet(r.seen),
         Active(l)' => Ahead(l)'
  PROVE  Followed'
  <1>1. \A m \in Loop \ {l} : loop'[m] = loop[m]
    BY DEF Complete, Reliable, TypeOK, LoopTypeOK
  <1>2. ASSUME NEW m \in Loop, m # l
        PROVE  /\ Ordered(m) => Ordered(m)'
               /\ Ahead(m) => Ahead(m)'
               /\ Active(m)' = Active(m)
    BY <1>1, <1>2 DEF Ordered, Ahead, Active
  <1> QED
    BY <1>1, <1>2 DEF Complete, Followed

(* iterate(null): everything is ahead. *)
LEMMA BeginFollowed ==
  ASSUME Complete, NodeBased, NEW l \in Loop, Begin(l), UNCHANGED <<unused, room>>
  PROVE  Followed'
  <1> USE DEF Complete, Reliable
  <1>0. items \in Seq(Element) /\ Len(items) \in Nat /\ DOMAIN items = 1 .. Len(items)
        /\ DOMAIN <<>> = {}
    BY LenProperties DEF Elements
  <1>1. CASE items # <<>>
    <2> DEFINE r == [Idle EXCEPT !.phase = "value", !.at = IteratorTo(1), !.stayed = ToSet(items)]
    <2>1. loop' = [loop EXCEPT ![l] = r] /\ UNCHANGED items
      BY <1>1 DEF Begin, BeginUntested
    <2>2. 1 \in DOMAIN items
      BY <1>0, <1>1, EmptySeq
    <2>3. /\ r.phase = "value" /\ r.at = items[1] /\ r.seen = <<>> /\ r.stayed = ToSet(items)
      BY <2>2 DEF Idle, IteratorTo
    <2> HIDE DEF r
    <2>4. loop'[l] = r
      BY <2>1 DEF TypeOK, LoopTypeOK
    <2>5. ToSet(r.seen) = {} /\ IsInjective(r.seen)
      BY <2>3, <1>0 DEF ToSet, IsInjective
    <2>6. \A e \in ToSet(items) : e = items[1] \/ Precedes(items, items[1], e)
      BY <1>0, <2>2 DEF ToSet, Precedes
    <2>7. Ordered(l)'
      BY <2>3, <2>4, <2>5, <1>0 DEF Ordered
    <2>8. Ahead(l)'
      BY <2>1, <2>3, <2>4, <2>5, <2>6 DEF Ahead
    <2> QED
      BY <2>1, <2>3, <2>4, <2>7, <2>8, LoopFollowed
  <1>2. CASE items = <<>>
    <2> DEFINE r == [Idle EXCEPT !.phase = "done"]
    <2>1. loop' = [loop EXCEPT ![l] = r] /\ UNCHANGED items
      BY <1>2 DEF Begin
    <2>2. r.phase = "done" /\ r.seen = <<>> /\ r.stayed = {}
      BY DEF Idle
    <2> HIDE DEF r
    <2>3. loop'[l] = r
      BY <2>1 DEF TypeOK, LoopTypeOK
    <2>4. Ordered(l)'
      BY <2>2, <2>3, <1>0 DEF Ordered, ToSet, IsInjective
    <2>5. ~Active(l)'
      BY <2>2, <2>3 DEF Active
    <2> QED
      BY <2>1, <2>2, <2>3, <2>4, <2>5, LoopFollowed
  <1> QED
    BY <1>1, <1>2

(* iterate(it): what was just behind the iterator is at it. *)
LEMMA AdvanceFollowed ==
  ASSUME Complete, NodeBased, NEW l \in Loop, Advance(l), UNCHANGED <<unused, room>>
  PROVE  Followed'
  <1> DEFINE n == PositionOf(loop[l].at)
  <1> USE DEF Complete, Reliable
  <1>0. /\ items \in Seq(Element) /\ IsInjective(items)
        /\ Len(items) \in Nat /\ DOMAIN items = 1 .. Len(items)
        /\ loop[l] \in [phase : {"idle", "advance", "value", "done"},
                        at : Nat \cup Element, stale : BOOLEAN, intact : BOOLEAN,
                        seen : Seq(Element), stayed : SUBSET Element]
    BY LenProperties DEF Elements, TypeOK, LoopTypeOK
  <1>1. loop[l].phase = "advance" /\ Active(l) /\ Valid(l) /\ ~loop[l].stale /\ UNCHANGED items
    BY DEF Advance, Active, Valid
  <1>2. Ordered(l) /\ Ahead(l)
    BY <1>1 DEF Followed
  <1>3. n \in DOMAIN items /\ items[n] = loop[l].at
    BY <1>0, <1>1, PlaceOfIterator
  <1>4. loop' = [loop EXCEPT ![l] = IF n + 1 = Len(items) + 1 THEN [@ EXCEPT !.phase = "done"]
                 ELSE [@ EXCEPT !.phase = "value", !.at = IteratorTo(n + 1)]]
    BY DEF Advance
  <1> HIDE DEF n
  <1>5. /\ ~Precedes(items, items[n], items[n])
        /\ \A b : Precedes(items, items[n], b) =>
             n # Len(items) /\ (b = items[n + 1] \/ Precedes(items, items[n + 1], b))
        /\ n # Len(items) => n + 1 \in DOMAIN items /\ Precedes(items, items[n], items[n + 1])
        /\ \A a : n # Len(items) /\ Precedes(items, a, items[n]) => Precedes(items, a, items[n + 1])
    BY <1>0, <1>3, Order
  <1>6. CASE n = Len(items)
    <2> DEFINE r == [loop[l] EXCEPT !.phase = "done"]
    <2>1. loop' = [loop EXCEPT ![l] = r]
      BY <1>0, <1>4, <1>6
    <2>2. r.phase = "done" /\ r.seen = loop[l].seen /\ r.stayed = loop[l].stayed
      BY <1>0
    <2> HIDE DEF r
    <2>3. loop'[l] = r
      BY <2>1 DEF TypeOK, LoopTypeOK
    <2>4. Ordered(l)'
      BY <2>2, <2>3, <1>1, <1>2 DEF Ordered
    <2>5. ~Active(l)'
      BY <2>2, <2>3 DEF Active
    <2>6. loop[l].stayed \subseteq ToSet(loop[l].seen)
      BY <1>1, <1>2, <1>3, <1>5, <1>6 DEF Ahead
    <2> QED
      BY <1>1, <2>1, <2>2, <2>3, <2>4, <2>5, <2>6, LoopFollowed
  <1>7. CASE n # Len(items)
    <2> DEFINE r == [loop[l] EXCEPT !.phase = "value", !.at = items[n + 1]]
    <2>0. n + 1 # Len(items) + 1 /\ IteratorTo(n + 1) = items[n + 1]
      BY <1>0, <1>3, <1>5, <1>7 DEF IteratorTo
    <2>1. loop' = [loop EXCEPT ![l] = r]
      BY <2>0, <1>4
    <2>2. /\ r.phase = "value" /\ r.seen = loop[l].seen /\ r.stayed = loop[l].stayed
          /\ r.at = items[n + 1]
      BY <1>0
    <2> HIDE DEF r
    <2>3. loop'[l] = r
      BY <2>1 DEF TypeOK, LoopTypeOK
    <2>4. Ordered(l)'
      BY <2>2, <2>3, <1>1, <1>2 DEF Ordered
    <2>5. /\ loop[l].stayed \subseteq ToSet(items)
          /\ \A e \in loop[l].stayed : e \in ToSet(loop[l].seen) \/ Precedes(items, items[n], e)
          /\ \A e \in ToSet(loop[l].seen) \cap ToSet(items) :
               Precedes(items, e, items[n]) \/ e = items[n]
      BY <1>1, <1>2, <1>3 DEF Ahead
    <2>6. Ahead(l)'
      BY <2>2, <2>3, <2>5, <1>1, <1>5, <1>7 DEF Ahead
    <2> QED
      BY <1>1, <2>1, <2>2, <2>3, <2>4, <2>6, LoopFollowed
  <1> QED
    BY <1>6, <1>7

(* iteratorValue(it): the element was not seen before and comes after all  *)
(* that were.                                                              *)
LEMMA ValueFollowed ==
  ASSUME Complete, NodeBased, NEW l \in Loop, Value(l), UNCHANGED <<unused, room>>
  PROVE  Followed'
  <1> DEFINE n == PositionOf(loop[l].at)
             s == loop[l].seen
             e == loop[l].at
             r == [loop[l] EXCEPT !.phase = "advance", !.seen = See(s, items[n])]
  <1> USE DEF Complete, Reliable
  <1>0. /\ items \in Seq(Element) /\ IsInjective(items)
        /\ Len(items) \in Nat /\ DOMAIN items = 1 .. Len(items)
        /\ loop[l] \in [phase : {"idle", "advance", "value", "done"},
                        at : Nat \cup Element, stale : BOOLEAN, intact : BOOLEAN,
                        seen : Seq(Element), stayed : SUBSET Element]
        /\ Len(s) \in Nat /\ DOMAIN s = 1 .. Len(s)
    BY LenProperties DEF Elements, TypeOK, LoopTypeOK
  <1>1. loop[l].phase = "value" /\ Active(l) /\ Valid(l) /\ ~loop[l].stale /\ UNCHANGED items
    BY DEF Value, Active, Valid
  <1>2. Ordered(l) /\ Ahead(l)
    BY <1>1 DEF Followed
  <1>3. n \in DOMAIN items /\ items[n] = e /\ e \in ToSet(items) /\ e \in Element
    BY <1>0, <1>1, PlaceOfIterator, ElementOfSeq DEF ToSet
  <1>4. loop' = [loop EXCEPT ![l] = r]
    BY DEF Value
  <1>5. ~Precedes(items, e, e)
    BY <1>0, <1>3, Order
  <1>6. e \notin ToSet(s)
    BY <1>1, <1>2, <1>3, <1>5 DEF Ahead
  <1> DEFINE t == Append(s, e)
  <1>7. See(s, items[n]) = t
    <2>1. Len(s) < MaxSeen
      BY <1>0, <1>2, DistinctLength DEF Ordered, MaxSeen
    <2> QED
      BY <2>1, <1>3 DEF See
  <1>8. /\ DOMAIN t = 1 .. Len(s) + 1
        /\ \A i \in 1 .. Len(s) : t[i] = s[i]
        /\ t[Len(s) + 1] = e
    BY <1>0, <1>3, AppendProperties, LenProperties
  <1>9. /\ r.phase = "advance" /\ r.seen = t /\ r.stayed = loop[l].stayed /\ r.at = e
    BY <1>0, <1>7
  <1> HIDE DEF r, t, n
  <1>10. loop'[l] = r
    BY <1>4 DEF TypeOK, LoopTypeOK
  <1>11. \A i \in DOMAIN t :
           \/ i \in DOMAIN s /\ t[i] = s[i]
           \/ i = Len(s) + 1 /\ t[i] = e
    BY <1>0, <1>8
  <1>12. ToSet(t) = ToSet(s) \cup {e}
    <2>1. \A i \in DOMAIN s : i \in DOMAIN t /\ t[i] = s[i]
      BY <1>0, <1>8
    <2>2. Len(s) + 1 \in DOMAIN t
      BY <1>0, <1>8
    <2> QED
      BY <2>1, <2>2, <1>8, <1>11 DEF ToSet
  <1>13. IsInjective(t)
    <2>1. \A i \in DOMAIN s : s[i] # e
      BY <1>6 DEF ToSet
    <2> QED
      BY <2>1, <1>2, <1>11 DEF Ordered, IsInjective
  <1>14. ASSUME NEW p \in DOMAIN t, NEW q \in DOMAIN t, p < q,
                t[p] \in ToSet(items), t[q] \in ToSet(items)
         PROVE  Precedes(items, t[p], t[q])
    <2>1. p \in 1 .. Len(s) /\ t[p] = s[p] /\ p \in DOMAIN s
      BY <1>0, <1>8, <1>11, <1>14
    <2>2. CASE q \in DOMAIN s
      BY <2>1, <2>2, <1>0, <1>2, <1>8, <1>14 DEF Ordered
    <2>3. CASE t[q] = e
      BY <2>1, <2>3, <1>1, <1>2, <1>14 DEF Ahead, ToSet
    <2> QED
      BY <2>2, <2>3, <1>11
  <1>15. Ordered(l)'
    <2>1. ToSet(t) \cap unused = {}
      BY <1>2, <1>3, <1>12 DEF Ordered, Elements
    <2> QED
      BY <2>1, <1>1, <1>9, <1>10, <1>13, <1>14 DEF Ordered
  <1>16. Ahead(l)'
    BY <1>1, <1>2, <1>9, <1>10, <1>12 DEF Ahead
  <1> QED
    BY <1>1, <1>4, <1>9, <1>10, <1>15, <1>16, LoopFollowed

(* The invariant of lists is inductive. *)
LEMMA NextFollowed == Complete /\ NodeBased /\ Reliable' /\ [Next]_vars => Complete'
  <1> SUFFICES ASSUME Complete, NodeBased, [Next]_vars PROVE Followed'
    BY DEF Complete
  <1>1. UNCHANGED <<items, loop, unused>> => Followed'
    BY DEF Complete, Followed, Ordered, Ahead, Active
  <1>2. CASE Next
    <2>1. TypeOK /\ Elements
      BY DEF Complete, Reliable
    <2>2. \/ \E l \in Loop : (Begin(l) \/ Advance(l) \/ Value(l)) /\ UNCHANGED <<unused, room>>
          \/ \E S : Change(S)
          \/ Answer
      BY <2>1, <1>2, Steps
    <2> QED
      BY <2>2, <1>1, BeginFollowed, AdvanceFollowed, ValueFollowed, ChangeFollowed DEF Answer
  <1> QED
    BY <1>1, <1>2 DEF vars

(* A loop over a list that ends has seen what was there all the time, none *)
(* twice, and in its order, whatever was added and removed under way       *)
(* (std.hpp: StdListBindings).                                             *)
THEOREM ListLoopsComplete == NodeBased => (Spec => []LoopComplete)
  <1> SUFFICES ASSUME NodeBased PROVE Spec => []LoopComplete
    OBVIOUS
  <1>1. Init => Complete
    <2> SUFFICES ASSUME Init PROVE Followed
      BY InitReliable DEF Complete
    <2> QED
      BY DEF Init, LoopInit, Idle, Followed
  <1>2. Complete /\ [Next]_vars => Complete'
    BY NextReliable, NextFollowed DEF Complete
  <1>3. ASSUME Complete, NEW l \in Loop, loop[l].phase = "done"
        PROVE  /\ loop[l].stayed \subseteq ToSet(loop[l].seen)
               /\ Len(loop[l].seen) = Cardinality(ToSet(loop[l].seen))
               /\ \A p, q \in DOMAIN loop[l].seen :
                    p < q /\ {loop[l].seen[p], loop[l].seen[q]} \subseteq ToSet(items) =>
                      PositionOf(loop[l].seen[p]) < PositionOf(loop[l].seen[q])
    <2>1. Ordered(l) /\ loop[l].stayed \subseteq ToSet(loop[l].seen)
      BY <1>3 DEF Complete, Followed
    <2>2. loop[l].seen \in Seq(Element)
      BY <1>3 DEF Complete, Reliable, TypeOK, LoopTypeOK
    <2>3. Len(loop[l].seen) = Cardinality(ToSet(loop[l].seen))
      BY <2>1, <2>2, DistinctLength DEF Ordered
    <2>4. ASSUME NEW a, NEW b, Precedes(items, a, b)
          PROVE  PositionOf(a) < PositionOf(b)
      <3>1. PICK i, k \in DOMAIN items : i < k /\ items[i] = a /\ items[k] = b
        BY <2>4 DEF Precedes
      <3>2. DOMAIN items = 1 .. Len(items)
        BY <1>3, LenProperties DEF Complete, Reliable, Elements
      <3> QED
        BY <3>1, <3>2, <1>3, PlaceOfElement DEF Complete, Reliable
    <2> QED
      BY <2>1, <2>3, <2>4 DEF Ordered
  <1>4. Complete => LoopComplete
    BY <1>3 DEF LoopComplete
  <1> QED
    BY <1>1, <1>2, <1>4, PTL DEF Spec
----------------------------------------------------------------------------
(* What was put in and is taken out again leaves things as they were. *)
LEMMA PutAndTaken ==
  ASSUME NEW S, NEW s \in Seq(S), NEW p \in 1 .. Len(s) + 1, NEW e \in S,
         NEW t, t = InsertAt(s, p, e)
  PROVE  Len(t) = Len(s) + 1 /\ t[p] = e /\ RemoveAt(t, p) = s
  <1>1. /\ t \in Seq(S) /\ Len(t) = Len(s) + 1
        /\ \A i \in 1 .. Len(s) + 1 :
             t[i] = IF i < p THEN s[i] ELSE IF i = p THEN e ELSE s[i - 1]
    BY Inserted
  <1>2. Len(s) \in Nat /\ p \in 1 .. Len(t) /\ p \in Int
    BY <1>1, LenProperties
  <1> DEFINE u == RemoveAt(t, p)
  <1>3. /\ u \in Seq(S) /\ Len(u) = Len(s)
        /\ \A i \in 1 .. Len(s) : u[i] = IF i < p THEN t[i] ELSE t[i + 1]
    <2>1. /\ u \in Seq(S) /\ Len(u) = Len(t) - 1
          /\ \A i \in 1 .. Len(t) - 1 : u[i] = IF i < p THEN t[i] ELSE t[i + 1]
      BY <1>1, <1>2, Removed
    <2> QED
      BY <2>1, <1>1, <1>2
  <1> HIDE DEF u
  <1>4. ASSUME NEW i \in 1 .. Len(s)
        PROVE  u[i] = s[i]
    <2>1. i \in Int /\ i \in 1 .. Len(s) + 1 /\ i + 1 \in 1 .. Len(s) + 1 /\ (i + 1) - 1 = i
      BY <1>2
    <2>2. CASE i < p
      BY <2>1, <2>2, <1>1, <1>3
    <2>3. CASE ~(i < p)
      <3>1. u[i] = t[i + 1] /\ ~(i + 1 < p) /\ i + 1 # p
        BY <2>1, <2>3, <1>2, <1>3
      <3> QED
        BY <3>1, <2>1, <1>1
    <2> QED
      BY <2>2, <2>3
  <1>5. u = s
    BY <1>3, <1>4, SeqEqual
  <1> QED
    BY <1>1, <1>2, <1>5 DEF u

(* An index within the container means the position it names, from either  *)
(* end, and -1 inserts at the end (std.hpp: insert and removeAt).          *)
THEOREM IndexesNamePositions == Spec => IndexesMeanPositions
  <1>1. ASSUME Reliable, NEW i \in Index, Named(i) \in DOMAIN items
        PROVE  /\ RemoveIndex(i) =>
                    /\ outcome' = "ok"
                    /\ items' = SubSeq(items, 1, Named(i) - 1)
                                  \o SubSeq(items, Named(i) + 1, Len(items))
               /\ \A e \in Element : Insert(i, e) =>
                    /\ outcome' = "ok"
                    /\ Len(items') = Len(items) + 1 /\ items'[PlaceOf(i)] = e
                    /\ RemoveAt(items', PlaceOf(i)) = items
    <2>1. items \in Seq(Element) /\ Len(items) \in Nat /\ DOMAIN items = 1 .. Len(items)
          /\ i \in Int /\ Named(i) \in Int
      BY <1>1, LenProperties, SequenceAssumption DEF Reliable, Elements, Index
    <2>2. /\ FromEnd(i) + 1 = Named(i) /\ 0 <= FromEnd(i) /\ FromEnd(i) < Len(items)
          /\ FromEnd(i) \in Int /\ (i = -1 => Named(i) = Len(items))
          /\ items # <<>>
      <3>1. Len(<<>>) = 0 /\ 1 <= Named(i) /\ Named(i) <= Len(items)
        BY <2>1, <1>1, EmptySeq
      <3>2. items # <<>>
        BY <3>1, <2>1
      <3>3. PICK n \in Nat : n = Len(items)
        BY <2>1
      <3>4. CASE i < 0
        <4>1. FromEnd(i) = n + i /\ Named(i) = n + i + 1
          BY <3>3, <3>4 DEF FromEnd, Named
        <4>2. 1 <= n + i + 1 /\ n + i + 1 <= n /\ i \in Int
          BY <4>1, <3>1, <3>3, <2>1
        <4>3. /\ (n + i) + 1 = n + i + 1 /\ 0 <= n + i /\ n + i < n /\ n + i \in Int
              /\ (i = -1 => n + i + 1 = n)
          BY <4>2, <3>4
        <4> QED
          BY <4>1, <4>3, <3>2, <3>3
      <3>5. CASE ~(i < 0)
        <4>1. FromEnd(i) = i /\ Named(i) = i + 1
          BY <3>5 DEF FromEnd, Named
        <4>2. 1 <= i + 1 /\ i + 1 <= n /\ i \in Int
          BY <4>1, <3>1, <3>3, <2>1
        <4>3. 0 <= i /\ i < n /\ ~(i = -1)
          BY <4>2, <3>5
        <4> QED
          BY <4>1, <4>2, <4>3, <3>2, <3>3
      <3> QED
        BY <3>4, <3>5
    <2>3. ASSUME RemoveIndex(i)
          PROVE  Erase(Named(i))
      <3>1. CASE i = -1
        BY <3>1, <2>2, <2>3 DEF RemoveIndex, EraseLast
      <3>2. CASE i # -1
        <4>1. ~(FromEnd(i) = Len(items)) /\ ~(FromEnd(i) > Len(items)) /\ ~(FromEnd(i) < 0)
          BY <2>1, <2>2
        <4> QED
          BY <4>1, <3>2, <2>2, <2>3 DEF RemoveIndex
      <3> QED
        BY <3>1, <3>2
    <2>4. ASSUME NEW e \in Element, Insert(i, e)
          PROVE  PlaceOf(i) \in 1 .. Len(items) + 1 /\ Put(e, PlaceOf(i))
      <3>1. CASE i = -1
        BY <3>1, <2>1, <2>4 DEF Insert, PlaceOf
      <3>2. CASE i # -1
        <4>1. ~(FromEnd(i) > Len(items)) /\ ~(FromEnd(i) < 0)
              /\ Named(i) \in 1 .. Len(items) + 1
          BY <2>1, <2>2
        <4> QED
          BY <4>1, <3>2, <2>2, <2>4 DEF Insert, PlaceOf
      <3> QED
        BY <3>1, <3>2
    <2>5. ASSUME NEW e \in Element, Insert(i, e)
          PROVE  /\ outcome' = "ok"
                 /\ Len(items') = Len(items) + 1 /\ items'[PlaceOf(i)] = e
                 /\ RemoveAt(items', PlaceOf(i)) = items
      <3>1. PlaceOf(i) \in 1 .. Len(items) + 1
            /\ items' = InsertAt(items, PlaceOf(i), e) /\ outcome' = "ok"
        BY <2>4, <2>5 DEF Put
      <3> QED
        BY <3>1, <2>1, PutAndTaken
    <2>6. RemoveIndex(i) =>
            /\ outcome' = "ok"
            /\ items' = SubSeq(items, 1, Named(i) - 1)
                          \o SubSeq(items, Named(i) + 1, Len(items))
      BY <2>3 DEF Erase, RemoveAt
    <2> QED
      BY <2>5, <2>6
  <1>2. Reliable =>
          [\A i \in Index : Named(i) \in DOMAIN items =>
             /\ RemoveIndex(i) => /\ outcome' = "ok"
                                  /\ items' = SubSeq(items, 1, Named(i) - 1)
                                                \o SubSeq(items, Named(i) + 1, Len(items))
             /\ \A e \in Element : Insert(i, e) =>
                  /\ outcome' = "ok"
                  /\ Len(items') = Len(items) + 1 /\ items'[PlaceOf(i)] = e
                  /\ RemoveAt(items', PlaceOf(i)) = items]_vars
    BY <1>1
  <1> QED
    BY <1>2, AlwaysReliable, PTL DEF IndexesMeanPositions
----------------------------------------------------------------------------
(* The loops implement Traversal. *)

(* A loop that has not begun is as it was; one over what nobody changed    *)
(* must visit all of it.                                                   *)
Started == \A l \in Loop :
  /\ loop[l].phase = "idle" => loop[l] = Idle
  /\ loop[l].phase # "idle" /\ loop[l].intact => loop[l].stayed = ToSet(items)

(* The invariant of vectors and lists together. *)
Watched == Reliable /\ Started /\ (NodeBased => Followed)

(* The record of the loop l becomes r. *)
Stepped(l, r) == loop' = [loop EXCEPT ![l] = r] /\ UNCHANGED items

(* What the steps of a loop make of its record. *)
LEMMA LoopSteps ==
  ASSUME TypeOK, NEW l \in Loop
  PROVE  /\ Begin(l) => \E r : /\ Stepped(l, r) /\ loop[l].phase = "idle"
                               /\ r.phase = IF items = <<>> THEN "done" ELSE "value"
                               /\ r.intact /\ r.seen = <<>> /\ r.stayed = ToSet(items)
         /\ Advance(l) => \E r : /\ Stepped(l, r) /\ loop[l].phase = "advance"
                                 /\ r.phase \in {"value", "done"} /\ r.intact = loop[l].intact
                                 /\ r.seen = loop[l].seen /\ r.stayed = loop[l].stayed
         /\ Value(l) => \E r : /\ Stepped(l, r) /\ loop[l].phase = "value" /\ Valid(l)
                               /\ r.phase = "advance" /\ r.intact = loop[l].intact
                               /\ r.seen = See(loop[l].seen, items[PositionOf(loop[l].at)])
                               /\ r.stayed = loop[l].stayed
  <1>1. ASSUME Begin(l), items # <<>>
        PROVE  \E r : /\ Stepped(l, r) /\ loop[l].phase = "idle" /\ r.phase = "value"
                      /\ r.intact /\ r.seen = <<>> /\ r.stayed = ToSet(items)
    <2> DEFINE r == [Idle EXCEPT !.phase = "value", !.at = IteratorTo(1), !.stayed = ToSet(items)]
    <2>1. Stepped(l, r) /\ loop[l].phase = "idle"
      BY <1>1 DEF Begin, BeginUntested, Stepped
    <2>2. r.phase = "value" /\ r.intact /\ r.seen = <<>> /\ r.stayed = ToSet(items)
      BY DEF Idle
    <2> QED
      BY <2>1, <2>2
  <1>2. ASSUME Begin(l), items = <<>>
        PROVE  \E r : /\ Stepped(l, r) /\ loop[l].phase = "idle" /\ r.phase = "done"
                      /\ r.intact /\ r.seen = <<>> /\ r.stayed = ToSet(items)
    <2> DEFINE r == [Idle EXCEPT !.phase = "done"]
    <2>1. Stepped(l, r) /\ loop[l].phase = "idle"
      BY <1>2 DEF Begin, Stepped
    <2>2. r.phase = "done" /\ r.intact /\ r.seen = <<>> /\ r.stayed = {}
      BY DEF Idle
    <2>3. ToSet(items) = {}
      BY <1>2 DEF ToSet
    <2> QED
      BY <2>1, <2>2, <2>3
  <1>3. loop[l] \in [phase : {"idle", "advance", "value", "done"},
                     at : Nat \cup Element, stale : BOOLEAN, intact : BOOLEAN,
                     seen : Seq(Element), stayed : SUBSET Element]
    BY DEF TypeOK, LoopTypeOK
  <1>4. ASSUME Advance(l)
        PROVE  \E r : /\ Stepped(l, r) /\ loop[l].phase = "advance"
                      /\ r.phase \in {"value", "done"} /\ r.intact = loop[l].intact
                      /\ r.seen = loop[l].seen /\ r.stayed = loop[l].stayed
    <2> DEFINE p == PositionOf(loop[l].at) + 1
               r == IF p = Len(items) + 1 THEN [loop[l] EXCEPT !.phase = "done"]
                    ELSE [loop[l] EXCEPT !.phase = "value", !.at = IteratorTo(p)]
    <2>1. Stepped(l, r) /\ loop[l].phase = "advance"
      BY <1>4 DEF Advance, Stepped
    <2> HIDE DEF p
    <2>2. /\ r.phase \in {"value", "done"} /\ r.intact = loop[l].intact
          /\ r.seen = loop[l].seen /\ r.stayed = loop[l].stayed
      BY <1>3
    <2> QED
      BY <2>1, <2>2
  <1>5. ASSUME Value(l)
        PROVE  \E r : /\ Stepped(l, r) /\ loop[l].phase = "value" /\ Valid(l)
                      /\ r.phase = "advance" /\ r.intact = loop[l].intact
                      /\ r.seen = See(loop[l].seen, items[PositionOf(loop[l].at)])
                      /\ r.stayed = loop[l].stayed
    <2> DEFINE s == See(loop[l].seen, items[PositionOf(loop[l].at)])
               r == [loop[l] EXCEPT !.phase = "advance", !.seen = s]
    <2>1. Stepped(l, r) /\ loop[l].phase = "value" /\ Valid(l)
      BY <1>5 DEF Value, Stepped
    <2> HIDE DEF s
    <2>2. /\ r.phase = "advance" /\ r.intact = loop[l].intact
          /\ r.seen = s /\ r.stayed = loop[l].stayed
      BY <1>3
    <2> QED
      BY <2>1, <2>2 DEF s
  <1> QED
    BY <1>1, <1>2, <1>4, <1>5

(* The invariant is inductive. *)
LEMMA NextWatched == Watched /\ [Next]_vars => Watched'
  <1> SUFFICES ASSUME Watched, [Next]_vars PROVE Watched'
    OBVIOUS
  <1>1. Reliable' /\ (NodeBased => Followed')
    BY NextReliable, NextFollowed DEF Watched, Complete
  <1>2. TypeOK /\ Elements
    BY DEF Watched, Reliable
  <1>3. ASSUME NEW l \in Loop, NEW r, Stepped(l, r), r.phase # "idle",
               r.intact => r.stayed = ToSet(items)
        PROVE  Started'
    <2>1. loop'[l] = r /\ \A m \in Loop \ {l} : loop'[m] = loop[m]
      BY <1>2, <1>3 DEF TypeOK, LoopTypeOK, Stepped
    <2> QED
      BY <1>3, <2>1 DEF Watched, Started, Stepped
  <1>4. ASSUME NEW l \in Loop, Begin(l) \/ Advance(l) \/ Value(l)
        PROVE  Started'
    <2>1. \E r : /\ Stepped(l, r) /\ r.phase # "idle"
                 /\ r.intact => r.stayed = ToSet(items)
      BY <1>2, <1>4, LoopSteps DEF Watched, Started
    <2> QED
      BY <1>3, <2>1
  <1>5. ASSUME NEW S, Change(S)
        PROVE  Started'
    <2>1. \A l \in Loop : loop[l].phase = "idle" => loop'[l] = Idle
      BY <1>5 DEF Change, Changed
    <2> QED
      BY <1>2, <1>5, <2>1, ChangedLoops DEF Started
  <1>6. UNCHANGED <<items, loop>> => Started'
    BY DEF Watched, Started
  <1>7. CASE Next
    <2>1. \/ \E l \in Loop : (Begin(l) \/ Advance(l) \/ Value(l)) /\ UNCHANGED <<unused, room>>
          \/ \E S : Change(S)
          \/ Answer
      BY <1>2, <1>7, Steps
    <2> QED
      BY <1>1, <1>4, <1>5, <1>6, <2>1 DEF Answer, Watched
  <1> QED
    BY <1>1, <1>6, <1>7 DEF vars, Watched

(* It holds of vectors and lists. *)
LEMMA AlwaysWatched == Spec => []Watched
  <1>1. Init => Watched
    <2> SUFFICES ASSUME Init PROVE Started /\ Followed
      BY InitReliable DEF Watched
    <2>1. \A l \in Loop : loop[l] = Idle /\ loop[l].phase = "idle"
      BY DEF Init, LoopInit, Idle
    <2> QED
      BY <2>1 DEF Started, Followed
  <1> QED
    BY <1>1, NextWatched, PTL DEF Spec

(* A step of one loop shows in its own phase, what it must visit and what  *)
(* it has visited.                                                         *)
LEMMA ShownStep ==
  ASSUME TypeOK, NEW l \in Loop, NEW r, Stepped(l, r)
  PROVE  /\ [k \in Loop |-> Phase(k)]' = [[k \in Loop |-> Phase(k)] EXCEPT ![l] = Phase(l)']
         /\ [k \in Loop |-> Due(k)]' = [[k \in Loop |-> Due(k)] EXCEPT ![l] = Due(l)']
         /\ [k \in Loop |-> History(k)]' = [[k \in Loop |-> History(k)] EXCEPT ![l] = History(l)']
         /\ loop'[l] = r /\ UNCHANGED items
  <1>1. loop'[l] = r /\ UNCHANGED items /\ \A k \in Loop : k # l => loop'[k] = loop[k]
    BY DEF TypeOK, LoopTypeOK, Stepped
  <1>2. \A k \in Loop : k # l => Phase(k)' = Phase(k) /\ Due(k)' = Due(k) /\ History(k)' = History(k)
    BY <1>1 DEF Phase, Due, History, Lost
  <1>3. [k \in Loop |-> Phase(k)]' = [[k \in Loop |-> Phase(k)] EXCEPT ![l] = Phase(l)']
    BY <1>2
  <1>4. [k \in Loop |-> Due(k)]' = [[k \in Loop |-> Due(k)] EXCEPT ![l] = Due(l)']
    BY <1>2
  <1>5. [k \in Loop |-> History(k)]' = [[k \in Loop |-> History(k)] EXCEPT ![l] = History(l)']
    BY <1>2
  <1> QED
    BY <1>1, <1>3, <1>4, <1>5

(* The set of a sequence, and the order in it, are the same there. *)
LEMMA SameTerms ==
  /\ \A s : Visits!ToSet(s) = ToSet(s) /\ Visits!IsInjective(s) = IsInjective(s)
  /\ \A s, a, b : Visits!Precedes(s, a, b) = Precedes(s, a, b)
  BY DEF Visits!ToSet, ToSet, Visits!IsInjective, IsInjective, Visits!Precedes, Precedes

(* A step that changes nothing of what a loop shows. *)
LEMMA NothingShown ==
  ASSUME TypeOK, NEW l \in Loop, NEW r, Stepped(l, r),
         Phase(l)' = Phase(l), Due(l)' = Due(l), History(l)' = History(l)
  PROVE  UNCHANGED Visits!vars
  <1>1. /\ [k \in Loop |-> Phase(k)]' = [k \in Loop |-> Phase(k)]
        /\ [k \in Loop |-> Due(k)]' = [k \in Loop |-> Due(k)]
        /\ [k \in Loop |-> History(k)]' = [k \in Loop |-> History(k)]
        /\ UNCHANGED items
    BY ShownStep
  <1> QED
    BY <1>1 DEF Visits!vars

(* iterate(null) begins a loop. *)
LEMMA BeginShown ==
  ASSUME Watched, NEW l \in Loop, Begin(l)
  PROVE  Visits!Begin(l)
  <1>1. TypeOK
    BY DEF Watched, Reliable
  <1>2. PICK r : /\ Stepped(l, r) /\ loop[l].phase = "idle"
                 /\ r.phase = IF items = <<>> THEN "done" ELSE "value"
                 /\ r.intact /\ r.seen = <<>> /\ r.stayed = ToSet(items)
    BY <1>1, LoopSteps
  <1>3. loop[l] = Idle /\ loop'[l] = r /\ UNCHANGED items
    BY <1>1, <1>2, ShownStep DEF Watched, Started
  <1>4. Idle.phase = "idle" /\ Idle.intact /\ Idle.seen = <<>>
    BY DEF Idle
  <1>5. Phase(l) = "idle" /\ History(l) = <<>>
    BY <1>3, <1>4 DEF Phase, History, Lost
  <1>6. ToSet(<<>>) = {}
    BY DEF ToSet
  <1>7. /\ Phase(l)' = IF items = <<>> THEN "done" ELSE "running"
        /\ Due(l)' = ToSet(items) /\ History(l)' = <<>>
    BY <1>2, <1>3, <1>6 DEF Phase, Due, History, Lost
  <1>8. /\ [k \in Loop |-> Phase(k)]' =
             [[k \in Loop |-> Phase(k)] EXCEPT ![l] = IF items = <<>> THEN "done" ELSE "running"]
        /\ [k \in Loop |-> Due(k)]' = [[k \in Loop |-> Due(k)] EXCEPT ![l] = ToSet(items)]
        /\ [k \in Loop |-> History(k)]' = [k \in Loop |-> History(k)]
    BY <1>1, <1>2, <1>5, <1>7, ShownStep
  <1> QED
    BY <1>3, <1>5, <1>8, SameTerms DEF Visits!Begin

(* iterate(it) ends the loop when nothing is left, or shows nothing. *)
LEMMA AdvanceShown ==
  ASSUME Watched, Watched', NEW l \in Loop, Advance(l)
  PROVE  Visits!End(l) \/ UNCHANGED Visits!vars
  <1>1. TypeOK
    BY DEF Watched, Reliable
  <1>2. PICK r : /\ Stepped(l, r) /\ loop[l].phase = "advance"
                 /\ r.phase \in {"value", "done"} /\ r.intact = loop[l].intact
                 /\ r.seen = loop[l].seen /\ r.stayed = loop[l].stayed
    BY <1>1, LoopSteps
  <1>3. loop'[l] = r /\ UNCHANGED items
    BY <1>1, <1>2, ShownStep
  <1>4. Due(l)' = Due(l) /\ History(l)' = History(l) /\ Lost(l)' = Lost(l)
    BY <1>2, <1>3 DEF Due, History, Lost
  <1>5. CASE Lost(l) \/ r.phase = "value"
    <2>1. Phase(l)' = Phase(l)
      BY <1>2, <1>3, <1>4, <1>5 DEF Phase
    <2> QED
      BY <1>1, <1>2, <1>4, <2>1, NothingShown
  <1>6. CASE ~Lost(l) /\ r.phase = "done"
    <2>1. Phase(l) = "running" /\ Phase(l)' = "done"
      BY <1>2, <1>3, <1>4, <1>6 DEF Phase
    <2>2. loop'[l].stayed \subseteq ToSet(loop'[l].seen)
      <3>1. CASE NodeBased
        BY <1>3, <1>6, <3>1 DEF Watched, Followed
      <3>2. CASE ~NodeBased
        BY <1>2, <1>3, <1>6, <3>2 DEF Watched, Started, Reliable, Undisturbed, Exact, Lost
      <3> QED
        BY <3>1, <3>2
    <2>3. Due(l) = {}
      BY <1>2, <1>3, <1>6, <2>2 DEF Due
    <2>4. /\ [k \in Loop |-> Phase(k)]' = [[k \in Loop |-> Phase(k)] EXCEPT ![l] = "done"]
          /\ [k \in Loop |-> Due(k)]' = [k \in Loop |-> Due(k)]
          /\ [k \in Loop |-> History(k)]' = [k \in Loop |-> History(k)]
      BY <1>1, <1>2, <1>4, <2>1, ShownStep
    <2> QED
      BY <1>3, <2>1, <2>3, <2>4 DEF Visits!End
  <1> QED
    BY <1>2, <1>5, <1>6

(* What a loop that can expect something is about to visit. *)
LEMMA NextVisit ==
  ASSUME Watched, NEW l \in Loop, loop[l].phase = "value", Valid(l), ~Lost(l),
         NEW e, e = items[PositionOf(loop[l].at)]
  PROVE  /\ e \in Element /\ e \in ToSet(items) \ ToSet(loop[l].seen)
         /\ \A d \in loop[l].stayed \ ToSet(loop[l].seen) : d = e \/ Precedes(items, e, d)
         /\ \A d \in ToSet(loop[l].seen) \cap ToSet(items) : Precedes(items, d, e)
         /\ See(loop[l].seen, e) = Append(loop[l].seen, e)
         /\ ToSet(Append(loop[l].seen, e)) = ToSet(loop[l].seen) \cup {e}
  <1> DEFINE s == loop[l].seen
             n == PositionOf(loop[l].at)
  <1>1. /\ items \in Seq(Element) /\ IsInjective(items) /\ Len(items) \in Nat
        /\ DOMAIN items = 1 .. Len(items)
        /\ s \in Seq(Element) /\ Len(s) \in Nat /\ DOMAIN s = 1 .. Len(s)
    BY LenProperties DEF Watched, Reliable, Elements, TypeOK, LoopTypeOK
  <1>2. n \in 1 .. Len(items) /\ Active(l) /\ e = items[n]
    BY PlaceOfIterator DEF Watched, Active
  <1>3. e \in Element /\ e \in ToSet(items)
    BY <1>1, <1>2, ElementOfSeq DEF ToSet
  <1>4. ~Precedes(items, e, e)
    BY <1>1, <1>2, Order
  <1>5. /\ e \notin ToSet(s)
        /\ \A d \in loop[l].stayed \ ToSet(s) : d = e \/ Precedes(items, e, d)
        /\ \A d \in ToSet(s) \cap ToSet(items) : Precedes(items, d, e)
        /\ IsInjective(s)
    <2>1. CASE NodeBased
      <3>1. Ordered(l) /\ Ahead(l) /\ loop[l].at = e
        BY <1>2, <2>1, PlaceOfIterator DEF Watched, Followed, Valid
      <3> QED
        BY <1>3, <1>4, <3>1 DEF Ordered, Ahead
    <2>2. CASE ~NodeBased
      <3>1. Exact(l) /\ loop[l].stayed = ToSet(items)
        BY <2>2 DEF Watched, Reliable, Undisturbed, Started, Lost
      <3>2. n = Len(s) + 1
        BY <1>1, <1>2, <3>1, PlaceOfIterator DEF Watched, Reached
      <3>3. \A i \in 1 .. Len(s) : s[i] = items[i] /\ i < n /\ i \in DOMAIN items
        BY <1>1, <1>2, <3>1, <3>2 DEF Exact, Active
      <3> HIDE DEF n, s
      <3>4. \A d \in ToSet(s) : Precedes(items, d, e)
        BY <1>1, <1>2, <3>3 DEF ToSet, Precedes
      <3>5. IsInjective(s)
        BY <1>1, <3>3 DEF IsInjective
      <3>6. ASSUME NEW d \in ToSet(items), d \notin ToSet(s)
            PROVE  d = e \/ Precedes(items, e, d)
        <4>1. PICK i \in 1 .. Len(items) : d = items[i]
          BY <1>1, <3>6 DEF ToSet
        <4>2. ~(i \in 1 .. Len(s))
          BY <1>1, <3>3, <3>6, <4>1 DEF ToSet
        <4>3. i = n \/ n < i
          BY <1>1, <3>2, <4>2
        <4> QED
          BY <1>1, <1>2, <4>1, <4>3 DEF Precedes
      <3> QED
        BY <1>4, <3>1, <3>4, <3>5, <3>6
    <2> QED
      BY <2>1, <2>2
  <1> HIDE DEF s, n
  <1>6. See(s, e) = Append(s, e)
    <2>1. Len(s) < MaxSeen
      BY <1>1, <1>5, DistinctLength DEF MaxSeen
    <2> QED
      BY <2>1 DEF See
  <1>7. ToSet(Append(s, e)) = ToSet(s) \cup {e}
    <2> DEFINE t == Append(s, e)
    <2>1. /\ DOMAIN t = 1 .. Len(s) + 1 /\ t[Len(s) + 1] = e
          /\ \A i \in 1 .. Len(s) : t[i] = s[i]
      BY <1>1, <1>3, AppendProperties, LenProperties
    <2> HIDE DEF t
    <2>2. Len(s) + 1 \in DOMAIN t /\ \A i \in DOMAIN t : i \in DOMAIN s \/ i = Len(s) + 1
      BY <1>1, <2>1
    <2>3. \A i \in DOMAIN s : i \in DOMAIN t /\ t[i] = s[i]
      BY <1>1, <2>1
    <2>4. ToSet(t) = ToSet(s) \cup {e}
      BY <2>1, <2>2, <2>3 DEF ToSet
    <2> QED
      BY <2>4 DEF t
  <1> QED
    BY <1>3, <1>5, <1>6, <1>7 DEF s

(* iteratorValue(it) visits the element that the iterator is at. *)
LEMMA ValueShown ==
  ASSUME Watched, NEW l \in Loop, Value(l)
  PROVE  (\E e \in Element : Visits!Visit(l, e)) \/ UNCHANGED Visits!vars
  <1>1. TypeOK
    BY DEF Watched, Reliable
  <1>2. PICK r : /\ Stepped(l, r) /\ loop[l].phase = "value" /\ Valid(l)
                 /\ r.phase = "advance" /\ r.intact = loop[l].intact
                 /\ r.seen = See(loop[l].seen, items[PositionOf(loop[l].at)])
                 /\ r.stayed = loop[l].stayed
    BY <1>1, LoopSteps
  <1>3. loop'[l] = r /\ UNCHANGED items
    BY <1>1, <1>2, ShownStep
  <1>4. Phase(l)' = Phase(l) /\ Lost(l)' = Lost(l)
    BY <1>2, <1>3 DEF Phase, Lost
  <1>5. CASE Lost(l)
    <2>1. Due(l)' = Due(l) /\ History(l)' = History(l)
      BY <1>4, <1>5 DEF Due, History
    <2> QED
      BY <1>1, <1>2, <1>4, <2>1, NothingShown
  <1>6. CASE ~Lost(l)
    <2>1. items[PositionOf(loop[l].at)] \in Element
      BY <1>2, <1>6, NextVisit
    <2>2. PICK e \in Element : e = items[PositionOf(loop[l].at)]
      BY <2>1
    <2>3. /\ e \in ToSet(items) \ ToSet(loop[l].seen)
          /\ \A d \in loop[l].stayed \ ToSet(loop[l].seen) : d = e \/ Precedes(items, e, d)
          /\ \A d \in ToSet(loop[l].seen) \cap ToSet(items) : Precedes(items, d, e)
          /\ See(loop[l].seen, e) = Append(loop[l].seen, e)
          /\ ToSet(Append(loop[l].seen, e)) = ToSet(loop[l].seen) \cup {e}
      BY <1>2, <1>6, <2>2, NextVisit
    <2>4. /\ Phase(l) = "running" /\ Due(l) = loop[l].stayed \ ToSet(loop[l].seen)
          /\ History(l) = loop[l].seen
      BY <1>2, <1>6 DEF Phase, Due, History
    <2>5. r.seen = Append(loop[l].seen, e)
      BY <1>2, <2>2, <2>3
    <2>6. History(l)' = Append(History(l), e)
      BY <1>3, <1>4, <1>6, <2>4, <2>5 DEF History
    <2>7. Due(l)' = Due(l) \ {e}
      BY <1>2, <1>3, <1>4, <1>6, <2>3, <2>4, <2>5 DEF Due
    <2>8. /\ [k \in Loop |-> Phase(k)]' = [k \in Loop |-> Phase(k)]
          /\ [k \in Loop |-> Due(k)]' = [[k \in Loop |-> Due(k)] EXCEPT ![l] = @ \ {e}]
          /\ [k \in Loop |-> History(k)]' =
               [[k \in Loop |-> History(k)] EXCEPT ![l] = Append(@, e)]
      BY <1>1, <1>2, <1>4, <2>6, <2>7, ShownStep
    <2>9. Visits!Visit(l, e)
      BY <1>3, <2>3, <2>4, <2>8, SameTerms DEF Visits!Visit
    <2> QED
      BY <2>9
  <1> QED
    BY <1>5, <1>6

(* A change takes what is gone from what loops must visit, or ends what    *)
(* they can expect of a vector.                                            *)
LEMMA ChangeShown ==
  ASSUME Watched, Watched', NEW S, Change(S)
  PROVE  Visits!Change
  <1>1. /\ TypeOK /\ items' \in Seq(Element) /\ IsInjective(items')
        /\ \A a, b \in ToSet(items) \cap ToSet(items') :
             Precedes(items, a, b) => Precedes(items', a, b)
    BY DEF Watched, Reliable, Change
  <1>2. Idle.stayed = {} /\ Idle.seen = <<>> /\ Idle.phase = "idle" /\ Idle.intact
    BY DEF Idle
  <1>3. ASSUME NEW l \in Loop
        PROVE  /\ loop[l].phase \in {"idle", "advance", "value", "done"}
               /\ loop'[l].phase = loop[l].phase
               /\ loop[l].phase = "idle" => loop[l] = Idle /\ loop'[l] = Idle
               /\ loop[l].phase # "idle" => ~loop'[l].intact /\ loop'[l].seen = loop[l].seen
               /\ loop[l].phase = "done" => loop'[l].stayed = loop[l].stayed
               /\ loop[l].phase \in {"advance", "value"} =>
                    loop'[l].stayed = loop[l].stayed \cap ToSet(items')
    <2>1. loop[l].phase \in {"idle", "advance", "value", "done"}
      BY <1>1 DEF TypeOK, LoopTypeOK
    <2> QED
      BY <1>1, <2>1, ChangedLoops DEF Watched, Started, Active
  <1>4. CASE NodeBased
    <2>1. ASSUME NEW l \in Loop
          PROVE  /\ Phase(l)' = Phase(l) /\ History(l)' = History(l)
                 /\ Due(l)' = Due(l) \cap ToSet(items')
      <3>1. ~Lost(l) /\ ~Lost(l)'
        BY <1>4 DEF Lost
      <3>2. CASE loop[l].phase = "idle"
        BY <1>2, <1>3, <3>1, <3>2 DEF Phase, Due, History
      <3>3. CASE loop[l].phase = "done"
        <4>1. loop[l].stayed \subseteq ToSet(loop[l].seen)
          BY <1>4, <3>3 DEF Watched, Followed
        <4> QED
          BY <1>3, <3>1, <3>3, <4>1 DEF Phase, Due, History
      <3>4. CASE loop[l].phase \in {"advance", "value"}
        BY <1>3, <3>1, <3>4 DEF Phase, Due, History
      <3> QED
        BY <1>3, <3>2, <3>3, <3>4
    <2>2. /\ [l \in Loop |-> Phase(l)]' = [l \in Loop |-> Phase(l)]
          /\ [l \in Loop |-> History(l)]' = [l \in Loop |-> History(l)]
          /\ [l \in Loop |-> Due(l)]' =
               [l \in Loop |-> [k \in Loop |-> Due(k)][l] \cap ToSet(items')]
      BY <2>1
    <2> QED
      BY <1>1, <1>4, <2>2, SameTerms DEF Visits!Change
  <1>5. CASE ~NodeBased
    <2>1. ASSUME NEW l \in Loop
          PROVE  /\ Phase(l)' = IF Phase(l) = "idle" THEN "idle" ELSE "lost"
                 /\ Due(l)' = {} /\ History(l)' = <<>>
      <3>1. CASE loop[l].phase = "idle"
        BY <1>2, <1>3, <3>1 DEF Phase, Due, History, Lost
      <3>2. CASE loop[l].phase # "idle"
        <4>1. Phase(l) # "idle"
          BY <1>3, <3>2 DEF Phase
        <4>2. Lost(l)'
          BY <1>3, <1>5, <3>2 DEF Lost
        <4> QED
          BY <4>1, <4>2 DEF Phase, Due, History
      <3> QED
        BY <3>1, <3>2
    <2>2. /\ [l \in Loop |-> Phase(l)]' =
               [l \in Loop |-> IF [k \in Loop |-> Phase(k)][l] = "idle" THEN "idle" ELSE "lost"]
          /\ [l \in Loop |-> Due(l)]' = [l \in Loop |-> {}]
          /\ [l \in Loop |-> History(l)]' = [l \in Loop |-> <<>>]
      BY <2>1
    <2> QED
      BY <1>1, <1>5, <2>2, SameTerms DEF Visits!Change
  <1> QED
    BY <1>4, <1>5

(* Loops over a list visit what stays, in order and once, and loops over a *)
(* vector do as long as nobody changes it: each step of an iterator is one *)
(* of Traversal or shows nothing (std.hpp: iterate and iteratorValue).     *)
THEOREM SequencesImplementTraversal == Spec => ImplementsTraversal
  <1>1. Init => Visits!Init
    <2> SUFFICES ASSUME Init PROVE Visits!Init
      OBVIOUS
    <2>1. items = <<>> /\ \A l \in Loop : loop[l] = Idle
      BY DEF Init, LoopInit
    <2>2. Idle.phase = "idle" /\ Idle.intact /\ Idle.seen = <<>> /\ Idle.stayed = {}
      BY DEF Idle
    <2>3. \A l \in Loop : Phase(l) = "idle" /\ Due(l) = {} /\ History(l) = <<>>
      BY <2>1, <2>2 DEF Phase, Due, History, Lost
    <2> QED
      BY <2>1, <2>3 DEF Visits!Init
  <1>2. ASSUME Watched, Watched', [Next]_vars
        PROVE  [Visits!Next]_(Visits!vars)
    <2>1. ASSUME UNCHANGED <<items, loop>>
          PROVE  UNCHANGED Visits!vars
      BY <2>1 DEF Visits!vars, Phase, Due, History, Lost
    <2>2. CASE Next
      <3>1. TypeOK /\ Elements
        BY <1>2 DEF Watched, Reliable
      <3>2. \/ \E l \in Loop : Begin(l) \/ Advance(l) \/ Value(l)
            \/ \E S : Change(S)
            \/ UNCHANGED <<items, loop>>
        BY <2>2, <3>1, Steps DEF Answer
      <3>3. \/ \E l \in Loop : Visits!Begin(l) \/ Visits!End(l)
                             \/ \E e \in Element : Visits!Visit(l, e)
            \/ Visits!Change
            \/ UNCHANGED Visits!vars
        BY <1>2, <2>1, <3>2, BeginShown, AdvanceShown, ValueShown, ChangeShown
      <3> QED
        BY <3>3 DEF Visits!Next
    <2>3. CASE UNCHANGED vars
      BY <2>1, <2>3 DEF vars
    <2> QED
      BY <1>2, <2>2, <2>3
  <1> QED
    BY <1>1, <1>2, AlwaysWatched, PTL DEF Spec, ImplementsTraversal, Visits!Spec
=============================================================================
