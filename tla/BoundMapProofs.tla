--------------------------- MODULE BoundMapProofs ---------------------------
(***************************************************************************)
(* Theorems on BoundMap, for any keys and any number of loops: what loops  *)
(* over a map see while keys come and go, and that they implement          *)
(* Traversal.                                                              *)
(***************************************************************************)
EXTENDS BoundMap, FiniteSetTheorems, SequenceTheorems, TLAPS

Increasing(s) == \A i, j \in DOMAIN s : i < j => s[i] < s[j]
----------------------------------------------------------------------------
(* The order of keys. *)

(* How many of S are not above x. *)
Rank(S, x) == Cardinality({y \in S : y <= x})

(* Ranks of a finite set are its positions in order. *)
LEMMA Ranks ==
  ASSUME NEW S \in SUBSET Int, IsFiniteSet(S)
  PROVE  /\ Cardinality(S) \in Nat
         /\ \A x \in S : Rank(S, x) \in 1 .. Cardinality(S)
         /\ \A x, y \in S : x < y => Rank(S, x) < Rank(S, y)
         /\ \A i \in 1 .. Cardinality(S) : \E x \in S : Rank(S, x) = i
  <1> DEFINE upTo(x) == {y \in S : y <= x}
             n == Cardinality(S)
  <1>1. n \in Nat
    BY FS_CardinalityType
  <1>2. ASSUME NEW x \in S
        PROVE  /\ IsFiniteSet(upTo(x)) /\ Cardinality(upTo(x)) \in Nat
               /\ Cardinality(upTo(x)) <= n /\ Cardinality(upTo(x)) # 0
    <2>1. upTo(x) \in SUBSET S /\ x \in upTo(x)
      OBVIOUS
    <2> HIDE DEF upTo, n
    <2>2. IsFiniteSet(upTo(x)) /\ Cardinality(upTo(x)) <= n
      BY <2>1, FS_Subset DEF n
    <2> QED
      BY <2>1, <2>2, FS_CardinalityType, FS_EmptySet
  <1>3. ASSUME NEW x \in S, NEW y \in S, x < y
        PROVE  Cardinality(upTo(x)) < Cardinality(upTo(y))
    <2>0. x \in Int /\ y \in Int /\ \A z \in S : z \in Int
      OBVIOUS
    <2>1. upTo(x) \in SUBSET upTo(y) /\ y \in upTo(y) /\ y \notin upTo(x)
      <3>1. \A z \in S : z <= x => z <= y
        BY <1>3, <2>0
      <3>2. y <= y /\ ~(y <= x)
        BY <1>3, <2>0
      <3> QED
        BY <3>1, <3>2
    <2> HIDE DEF upTo
    <2>2. Cardinality(upTo(x)) <= Cardinality(upTo(y)) /\ Cardinality(upTo(x)) # Cardinality(upTo(y))
      BY <1>2, <2>1, FS_Subset
    <2> QED
      BY <1>2, <2>2
  <1> DEFINE f == [x \in S |-> Cardinality(upTo(x))]
  <1> HIDE DEF upTo, n
  <1>4. f \in [S -> 1 .. n]
    BY <1>1, <1>2
  <1>5. \A x, y \in S : f[x] = f[y] => x = y
    BY <1>2, <1>3
  <1>6. f \in Injection(S, 1 .. n)
    BY <1>4, <1>5 DEF Injection, IsInjective
  <1>7. IsFiniteSet(1 .. n) /\ Cardinality(1 .. n) = Cardinality(S)
    BY <1>1, FS_Interval DEF n
  <1>8. f \in Surjection(S, 1 .. n)
    BY <1>6, <1>7, FS_Injection
  <1>9. \A i \in 1 .. n : \E x \in S : f[x] = i
    BY <1>8 DEF Surjection
  <1> QED
    BY <1>1, <1>3, <1>4, <1>9 DEF Rank, upTo, n

(* There is a sequence of a finite set in order. *)
LEMMA AscendingOrder ==
  ASSUME NEW S \in SUBSET Int, IsFiniteSet(S)
  PROVE  /\ Ascending(S) \in Seq(S) /\ Increasing(Ascending(S))
         /\ ToSet(Ascending(S)) = S
  <1> DEFINE n == Cardinality(S)
             s == [i \in 1 .. n |-> CHOOSE x \in S : Rank(S, x) = i]
             t == Ascending(S)
  <1>1. n \in Nat
    BY Ranks
  <1>2. \A i \in 1 .. n : s[i] \in S /\ Rank(S, s[i]) = i
    BY Ranks
  <1>3. ASSUME NEW i \in 1 .. n, NEW j \in 1 .. n, i < j
        PROVE  s[i] < s[j]
    <2>1. s[i] \in Int /\ s[j] \in Int /\ Rank(S, s[i]) = i /\ Rank(S, s[j]) = j
      BY <1>2
    <2> HIDE DEF s
    <2>2. ~(s[j] < s[i])
      BY <1>2, <1>3, <2>1, Ranks
    <2>3. s[i] # s[j]
      BY <1>3, <2>1
    <2> QED
      BY <2>1, <2>2, <2>3
  <1>4. s \in [1 .. n -> S]
    BY <1>2
  <1> HIDE DEF s
  <1>5. \A i, j \in 1 .. n : i # j => s[i] # s[j]
    <2> TAKE i, j \in 1 .. n
    <2>1. s[i] \in Int /\ s[j] \in Int /\ (i < j => s[i] < s[j]) /\ (j < i => s[j] < s[i])
      BY <1>3, <1>4
    <2> QED
      BY <2>1
  <1>6. s \in SetToSeqs(S)
    BY <1>4, <1>5 DEF SetToSeqs
  <1>7. DOMAIN s = 1 .. n
    BY <1>4
  <1>8. t \in SetToSeqs(S) /\ \A i, j \in DOMAIN t : i < j => t[i] < t[j]
    BY <1>3, <1>6, <1>7 DEF Ascending
  <1> HIDE DEF t
  <1>9. t \in [1 .. n -> S] /\ \A i, j \in 1 .. n : i # j => t[i] # t[j]
    BY <1>8 DEF SetToSeqs
  <1>10. t \in Injection(1 .. n, S)
    BY <1>9 DEF Injection, IsInjective
  <1>11. Cardinality(1 .. n) = Cardinality(S)
    BY <1>1, FS_Interval
  <1>12. t \in Surjection(1 .. n, S)
    BY <1>10, <1>11, FS_Injection
  <1>13. ToSet(t) = S
    BY <1>9, <1>12 DEF Surjection, ToSet
  <1>14. t \in Seq(S)
    BY <1>1, <1>9, SeqDef
  <1> QED
    BY <1>8, <1>13, <1>14 DEF t, Increasing

(* An increasing sequence has as many elements as values, and the rank of  *)
(* each is its position.                                                   *)
LEMMA PositionIsRank ==
  ASSUME NEW s \in Seq(Int), Increasing(s)
  PROVE  /\ IsFiniteSet(ToSet(s)) /\ Cardinality(ToSet(s)) = Len(s)
         /\ \A i \in 1 .. Len(s) : Rank(ToSet(s), s[i]) = i
  <1>1. Len(s) \in Nat /\ DOMAIN s = 1 .. Len(s) /\ \A i \in 1 .. Len(s) : s[i] \in Int
    BY LenProperties, ElementOfSeq
  <1>2. \A i, j \in 1 .. Len(s) : i < j => s[i] < s[j]
    BY <1>1 DEF Increasing
  <1>3. ASSUME NEW m \in 0 .. Len(s), NEW T, T = {s[i] : i \in 1 .. m}
        PROVE  IsFiniteSet(T) /\ Cardinality(T) = m
    <2> DEFINE g == [i \in 1 .. m |-> s[i]]
    <2>1. g \in [1 .. m -> T] /\ \A i \in 1 .. m : i \in 1 .. Len(s) /\ g[i] = s[i]
      BY <1>1, <1>3
    <2>2. \A i, j \in 1 .. m : g[i] = g[j] => i = j
      <3> TAKE i, j \in 1 .. m
      <3>1. s[i] \in Int /\ s[j] \in Int /\ (i < j => s[i] < s[j]) /\ (j < i => s[j] < s[i])
        BY <1>1, <1>2, <2>1
      <3> QED
        BY <2>1, <3>1
    <2>3. \A x \in T : \E i \in 1 .. m : g[i] = x
      BY <1>3, <2>1
    <2> HIDE DEF g
    <2>4. g \in Bijection(1 .. m, T)
      BY <2>1, <2>2, <2>3 DEF Bijection, Injection, Surjection, IsInjective
    <2>5. IsFiniteSet(1 .. m) /\ Cardinality(1 .. m) = m
      BY <1>1, FS_Interval
    <2> QED
      BY <2>4, <2>5, FS_Bijection DEF ExistsBijection
  <1>4. ToSet(s) = {s[i] : i \in 1 .. Len(s)}
    BY <1>1 DEF ToSet
  <1>5. ASSUME NEW i \in 1 .. Len(s)
        PROVE  {y \in ToSet(s) : y <= s[i]} = {s[j] : j \in 1 .. i}
    <2>1. ASSUME NEW j \in 1 .. Len(s)
          PROVE  s[j] <= s[i] <=> j <= i
      BY <1>1, <1>2
    <2>2. 1 .. i \subseteq 1 .. Len(s)
      BY <1>1
    <2> QED
      BY <1>1, <1>4, <2>1, <2>2
  <1>6. ASSUME NEW i \in 1 .. Len(s)
        PROVE  Rank(ToSet(s), s[i]) = i
    <2>1. i \in 0 .. Len(s)
      BY <1>1
    <2>2. Cardinality({s[j] : j \in 1 .. i}) = i
      BY <1>3, <2>1
    <2> QED
      BY <1>5, <2>2 DEF Rank
  <1>7. Len(s) \in 0 .. Len(s)
    BY <1>1
  <1>8. IsFiniteSet(ToSet(s)) /\ Cardinality(ToSet(s)) = Len(s)
    BY <1>3, <1>4, <1>7
  <1> QED
    BY <1>6, <1>8

(* There is one increasing sequence of a set. *)
LEMMA OneOrder ==
  ASSUME NEW s \in Seq(Int), Increasing(s), NEW t \in Seq(Int), Increasing(t),
         ToSet(s) = ToSet(t)
  PROVE  s = t
  <1>1. Len(s) = Len(t) /\ Len(s) \in Nat
    BY PositionIsRank, LenProperties
  <1>2. ASSUME NEW i \in 1 .. Len(s)
        PROVE  s[i] = t[i]
    <2> DEFINE S == ToSet(s)
    <2>0. /\ \A j \in 1 .. Len(s) : s[j] \in Int /\ t[j] \in Int
          /\ DOMAIN s = 1 .. Len(s) /\ DOMAIN t = 1 .. Len(s)
      BY <1>1, LenProperties, ElementOfSeq
    <2>1. s[i] \in S /\ t[i] \in ToSet(t) /\ S \in SUBSET Int /\ IsFiniteSet(S)
      <3>1. S = {s[j] : j \in 1 .. Len(s)} /\ ToSet(t) = {t[j] : j \in 1 .. Len(s)}
        BY <2>0 DEF ToSet
      <3>2. IsFiniteSet(S)
        BY PositionIsRank
      <3> QED
        BY <2>0, <3>1, <3>2
    <2>2. Rank(S, s[i]) = i /\ Rank(S, t[i]) = i
      BY <1>1, PositionIsRank
    <2> HIDE DEF S
    <2>3. s[i] \in Int /\ t[i] \in Int /\ t[i] \in S /\ i \in Int
      BY <1>1, <2>0, <2>1 DEF S
    <2>4. \A x, y \in S : x < y => Rank(S, x) < Rank(S, y)
      BY <2>1, Ranks
    <2>5. ~(i < i)
      BY <2>3
    <2>6. ~(s[i] < t[i]) /\ ~(t[i] < s[i])
      BY <2>1, <2>2, <2>3, <2>4, <2>5
    <2> QED
      BY <2>3, <2>6
  <1> QED
    BY <1>1, <1>2, SeqEqual
----------------------------------------------------------------------------
(* Loops over a map. *)

Active(l) == loop[l].phase \in {"advance", "value"}

(* What a loop has seen is in the order of keys; one that ended has seen   *)
(* what stayed, and one that has not begun is as it was.                   *)
Seen(l) ==
  /\ Increasing(loop[l].seen)
  /\ loop[l].phase = "done" => loop[l].stayed \subseteq ToSet(loop[l].seen)
  /\ loop[l].phase = "idle" => loop[l] = Idle

(* An iterator that was not invalidated is at a key that is there, or at   *)
(* the end of what was empty.  Before it is what was seen; after it, what  *)
(* stayed and was not.                                                     *)
Between(l) ==
  /\ loop[l].stayed \subseteq Keys
  /\ \/ loop[l].at \in Keys
     \/ loop[l].at = 0 /\ loop[l].phase = "value" /\ loop[l].stayed = {}
  /\ \A e \in ToSet(loop[l].seen) :
       \/ loop[l].at \in Keys /\ e < loop[l].at
       \/ loop[l].phase = "advance" /\ e = loop[l].at
  /\ \A e \in loop[l].stayed :
       \/ e \in ToSet(loop[l].seen) \/ loop[l].at < e
       \/ loop[l].phase = "value" /\ e = loop[l].at

(* A loop over an unchanged map has seen keys of it, and its iterator can  *)
(* be used unless the map is empty.                                        *)
Unchanged(l) ==
  /\ loop[l].stayed = Keys /\ ToSet(loop[l].seen) \subseteq Keys
  /\ Active(l) => ~loop[l].stale /\ (loop[l].at \in Keys \/ Keys = {})

(* The inductive invariant. *)
Followed == \A l \in Loop :
  /\ Seen(l)
  /\ Active(l) /\ ~loop[l].stale => Between(l)
  /\ loop[l].phase # "idle" /\ loop[l].intact => Unchanged(l)

Visiting == TypeOK /\ Followed

(* The record of a loop. *)
LoopRecord == [phase : {"idle", "advance", "value", "done"},
               at : Nat \cup Element, stale : BOOLEAN, intact : BOOLEAN,
               seen : Seq(Element), stayed : SUBSET Element]

(* The keys and their places. *)
LEMMA KeyOrder ==
  ASSUME TypeOK
  PROVE  /\ items \in Seq(Element) /\ items \in Seq(Int) /\ Increasing(items)
         /\ Len(items) \in Nat /\ DOMAIN items = 1 .. Len(items)
         /\ Keys \subseteq Element /\ Keys = {items[n] : n \in 1 .. Len(items)}
         /\ \A n \in 1 .. Len(items) : items[n] \in Int /\ PositionOf(items[n]) = n
         /\ \A m, n \in 1 .. Len(items) : items[m] < items[n] <=> m < n
  <1>1. /\ items \in Seq(Element) /\ items = Ascending(Keys)
        /\ Len(items) \in Nat /\ DOMAIN items = 1 .. Len(items)
    BY LenProperties DEF TypeOK, LoopTypeOK
  <1>2. Keys = {items[n] : n \in 1 .. Len(items)} /\ \A n \in 1 .. Len(items) : items[n] \in Element
    BY <1>1, ElementOfSeq DEF Keys, ToSet
  <1>3. Keys \in SUBSET Int /\ Keys \in SUBSET Element /\ IsFiniteSet(Keys)
    BY <1>2, MapAssumption, LoopAssumption, FS_Subset
  <1>4. Increasing(items)
    BY <1>1, <1>3, AscendingOrder
  <1>5. \A n \in 1 .. Len(items) : items[n] \in Int
    BY <1>2, MapAssumption
  <1>6. items \in Seq(Int)
    BY <1>1, <1>5, SeqDef
  <1>7. ASSUME NEW m \in 1 .. Len(items), NEW n \in 1 .. Len(items)
        PROVE  items[m] < items[n] <=> m < n
    BY <1>1, <1>4, <1>5 DEF Increasing
  <1>8. ASSUME NEW n \in 1 .. Len(items)
        PROVE  PositionOf(items[n]) = n
    <2>1. \A m \in 1 .. Len(items) : items[m] = items[n] => m = n
      BY <1>5, <1>7
    <2> QED
      BY <1>1, <2>1, MapAssumption DEF PositionOf
  <1> QED
    BY <1>1, <1>2, <1>3, <1>4, <1>5, <1>6, <1>7, <1>8

(* The map has the keys K instead, and what is in S is freed. *)
Resized(K, S) ==
  /\ K \in SUBSET Element /\ S \in SUBSET Element /\ Keys \ S \subseteq K
  /\ items' = Ascending(K) /\ loop' = Changed(items', S)
  /\ outcome' = "ok"

(* Every step is one of a loop, a change of the keys, or an answer. *)
LEMMA Steps ==
  ASSUME TypeOK, Next
  PROVE  \/ \E l \in Loop : BeginUntested(l) \/ Advance(l) \/ Value(l)
         \/ \E K, S : Resized(K, S)
         \/ outcome' \in {"ok", "error", "undefined"} /\ UNCHANGED <<items, loop>>
  <1>0. Keys \subseteq Element /\ items = Ascending(Keys)
    BY KeyOrder DEF TypeOK
  <1>1. CASE \E l \in Loop : BeginUntested(l) \/ Continue(l)
    BY <1>1 DEF Continue, UseInvalid
  <1>2. ASSUME NEW k \in Element, Touch(k)
        PROVE  \/ \E K, S : Resized(K, S)
               \/ outcome' \in {"ok", "error", "undefined"} /\ UNCHANGED <<items, loop>>
    <2>1. CASE k \in Keys
      BY <1>2, <2>1 DEF Touch
    <2>2. CASE k \notin Keys
      <3>1. Resized(Keys \cup {k}, {})
        BY <1>0, <1>2, <2>2 DEF Touch, Resized
      <3> QED
        BY <3>1
    <2> QED
      BY <2>1, <2>2
  <1>3. ASSUME NEW k \in Element, RemoveKey(k)
        PROVE  \/ \E K, S : Resized(K, S)
               \/ outcome' \in {"ok", "error", "undefined"} /\ UNCHANGED <<items, loop>>
    <2>1. CASE k \in Keys
      <3>1. Resized(Keys \ {k}, {k})
        BY <1>0, <1>3, <2>1 DEF RemoveKey, Resized
      <3> QED
        BY <3>1
    <2>2. CASE k \notin Keys
      <3>1. Keys \ {k} = Keys
        BY <2>2
      <3> QED
        BY <1>0, <1>3, <2>2, <3>1 DEF RemoveKey
    <2> QED
      BY <2>1, <2>2
  <1>4. ASSUME Clear
        PROVE  \/ \E K, S : Resized(K, S)
               \/ outcome' \in {"ok", "error", "undefined"} /\ UNCHANGED <<items, loop>>
    <2>1. CASE items = <<>>
      BY <1>4, <2>1 DEF Clear
    <2>2. CASE items # <<>>
      <3>1. {} \in SUBSET Int /\ IsFiniteSet({})
        BY FS_EmptySet
      <3>2. Ascending({}) = <<>>
        BY <3>1, AscendingOrder, EmptySeq
      <3>3. Resized({}, Keys)
        BY <1>0, <1>4, <2>2, <3>2 DEF Clear, Resized
      <3> QED
        BY <3>3
    <2> QED
      BY <2>1, <2>2
  <1>5. CASE Query
    BY <1>5 DEF Query
  <1> QED
    BY <1>1, <1>2, <1>3, <1>4, <1>5 DEF Next

(* The loops after a change of the keys. *)
LEMMA ResizedLoops ==
  ASSUME TypeOK, NEW K, NEW S, Resized(K, S)
  PROVE  /\ TypeOK' /\ Keys' = K
         /\ \A l \in Loop :
              /\ loop[l].phase = "idle" => loop'[l] = Idle
              /\ loop'[l].phase = loop[l].phase
              /\ loop[l].phase # "idle" => ~loop'[l].intact /\ loop'[l].seen = loop[l].seen
              /\ loop[l].phase = "done" => loop'[l].stayed = loop[l].stayed
              /\ Active(l) =>
                   /\ loop'[l].at = loop[l].at
                   /\ loop'[l].stale = (loop[l].stale \/ loop[l].at \in S)
                   /\ loop'[l].stayed = loop[l].stayed \cap K
  <1>1. /\ K \in SUBSET Element /\ K \in SUBSET Int /\ IsFiniteSet(K)
        /\ items' = Ascending(K) /\ loop' = Changed(items', S) /\ outcome' = "ok"
    BY MapAssumption, LoopAssumption, FS_Subset DEF Resized
  <1>2. items' \in Seq(K) /\ ToSet(items') = K
    BY <1>1, AscendingOrder
  <1>3. items' \in Seq(Element) /\ Keys' = K
    <2>1. items' \in [1 .. Len(items') -> K] /\ Len(items') \in Nat
      BY <1>2, LenProperties
    <2>2. items' \in [1 .. Len(items') -> Element]
      BY <1>1, <2>1
    <2>3. items' \in Seq(Element)
      BY <2>1, <2>2, SeqDef
    <2>4. Keys' = K
      BY <1>2 DEF Keys
    <2> QED
      BY <2>3, <2>4
  <1>4. Idle \in LoopRecord /\ Idle.phase = "idle"
    BY EmptySeq DEF Idle, LoopRecord
  <1>5. ASSUME NEW l \in Loop
        PROVE  /\ loop'[l] \in LoopRecord
               /\ loop[l].phase = "idle" => loop'[l] = Idle
               /\ loop'[l].phase = loop[l].phase
               /\ loop[l].phase # "idle" => ~loop'[l].intact /\ loop'[l].seen = loop[l].seen
               /\ loop[l].phase = "done" => loop'[l].stayed = loop[l].stayed
               /\ Active(l) =>
                    /\ loop'[l].at = loop[l].at
                    /\ loop'[l].stale = (loop[l].stale \/ loop[l].at \in S)
                    /\ loop'[l].stayed = loop[l].stayed \cap K
    <2>0. loop[l] \in LoopRecord
      BY DEF TypeOK, LoopTypeOK, LoopRecord
    <2>1. CASE loop[l].phase = "idle"
      <3>1. loop'[l] = Idle
        BY <1>1, <2>1 DEF Changed
      <3> QED
        BY <3>1, <1>4, <2>1 DEF Active
    <2>2. CASE loop[l].phase = "done"
      <3>1. loop'[l] = [loop[l] EXCEPT !.intact = FALSE]
        BY <1>1, <2>2 DEF Changed
      <3> QED
        BY <3>1, <2>0, <2>2 DEF Active, LoopRecord
    <2>3. CASE Active(l)
      <3>1. loop'[l] = [loop[l] EXCEPT !.intact = FALSE, !.stayed = @ \cap ToSet(items'),
                                       !.stale = @ \/ loop[l].at \in S]
        BY <1>1, <2>3 DEF Changed, Active
      <3> QED
        BY <3>1, <1>2, <2>0, <2>3 DEF Active, LoopRecord
    <2> QED
      BY <2>0, <2>1, <2>2, <2>3 DEF Active, LoopRecord
  <1>6. loop' = [l \in Loop |-> loop'[l]]
    BY <1>1 DEF Changed
  <1>7. LoopTypeOK'
    BY <1>1, <1>3, <1>5, <1>6 DEF LoopTypeOK, LoopRecord
  <1> QED
    BY <1>1, <1>3, <1>5, <1>7 DEF TypeOK

(* A change frees the keys that it removes, and disturbs every loop. *)
LEMMA ResizedVisiting ==
  ASSUME Visiting, NEW K, NEW S, Resized(K, S)
  PROVE  Visiting'
  <1>1. /\ TypeOK /\ TypeOK' /\ Keys' = K /\ Keys \ S \subseteq K /\ 0 \notin K
        /\ Keys \subseteq Element
    BY ResizedLoops, KeyOrder, LoopAssumption DEF Visiting, Resized
  <1>2. ASSUME NEW l \in Loop
        PROVE  /\ Seen(l)'
               /\ (Active(l) /\ ~loop[l].stale => Between(l))'
               /\ (loop[l].phase # "idle" /\ loop[l].intact => Unchanged(l))'
    <2>0. /\ Seen(l) /\ (Active(l) /\ ~loop[l].stale => Between(l))
          /\ loop[l].phase \in {"idle", "advance", "value", "done"}
      BY DEF Visiting, Followed, TypeOK, LoopTypeOK
    <2>1. Seen(l)'
      <3>1. CASE loop[l].phase = "idle"
        BY <3>1, <1>1, <2>0, ResizedLoops DEF Seen
      <3>2. CASE loop[l].phase # "idle"
        BY <3>2, <1>1, <2>0, ResizedLoops DEF Seen
      <3> QED
        BY <3>1, <3>2
    <2>2. ASSUME Active(l)', ~loop'[l].stale
          PROVE  Between(l)'
      <3>1. Active(l)
        BY <1>1, <2>2, ResizedLoops DEF Active
      <3>2. /\ loop'[l].at = loop[l].at /\ loop[l].at \notin S /\ ~loop[l].stale
            /\ loop'[l].stayed = loop[l].stayed \cap K /\ loop'[l].phase = loop[l].phase
            /\ loop'[l].seen = loop[l].seen
        BY <1>1, <2>2, <3>1, ResizedLoops DEF Active
      <3> QED
        BY <1>1, <2>0, <3>1, <3>2 DEF Between
    <2>3. ~(loop'[l].phase # "idle" /\ loop'[l].intact)
      BY <1>1, ResizedLoops
    <2> QED
      BY <2>1, <2>2, <2>3
  <1> QED
    BY <1>1, <1>2 DEF Visiting, Followed

(* A step of one loop leaves the others as they are. *)
LEMMA OneLoop ==
  ASSUME Visiting, NEW l \in Loop, NEW r \in LoopRecord,
         loop' = [loop EXCEPT ![l] = r], outcome' = "ok", UNCHANGED items,
         Seen(l)', (Active(l) /\ ~loop[l].stale => Between(l))',
         (loop[l].phase # "idle" /\ loop[l].intact => Unchanged(l))'
  PROVE  Visiting'
  <1>1. loop \in [Loop -> LoopRecord]
    BY DEF Visiting, TypeOK, LoopTypeOK, LoopRecord
  <1>2. TypeOK'
    BY <1>1 DEF Visiting, TypeOK, LoopTypeOK, LoopRecord, Keys
  <1>3. ASSUME NEW m \in Loop, m # l
        PROVE  /\ Seen(m)'
               /\ (Active(m) /\ ~loop[m].stale => Between(m))'
               /\ (loop[m].phase # "idle" /\ loop[m].intact => Unchanged(m))'
    <2>1. loop'[m] = loop[m]
      BY <1>1, <1>3
    <2> QED
      BY <2>1 DEF Visiting, Followed, Seen, Between, Unchanged, Active, Keys
  <1> QED
    BY <1>2, <1>3 DEF Visiting, Followed

(* iterate(null) *)
LEMMA BeginVisiting ==
  ASSUME Visiting, NEW l \in Loop, BeginUntested(l)
  PROVE  Visiting'
  <1>1. /\ TypeOK /\ loop[l] \in LoopRecord
        /\ DOMAIN items = 1 .. Len(items) /\ Len(items) \in Nat /\ Keys \subseteq Element
        /\ Keys = {items[n] : n \in 1 .. Len(items)}
        /\ \A m, n \in 1 .. Len(items) : items[m] < items[n] <=> m < n
        /\ \A n \in 1 .. Len(items) : items[n] \in Int
    BY KeyOrder DEF Visiting, TypeOK, LoopTypeOK, LoopRecord
  <1> DEFINE r == [Idle EXCEPT !.phase = "value", !.at = IteratorTo(1), !.stayed = ToSet(items)]
  <1>2. loop' = [loop EXCEPT ![l] = r] /\ outcome' = "ok" /\ UNCHANGED items
    BY DEF BeginUntested
  <1>3. IteratorTo(1) = IF 1 \in DOMAIN items THEN items[1] ELSE 0
    BY MapAssumption DEF IteratorTo
  <1>4. IteratorTo(1) \in Keys \/ (Keys = {} /\ IteratorTo(1) = 0)
    BY <1>1, <1>3
  <1>5. ASSUME NEW e \in Keys
        PROVE  IteratorTo(1) < e \/ e = IteratorTo(1)
    <2>1. PICK n \in 1 .. Len(items) : e = items[n]
      BY <1>1
    <2>2. 1 \in 1 .. Len(items) /\ (1 < n \/ n = 1)
      BY <1>1
    <2> QED
      BY <1>1, <1>3, <2>1, <2>2
  <1>6. ToSet(items) = Keys /\ Keys \in SUBSET Element /\ IteratorTo(1) \in Nat \cup Element
        /\ <<>> \in Seq(Element)
    BY <1>1, <1>4, EmptySeq DEF Keys
  <1>7. /\ r.phase = "value" /\ r.at = IteratorTo(1) /\ r.stayed = ToSet(items) /\ r.seen = <<>>
        /\ ~r.stale /\ r.intact /\ r \in LoopRecord
    BY <1>6 DEF Idle, LoopRecord
  <1>8. r.stayed = Keys
    BY <1>6, <1>7
  <1> HIDE DEF r
  <1>9. loop'[l] = r /\ Keys' = Keys
    BY <1>1, <1>2 DEF Visiting, TypeOK, LoopTypeOK, Keys
  <1>10. Seen(l)'
    BY <1>7, <1>9 DEF Seen, Increasing
  <1>11. Between(l)'
    <2>1. ToSet(<<>>) = {}
      BY DEF ToSet
    <2> QED
      BY <1>4, <1>5, <1>7, <1>8, <1>9, <2>1 DEF Between
  <1>12. Unchanged(l)'
    <2>1. ToSet(<<>>) = {}
      BY DEF ToSet
    <2> QED
      BY <1>4, <1>7, <1>8, <1>9, <2>1 DEF Unchanged
  <1> QED
    BY <1>2, <1>7, <1>10, <1>11, <1>12, OneLoop

(* An iterator that can be used is at a key. *)
LEMMA UsableIterator ==
  ASSUME Visiting, NEW l \in Loop, Active(l), Valid(l)
  PROVE  /\ ~loop[l].stale /\ Between(l) /\ loop[l].at \in Keys
         /\ \E n \in 1 .. Len(items) : items[n] = loop[l].at /\ PositionOf(loop[l].at) = n
  <1>1. ~loop[l].stale /\ Between(l)
    BY DEF Visiting, Followed, Valid
  <1>2. loop[l].at \in Keys
    BY <1>1, MapAssumption DEF Between, Valid
  <1> QED
    BY <1>1, <1>2, KeyOrder DEF Visiting

(* iterate(it) *)
LEMMA AdvanceVisiting ==
  ASSUME Visiting, NEW l \in Loop, Advance(l)
  PROVE  Visiting'
  <1>1. /\ TypeOK /\ loop[l] \in LoopRecord /\ loop[l].phase = "advance"
        /\ DOMAIN items = 1 .. Len(items) /\ Len(items) \in Nat /\ Keys \subseteq Element
        /\ Keys = {items[n] : n \in 1 .. Len(items)}
        /\ \A m, n \in 1 .. Len(items) : items[m] < items[n] <=> m < n
        /\ \A n \in 1 .. Len(items) : items[n] \in Int
    BY KeyOrder DEF Visiting, TypeOK, LoopTypeOK, LoopRecord, Advance
  <1>2. /\ ~loop[l].stale /\ Between(l) /\ Seen(l)
        /\ (loop[l].intact => Unchanged(l))
        /\ outcome' = "ok" /\ UNCHANGED items
    BY <1>1, UsableIterator DEF Advance, Active, Visiting, Followed
  <1>3. PICK n \in 1 .. Len(items) : items[n] = loop[l].at /\ PositionOf(loop[l].at) = n
    BY <1>1, UsableIterator DEF Advance, Active
  <1>4. \A e \in Keys : loop[l].at < e => \E m \in 1 .. Len(items) : n < m /\ e = items[m]
    BY <1>1, <1>3
  <1>5. CASE n = Len(items)
    <2> DEFINE r == [loop[l] EXCEPT !.phase = "done"]
    <2>1. loop' = [loop EXCEPT ![l] = r]
      BY <1>1, <1>3, <1>5 DEF Advance
    <2>2. /\ r \in LoopRecord /\ r.phase = "done" /\ r.stayed = loop[l].stayed
          /\ r.seen = loop[l].seen /\ r.intact = loop[l].intact
      BY <1>1 DEF LoopRecord
    <2> HIDE DEF r
    <2>3. loop'[l] = r /\ Keys' = Keys
      BY <1>1, <1>2, <2>1 DEF Visiting, TypeOK, LoopTypeOK, Keys
    <2>4. \A e \in Keys : ~(loop[l].at < e)
      BY <1>1, <1>4, <1>5
    <2>5. loop[l].stayed \subseteq ToSet(loop[l].seen)
      BY <1>1, <1>2, <2>4 DEF Between
    <2>6. Seen(l)'
      BY <1>2, <2>2, <2>3, <2>5 DEF Seen
    <2>7. ~Active(l)'
      BY <2>2, <2>3 DEF Active
    <2>8. (loop[l].phase # "idle" /\ loop[l].intact => Unchanged(l))'
      BY <1>2, <2>2, <2>3, <2>7 DEF Unchanged
    <2> QED
      BY <1>2, <2>1, <2>2, <2>6, <2>7, <2>8, OneLoop
  <1>6. CASE n # Len(items)
    <2>0. Len(items) \in Nat /\ n \in 1 .. Len(items)
      BY <1>1
    <2>1. n + 1 \in 1 .. Len(items) /\ n + 1 # Len(items) + 1 /\ n < n + 1
      BY <1>6, <2>0
    <2> DEFINE r == [loop[l] EXCEPT !.phase = "value", !.at = items[n + 1]]
    <2>2. IteratorTo(n + 1) = items[n + 1]
      BY <1>1, <2>1, MapAssumption DEF IteratorTo
    <2>3. loop' = [loop EXCEPT ![l] = r]
      BY <1>1, <1>3, <2>1, <2>2 DEF Advance
    <2>4. items[n + 1] \in Keys /\ items[n + 1] \in Int /\ loop[l].at \in Int /\ loop[l].at < items[n + 1]
      BY <1>1, <1>3, <2>1
    <2>5. /\ r \in LoopRecord /\ r.phase = "value" /\ r.at = items[n + 1]
          /\ r.stayed = loop[l].stayed /\ r.seen = loop[l].seen
          /\ r.intact = loop[l].intact /\ r.stale = loop[l].stale
      BY <1>1, <2>4 DEF LoopRecord
    <2> HIDE DEF r
    <2>6. loop'[l] = r /\ Keys' = Keys
      BY <1>1, <1>2, <2>3 DEF Visiting, TypeOK, LoopTypeOK, Keys
    <2>7. Seen(l)'
      BY <1>1, <1>2, <2>5, <2>6 DEF Seen
    <2>8. ASSUME NEW e \in Keys, loop[l].at < e
          PROVE  items[n + 1] < e \/ e = items[n + 1]
      <3>1. PICK m \in 1 .. Len(items) : n < m /\ e = items[m]
        BY <1>4, <2>8
      <3>2. n + 1 < m \/ m = n + 1
        BY <1>1, <3>1
      <3> QED
        BY <1>1, <2>1, <3>1, <3>2
    <2>9. ASSUME NEW e \in ToSet(loop[l].seen)
          PROVE  e < items[n + 1]
      <3>1. e \in Int
        <4>1. e \in Element
          BY <1>1, LenProperties, ElementOfSeq DEF LoopRecord, ToSet
        <4> QED
          BY <4>1, MapAssumption
      <3>2. e < loop[l].at \/ e = loop[l].at
        BY <1>2 DEF Between
      <3> QED
        BY <2>4, <3>1, <3>2
    <2>10. Between(l)'
      BY <1>1, <1>2, <2>4, <2>5, <2>6, <2>8, <2>9 DEF Between
    <2>11. (loop[l].phase # "idle" /\ loop[l].intact => Unchanged(l))'
      BY <1>1, <1>2, <2>4, <2>5, <2>6 DEF Unchanged, Active
    <2> QED
      BY <1>2, <2>3, <2>5, <2>7, <2>10, <2>11, OneLoop
  <1> QED
    BY <1>5, <1>6

(* What is seen after what is less is seen in order, and once. *)
LEMMA SeeNext ==
  ASSUME NEW s \in Seq(Element), Increasing(s), NEW k \in Element, \A e \in ToSet(s) : e < k
  PROVE  /\ See(s, k) = Append(s, k) /\ See(s, k) \in Seq(Element)
         /\ Increasing(See(s, k)) /\ ToSet(See(s, k)) = ToSet(s) \cup {k}
  <1>1. /\ Len(s) \in Nat /\ DOMAIN s = 1 .. Len(s) /\ \A i \in 1 .. Len(s) : s[i] \in Element
        /\ Element \subseteq Int
    BY LenProperties, ElementOfSeq, MapAssumption
  <1>2. s \in Seq(Int)
    <2>1. s \in [1 .. Len(s) -> Element]
      BY LenProperties
    <2>2. s \in [1 .. Len(s) -> Int]
      BY <1>1, <2>1
    <2> QED
      BY <1>1, <2>2, SeqDef
  <1>3. Cardinality(Element) \in Nat /\ Len(s) <= Cardinality(Element)
    <2>1. ToSet(s) \in SUBSET Element /\ Cardinality(ToSet(s)) = Len(s)
      BY <1>1, <1>2, PositionIsRank DEF ToSet
    <2> QED
      BY <2>1, LoopAssumption, FS_Subset, FS_CardinalityType
  <1>4. See(s, k) = Append(s, k)
    <2>1. Len(s) < Cardinality(Element) + 1
      BY <1>1, <1>3
    <2> QED
      BY <2>1 DEF See, MaxSeen
  <1>5. /\ Append(s, k) \in Seq(Element) /\ Len(Append(s, k)) = Len(s) + 1
        /\ \A i \in 1 .. Len(s) : Append(s, k)[i] = s[i]
        /\ Append(s, k)[Len(s) + 1] = k
    BY AppendProperties
  <1> DEFINE t == Append(s, k)
  <1> HIDE DEF t
  <1>6. DOMAIN t = 1 .. Len(s) + 1 /\ Len(s) + 1 \in DOMAIN t
        /\ \A i \in DOMAIN t : i \in 1 .. Len(s) \/ i = Len(s) + 1
    BY <1>1, <1>5, LenProperties DEF t
  <1>7. \A i \in 1 .. Len(s) : s[i] \in ToSet(s) /\ i \in DOMAIN t /\ t[i] = s[i]
    BY <1>1, <1>5, <1>6 DEF ToSet, t
  <1>8. t[Len(s) + 1] = k
    BY <1>5 DEF t
  <1>9. Increasing(t)
    <2>1. ASSUME NEW i \in DOMAIN t, NEW j \in DOMAIN t, i < j
          PROVE  t[i] < t[j]
      <3>1. i \in 1 .. Len(s)
        BY <1>1, <1>6, <2>1
      <3>2. CASE j = Len(s) + 1
        BY <1>7, <1>8, <3>1, <3>2
      <3>3. CASE j \in 1 .. Len(s)
        BY <1>1, <1>7, <2>1, <3>1, <3>3 DEF Increasing
      <3> QED
        BY <1>6, <3>2, <3>3
    <2> QED
      BY <2>1 DEF Increasing
  <1>10. ToSet(t) = ToSet(s) \cup {k}
    BY <1>1, <1>6, <1>7, <1>8 DEF ToSet
  <1> QED
    BY <1>4, <1>5, <1>9, <1>10 DEF t

(* iteratorValue(it) *)
LEMMA ValueVisiting ==
  ASSUME Visiting, NEW l \in Loop, Value(l)
  PROVE  /\ Visiting'
         /\ loop[l].at \in Keys /\ loop[l].phase = "value" /\ Between(l)
         /\ \A e \in ToSet(loop[l].seen) : e < loop[l].at
         /\ loop' = [loop EXCEPT ![l] =
              [loop[l] EXCEPT !.phase = "advance", !.seen = Append(@, loop[l].at)]]
         /\ ToSet(Append(loop[l].seen, loop[l].at)) = ToSet(loop[l].seen) \cup {loop[l].at}
  <1>1. /\ TypeOK /\ loop[l] \in LoopRecord /\ loop[l].phase = "value"
        /\ Keys \subseteq Element
    BY KeyOrder DEF Visiting, TypeOK, LoopTypeOK, LoopRecord, Value
  <1>2. /\ ~loop[l].stale /\ Between(l) /\ Seen(l) /\ loop[l].at \in Keys
        /\ (loop[l].intact => Unchanged(l))
        /\ outcome' = "ok" /\ UNCHANGED items
    BY <1>1, UsableIterator DEF Value, Active, Visiting, Followed
  <1>3. items[PositionOf(loop[l].at)] = loop[l].at
    BY <1>1, UsableIterator DEF Value, Active
  <1>4. \A e \in ToSet(loop[l].seen) : e < loop[l].at
    BY <1>1, <1>2 DEF Between
  <1> DEFINE s == Append(loop[l].seen, loop[l].at)
             r == [loop[l] EXCEPT !.phase = "advance", !.seen = s]
  <1>5. /\ See(loop[l].seen, loop[l].at) = s /\ s \in Seq(Element) /\ Increasing(s)
        /\ ToSet(s) = ToSet(loop[l].seen) \cup {loop[l].at}
    <2>1. loop[l].seen \in Seq(Element) /\ Increasing(loop[l].seen) /\ loop[l].at \in Element
      BY <1>1, <1>2 DEF LoopRecord, Seen
    <2> QED
      BY <1>4, <2>1, SeeNext
  <1> HIDE DEF s
  <1>6. loop' = [loop EXCEPT ![l] = r]
    BY <1>3, <1>5 DEF Value
  <1>7. /\ r \in LoopRecord /\ r.phase = "advance" /\ r.at = loop[l].at
        /\ r.stayed = loop[l].stayed /\ r.seen = s
        /\ r.intact = loop[l].intact /\ r.stale = loop[l].stale
    BY <1>1, <1>5 DEF LoopRecord
  <1> HIDE DEF r
  <1>8. loop'[l] = r /\ Keys' = Keys
    BY <1>1, <1>2, <1>6 DEF Visiting, TypeOK, LoopTypeOK, Keys
  <1>9. Seen(l)'
    BY <1>5, <1>7, <1>8 DEF Seen
  <1>10. Between(l)'
    BY <1>1, <1>2, <1>4, <1>5, <1>7, <1>8 DEF Between
  <1>11. (loop[l].phase # "idle" /\ loop[l].intact => Unchanged(l))'
    BY <1>1, <1>2, <1>5, <1>7, <1>8 DEF Unchanged, Active
  <1>12. Visiting'
    BY <1>2, <1>6, <1>7, <1>9, <1>10, <1>11, OneLoop
  <1> QED
    BY <1>1, <1>2, <1>4, <1>5, <1>6, <1>12 DEF s, r

(* Every loop is idle at first. *)
LEMMA InitVisiting == Init => Visiting
  <1> SUFFICES ASSUME Init PROVE Visiting
    OBVIOUS
  <1>1. items = <<>> /\ loop = [l \in Loop |-> Idle] /\ outcome = "ok"
    BY DEF Init, LoopInit
  <1>2. {} \in SUBSET Int /\ IsFiniteSet({})
    BY FS_EmptySet
  <1>3. Ascending({}) = <<>> /\ Keys = {}
    BY <1>1, <1>2, AscendingOrder, EmptySeq DEF Keys, ToSet
  <1>4. Idle \in LoopRecord /\ Idle.phase = "idle" /\ Idle.seen = <<>>
    BY EmptySeq DEF Idle, LoopRecord
  <1>5. <<>> \in Seq(Element)
    BY EmptySeq
  <1>6. TypeOK
    BY <1>1, <1>3, <1>4, <1>5 DEF TypeOK, LoopTypeOK, LoopRecord
  <1> HIDE DEF Idle
  <1>7. ASSUME NEW l \in Loop
        PROVE  loop[l] = Idle
    BY <1>1
  <1>8. Followed
    BY <1>4, <1>7 DEF Followed, Seen, Active, Increasing
  <1> QED
    BY <1>6, <1>8 DEF Visiting

(* The invariant is inductive. *)
LEMMA NextVisiting == Visiting /\ [Next]_vars => Visiting'
  <1> SUFFICES ASSUME Visiting, [Next]_vars PROVE Visiting'
    OBVIOUS
  <1>1. ASSUME outcome' \in {"ok", "error", "undefined"}, UNCHANGED <<items, loop>>
        PROVE  Visiting'
    BY <1>1 DEF Visiting, TypeOK, LoopTypeOK, Keys, Followed, Seen, Between, Unchanged, Active
  <1>2. CASE Next
    <2>1. \/ \E l \in Loop : BeginUntested(l) \/ Advance(l) \/ Value(l)
          \/ \E K, S : Resized(K, S)
          \/ outcome' \in {"ok", "error", "undefined"} /\ UNCHANGED <<items, loop>>
      BY <1>2, Steps DEF Visiting
    <2> QED
      BY <2>1, <1>1, BeginVisiting, AdvanceVisiting, ValueVisiting, ResizedVisiting
  <1>3. CASE UNCHANGED vars
    BY <1>3, <1>1 DEF vars, loopVars, Visiting, TypeOK, LoopTypeOK
  <1> QED
    BY <1>2, <1>3

(* So it always holds. *)
LEMMA AlwaysVisiting == Spec => []Visiting
  BY InitVisiting, NextVisiting, PTL DEF Spec

(* Every loop has an iterator, and the keys are in order (std.hpp: the     *)
(* iterators and the container of AbstractMapBindings).                    *)
THEOREM MapTyped == Spec => []TypeOK
  <1>1. Visiting => TypeOK
    BY DEF Visiting
  <1> QED
    BY <1>1, AlwaysVisiting, PTL

(* What a loop has seen is a sequence of keys. *)
LEMMA SeenKeys ==
  ASSUME TypeOK, NEW l \in Loop
  PROVE  loop[l].seen \in Seq(Int) /\ loop[l].seen \in Seq(Element)
  <1>1. loop[l].seen \in Seq(Element)
    BY DEF TypeOK, LoopTypeOK
  <1>2. loop[l].seen \in [1 .. Len(loop[l].seen) -> Int] /\ Len(loop[l].seen) \in Nat
    BY <1>1, LenProperties, ElementOfSeq, MapAssumption
  <1> QED
    BY <1>1, <1>2, SeqDef

(* A loop over a map that nobody changes sees each key once, in order      *)
(* (std.hpp: iterate and iteratorValue of AbstractMapBindings).            *)
THEOREM MapLoopsExact == Spec => []LoopExact
  <1>1. ASSUME Visiting, NEW l \in Loop, loop[l].phase = "done", loop[l].intact
        PROVE  loop[l].seen = items
    <2>1. TypeOK /\ Seen(l) /\ Unchanged(l)
      BY <1>1 DEF Visiting, Followed
    <2>2. ToSet(loop[l].seen) = Keys /\ Increasing(loop[l].seen)
      BY <1>1, <2>1 DEF Seen, Unchanged
    <2> QED
      BY <2>1, <2>2, SeenKeys, KeyOrder, OneOrder DEF Keys
  <1>2. Visiting => LoopExact
    BY <1>1 DEF LoopExact
  <1> QED
    BY <1>2, AlwaysVisiting, PTL

(* Only over an empty map can a loop use an iterator that is not valid     *)
(* though nobody changes the map (std.hpp:366).                            *)
THEOREM MapLoopsDefined == Spec => []LoopDefinedUnlessEmpty
  <1>1. ASSUME Visiting, items # <<>>, NEW l \in Loop, Active(l), loop[l].intact
        PROVE  Valid(l)
    <2>1. TypeOK /\ Unchanged(l) /\ loop[l].phase # "idle"
      BY <1>1 DEF Visiting, Followed, Active
    <2>2. Keys # {}
      <3>1. items \in Seq(Element) /\ Keys = {items[n] : n \in 1 .. Len(items)}
            /\ Len(items) \in Nat
        BY <2>1, KeyOrder
      <3>2. Len(items) # 0
        BY <1>1, <3>1, EmptySeq
      <3> QED
        BY <3>1, <3>2
    <2>3. ~loop[l].stale /\ loop[l].at \in Element
      BY <1>1, <2>1, <2>2, KeyOrder DEF Unchanged
    <2> QED
      BY <2>3, LoopAssumption, MapAssumption DEF Valid
  <1>2. Visiting => LoopDefinedUnlessEmpty
    BY <1>1 DEF LoopDefinedUnlessEmpty, LoopDefined, Active
  <1> QED
    BY <1>2, AlwaysVisiting, PTL

(* A loop over a map that ends has seen every key that was there all the   *)
(* time, none twice, and in their order, whatever was inserted and removed *)
(* under way (std.hpp: AbstractMapBindings on a std::map).                 *)
THEOREM MapLoopsComplete == Spec => []LoopComplete
  <1>1. ASSUME Visiting, NEW l \in Loop, loop[l].phase = "done"
        PROVE  /\ loop[l].stayed \subseteq ToSet(loop[l].seen)
               /\ Len(loop[l].seen) = Cardinality(ToSet(loop[l].seen))
               /\ \A p, q \in DOMAIN loop[l].seen :
                    p < q /\ {loop[l].seen[p], loop[l].seen[q]} \subseteq ToSet(items) =>
                      PositionOf(loop[l].seen[p]) < PositionOf(loop[l].seen[q])
    <2>1. TypeOK /\ Seen(l) /\ loop[l].seen \in Seq(Int)
      BY <1>1, SeenKeys DEF Visiting, Followed
    <2>2. Len(loop[l].seen) = Cardinality(ToSet(loop[l].seen))
      BY <2>1, PositionIsRank DEF Seen
    <2>3. ASSUME NEW p \in DOMAIN loop[l].seen, NEW q \in DOMAIN loop[l].seen, p < q,
                 loop[l].seen[p] \in Keys, loop[l].seen[q] \in Keys
          PROVE  PositionOf(loop[l].seen[p]) < PositionOf(loop[l].seen[q])
      <3>1. loop[l].seen[p] < loop[l].seen[q]
        BY <2>1, <2>3 DEF Seen, Increasing
      <3>2. /\ Keys = {items[n] : n \in 1 .. Len(items)}
            /\ \A n \in 1 .. Len(items) : PositionOf(items[n]) = n
            /\ \A m, n \in 1 .. Len(items) : items[m] < items[n] <=> m < n
        BY <2>1, KeyOrder
      <3>3. PICK m \in 1 .. Len(items), n \in 1 .. Len(items) :
                   loop[l].seen[p] = items[m] /\ loop[l].seen[q] = items[n]
        BY <2>3, <3>2
      <3> QED
        BY <3>1, <3>2, <3>3
    <2>4. loop[l].stayed \subseteq ToSet(loop[l].seen)
      BY <1>1, <2>1 DEF Seen
    <2> QED
      BY <2>2, <2>3, <2>4 DEF Keys
  <1>2. Visiting => LoopComplete
    BY <1>1 DEF LoopComplete
  <1> QED
    BY <1>2, AlwaysVisiting, PTL
----------------------------------------------------------------------------
(* The loops implement Traversal. *)

(* Maps are node-based. *)
LEMMA NothingLost ==
  ASSUME NEW l \in Loop
  PROVE  ~Lost(l) /\ ~Lost(l)'
  BY MapAssumption DEF Lost

(* A step of one loop shows in its own phase, what it must visit and what  *)
(* it has visited.                                                         *)
LEMMA ShownStep ==
  ASSUME TypeOK, NEW l \in Loop, NEW r, loop' = [loop EXCEPT ![l] = r]
  PROVE  /\ [k \in Loop |-> Phase(k)]' =
              [[k \in Loop |-> Phase(k)] EXCEPT ![l] =
                 IF r.phase \in {"advance", "value"} THEN "running" ELSE r.phase]
         /\ [k \in Loop |-> Due(k)]' =
              [[k \in Loop |-> Due(k)] EXCEPT ![l] = r.stayed \ ToSet(r.seen)]
         /\ [k \in Loop |-> History(k)]' =
              [[k \in Loop |-> History(k)] EXCEPT ![l] = r.seen]
  <1>1. loop'[l] = r /\ \A k \in Loop : k # l => loop'[k] = loop[k]
    BY DEF TypeOK, LoopTypeOK
  <1>2. /\ Phase(l)' = IF r.phase \in {"advance", "value"} THEN "running" ELSE r.phase
        /\ Due(l)' = r.stayed \ ToSet(r.seen) /\ History(l)' = r.seen
    BY <1>1, NothingLost DEF Phase, Due, History, Active
  <1>3. \A k \in Loop : k # l =>
          Phase(k)' = Phase(k) /\ Due(k)' = Due(k) /\ History(k)' = History(k)
    BY <1>1, NothingLost DEF Phase, Due, History, Active
  <1>4. [k \in Loop |-> Phase(k)]' =
          [[k \in Loop |-> Phase(k)] EXCEPT ![l] =
             IF r.phase \in {"advance", "value"} THEN "running" ELSE r.phase]
    BY <1>2, <1>3
  <1>5. [k \in Loop |-> Due(k)]' =
          [[k \in Loop |-> Due(k)] EXCEPT ![l] = r.stayed \ ToSet(r.seen)]
    BY <1>2, <1>3
  <1>6. [k \in Loop |-> History(k)]' =
          [[k \in Loop |-> History(k)] EXCEPT ![l] = r.seen]
    BY <1>2, <1>3
  <1> QED
    BY <1>4, <1>5, <1>6

(* In an increasing sequence what is less comes before. *)
LEMMA LessPrecedes ==
  ASSUME NEW s \in Seq(Int), Increasing(s), NEW a, NEW b
  PROVE  Visits!Precedes(s, a, b) <=> a \in ToSet(s) /\ b \in ToSet(s) /\ a < b
  <1>1. DOMAIN s = 1 .. Len(s) /\ Len(s) \in Nat /\ \A i \in 1 .. Len(s) : s[i] \in Int
    BY LenProperties, ElementOfSeq
  <1>2. \A i, j \in 1 .. Len(s) : s[i] < s[j] <=> i < j
    BY <1>1 DEF Increasing
  <1> QED
    BY <1>1, <1>2 DEF Visits!Precedes, ToSet

(* iterate(null) begins. *)
LEMMA BeginShown ==
  ASSUME Visiting, NEW l \in Loop, BeginUntested(l)
  PROVE  Visits!Begin(l)
  <1>1. TypeOK /\ loop[l] = Idle /\ UNCHANGED items
    BY DEF Visiting, Followed, Seen, BeginUntested
  <1> DEFINE r == [Idle EXCEPT !.phase = "value", !.at = IteratorTo(1), !.stayed = ToSet(items)]
  <1>2. loop' = [loop EXCEPT ![l] = r]
    BY DEF BeginUntested
  <1>3. r.phase = "value" /\ r.stayed = ToSet(items) /\ r.seen = <<>>
        /\ Idle.phase = "idle" /\ Idle.seen = <<>>
    BY DEF Idle
  <1> HIDE DEF r
  <1>4. ToSet(<<>>) = {}
    BY DEF ToSet
  <1>5. /\ [k \in Loop |-> Phase(k)]' = [[k \in Loop |-> Phase(k)] EXCEPT ![l] = "running"]
        /\ [k \in Loop |-> Due(k)]' = [[k \in Loop |-> Due(k)] EXCEPT ![l] = ToSet(items)]
        /\ [k \in Loop |-> History(k)]' = [[k \in Loop |-> History(k)] EXCEPT ![l] = <<>>]
    <2>1. r.stayed \ ToSet(r.seen) = ToSet(items)
      BY <1>3, <1>4
    <2> QED
      BY <1>1, <1>2, <1>3, <2>1, ShownStep
  <1>6. Phase(l) = "idle"
    BY <1>1, <1>3, NothingLost DEF Phase, Active
  <1>7. [k \in Loop |-> History(k)]' = [k \in Loop |-> History(k)]
    BY <1>1, <1>3, <1>5, NothingLost DEF History
  <1>8. Visits!ToSet(items) = ToSet(items)
    BY DEF Visits!ToSet, ToSet
  <1> QED
    BY <1>1, <1>5, <1>6, <1>7, <1>8 DEF Visits!Begin

(* iterate(it) ends the loop when nothing is left, or shows nothing. *)
LEMMA AdvanceShown ==
  ASSUME Visiting, NEW l \in Loop, Advance(l)
  PROVE  Visits!End(l) \/ UNCHANGED Visits!vars
  <1>1. /\ TypeOK /\ loop[l] \in LoopRecord /\ loop[l].phase = "advance" /\ UNCHANGED items
        /\ Seen(l)'
    BY AdvanceVisiting DEF Visiting, Followed, TypeOK, LoopTypeOK, LoopRecord, Advance
  <1>2. Phase(l) = "running" /\ Due(l) = loop[l].stayed \ ToSet(loop[l].seen)
        /\ History(l) = loop[l].seen
    BY <1>1, NothingLost DEF Phase, Active, Due, History
  <1>3. PICK r : /\ loop' = [loop EXCEPT ![l] = r]
                 /\ r.phase \in {"value", "done"}
                 /\ r.stayed = loop[l].stayed /\ r.seen = loop[l].seen
    <2>1. \E p, x : loop' = [loop EXCEPT ![l] =
                      IF p = Len(items) + 1 THEN [loop[l] EXCEPT !.phase = "done"]
                      ELSE [loop[l] EXCEPT !.phase = "value", !.at = x]]
      BY DEF Advance
    <2>2. PICK p, x : loop' = [loop EXCEPT ![l] =
                      IF p = Len(items) + 1 THEN [loop[l] EXCEPT !.phase = "done"]
                      ELSE [loop[l] EXCEPT !.phase = "value", !.at = x]]
      BY <2>1
    <2> DEFINE done == [loop[l] EXCEPT !.phase = "done"]
               value == [loop[l] EXCEPT !.phase = "value", !.at = x]
    <2>3. /\ done.phase = "done" /\ done.stayed = loop[l].stayed /\ done.seen = loop[l].seen
          /\ value.phase = "value" /\ value.stayed = loop[l].stayed /\ value.seen = loop[l].seen
      BY <1>1 DEF LoopRecord
    <2> QED
      BY <2>2, <2>3
  <1>4. /\ [k \in Loop |-> Due(k)]' = [[k \in Loop |-> Due(k)] EXCEPT ![l] = Due(l)]
        /\ [k \in Loop |-> History(k)]' = [[k \in Loop |-> History(k)] EXCEPT ![l] = History(l)]
        /\ [k \in Loop |-> Phase(k)]' = [[k \in Loop |-> Phase(k)] EXCEPT ![l] =
              IF r.phase \in {"advance", "value"} THEN "running" ELSE r.phase]
    <2>1. r.stayed \ ToSet(r.seen) = Due(l) /\ r.seen = History(l)
      BY <1>2, <1>3
    <2>2. TypeOK /\ loop' = [loop EXCEPT ![l] = r]
      BY <1>1, <1>3
    <2> QED
      BY <2>1, <2>2, ShownStep
  <1>5. /\ [k \in Loop |-> Due(k)]' = [k \in Loop |-> Due(k)]
        /\ [k \in Loop |-> History(k)]' = [k \in Loop |-> History(k)]
    BY <1>4
  <1>6. CASE r.phase = "value"
    <2>1. [k \in Loop |-> Phase(k)]' = [k \in Loop |-> Phase(k)]
      BY <1>2, <1>4, <1>6
    <2> QED
      BY <1>1, <1>5, <2>1 DEF Visits!vars
  <1>7. CASE r.phase = "done"
    <2>1. [k \in Loop |-> Phase(k)]' = [[k \in Loop |-> Phase(k)] EXCEPT ![l] = "done"]
      BY <1>4, <1>7
    <2>2. loop'[l] = r
      BY <1>1, <1>3 DEF TypeOK, LoopTypeOK
    <2>3. Due(l) = {}
      BY <1>1, <1>2, <1>3, <1>7, <2>2 DEF Seen
    <2> QED
      BY <1>1, <1>2, <1>5, <2>1, <2>3 DEF Visits!End
  <1> QED
    BY <1>3, <1>6, <1>7

(* iteratorValue(it) visits the key that the iterator is at. *)
LEMMA ValueShown ==
  ASSUME Visiting, NEW l \in Loop, Value(l)
  PROVE  \E e \in Element : Visits!Visit(l, e)
  <1>0. loop[l].at \in Element
    BY ValueVisiting, KeyOrder DEF Visiting
  <1> PICK e \in Element : e = loop[l].at
    BY <1>0
  <1> DEFINE r == [loop[l] EXCEPT !.phase = "advance", !.seen = Append(@, loop[l].at)]
  <1>1. /\ TypeOK /\ loop[l] \in LoopRecord /\ UNCHANGED items /\ Keys \subseteq Element
        /\ items \in Seq(Int) /\ Increasing(items)
    BY KeyOrder DEF Visiting, TypeOK, LoopTypeOK, LoopRecord, Value
  <1>2. /\ e \in Keys /\ loop[l].phase = "value" /\ Between(l)
        /\ \A d \in ToSet(loop[l].seen) : d < e
        /\ loop' = [loop EXCEPT ![l] = r]
        /\ ToSet(Append(loop[l].seen, e)) = ToSet(loop[l].seen) \cup {e}
    BY ValueVisiting
  <1>3. r.phase = "advance" /\ r.stayed = loop[l].stayed /\ r.seen = Append(loop[l].seen, e)
    BY <1>1 DEF LoopRecord
  <1> HIDE DEF r
  <1>4. Phase(l) = "running" /\ Due(l) = loop[l].stayed \ ToSet(loop[l].seen)
        /\ History(l) = loop[l].seen
    BY <1>2, NothingLost DEF Phase, Active, Due, History
  <1>5. r.stayed \ ToSet(r.seen) = Due(l) \ {e}
    BY <1>2, <1>3, <1>4
  <1>6. /\ [k \in Loop |-> Phase(k)]' = [k \in Loop |-> Phase(k)]
        /\ [k \in Loop |-> Due(k)]' = [[k \in Loop |-> Due(k)] EXCEPT ![l] = @ \ {e}]
        /\ [k \in Loop |-> History(k)]' =
             [[k \in Loop |-> History(k)] EXCEPT ![l] = Append(@, e)]
    <2>1. /\ [k \in Loop |-> Phase(k)]' = [[k \in Loop |-> Phase(k)] EXCEPT ![l] = "running"]
          /\ [k \in Loop |-> Due(k)]' = [[k \in Loop |-> Due(k)] EXCEPT ![l] = Due(l) \ {e}]
          /\ [k \in Loop |-> History(k)]' =
               [[k \in Loop |-> History(k)] EXCEPT ![l] = Append(History(l), e)]
      <3>1. r.seen = Append(History(l), e)
        BY <1>3, <1>4
      <3>2. TypeOK /\ loop' = [loop EXCEPT ![l] = r]
        BY <1>1, <1>2
      <3> QED
        BY <1>3, <1>5, <3>1, <3>2, ShownStep
    <2> QED
      BY <1>4, <2>1
  <1>7. /\ \A d \in Due(l) : d = e \/ Visits!Precedes(items, e, d)
        /\ \A d \in ToSet(History(l)) \cap ToSet(items) : Visits!Precedes(items, d, e)
        /\ e \in ToSet(items) \ ToSet(History(l))
    <2>1. ToSet(items) = Keys /\ e \in Int
      BY <1>1, <1>2, MapAssumption DEF Keys
    <2>2. ASSUME NEW d \in Due(l), d # e
          PROVE  d \in Keys /\ e < d
      BY <1>2, <1>4, <2>2 DEF Between
    <2>3. e \notin ToSet(History(l))
      BY <1>2, <1>4, <2>1
    <2> QED
      BY <1>1, <1>2, <1>4, <2>1, <2>2, <2>3, LessPrecedes
  <1>8. \A s : Visits!ToSet(s) = ToSet(s)
    BY DEF Visits!ToSet, ToSet
  <1>9. Visits!Visit(l, e)
    BY <1>1, <1>4, <1>6, <1>7, <1>8 DEF Visits!Visit
  <1> QED
    BY <1>9

(* A change of the keys takes what is gone from what loops must visit. *)
LEMMA ResizedShown ==
  ASSUME Visiting, NEW K, NEW S, Resized(K, S)
  PROVE  Visits!Change
  <1>1. /\ TypeOK /\ TypeOK' /\ Keys' = K /\ items \in Seq(Int) /\ Increasing(items)
        /\ K \in SUBSET Int /\ IsFiniteSet(K) /\ items' = Ascending(K)
    BY ResizedLoops, KeyOrder, MapAssumption, LoopAssumption, FS_Subset DEF Visiting, Resized
  <1>2. ToSet(items') = K /\ Increasing(items') /\ items' \in Seq(Element)
    BY <1>1, AscendingOrder DEF TypeOK, LoopTypeOK
  <1>3. items' \in Seq(Int)
    <2>1. items' \in [1 .. Len(items') -> Int] /\ Len(items') \in Nat
      BY <1>2, LenProperties, ElementOfSeq, MapAssumption
    <2> QED
      BY <2>1, SeqDef
  <1>4. \A a, b \in ToSet(items) \cap ToSet(items') :
          Visits!Precedes(items, a, b) => Visits!Precedes(items', a, b)
    BY <1>1, <1>2, <1>3, LessPrecedes
  <1>5. Visits!IsInjective(items')
    <2> DEFINE t == items'
    <2>1. DOMAIN t = 1 .. Len(t) /\ Len(t) \in Nat /\ \A i \in 1 .. Len(t) : t[i] \in Int
      BY <1>3, LenProperties, ElementOfSeq
    <2>2. Increasing(t)
      BY <1>2
    <2> HIDE DEF t
    <2>3. \A i, j \in DOMAIN t : t[i] = t[j] => i = j
      BY <2>1, <2>2 DEF Increasing
    <2> QED
      BY <2>3 DEF Visits!IsInjective, t
  <1>6. ASSUME NEW l \in Loop
        PROVE  /\ Phase(l)' = Phase(l) /\ History(l)' = History(l)
               /\ Due(l)' = Due(l) \cap K
    <2>1. loop[l].phase \in {"idle", "advance", "value", "done"} /\ Seen(l)
      BY <1>1 DEF TypeOK, LoopTypeOK, Visiting, Followed
    <2>2. loop'[l].phase = loop[l].phase
      BY <1>1, ResizedLoops
    <2>3. CASE loop[l].phase = "idle"
      <3>1. loop[l] = Idle /\ loop'[l] = Idle
        BY <1>1, <2>1, <2>3, ResizedLoops DEF Seen
      <3>2. Idle.stayed = {}
        BY DEF Idle
      <3> QED
        BY <3>1, <3>2, NothingLost DEF Phase, Active, Due, History
    <2>4. CASE loop[l].phase = "done"
      <3>1. loop'[l].seen = loop[l].seen /\ loop'[l].stayed = loop[l].stayed
        BY <1>1, <2>4, ResizedLoops
      <3> QED
        BY <2>1, <2>2, <2>4, <3>1, NothingLost DEF Phase, Active, Due, History, Seen
    <2>5. CASE Active(l)
      <3>1. loop'[l].seen = loop[l].seen /\ loop'[l].stayed = loop[l].stayed \cap K
        BY <1>1, <2>5, ResizedLoops DEF Active
      <3> QED
        BY <2>2, <2>5, <3>1, NothingLost DEF Phase, Active, Due, History
    <2> QED
      BY <2>1, <2>3, <2>4, <2>5 DEF Active
  <1>7. /\ [l \in Loop |-> Phase(l)]' = [l \in Loop |-> Phase(l)]
        /\ [l \in Loop |-> History(l)]' = [l \in Loop |-> History(l)]
        /\ [l \in Loop |-> Due(l)]' = [l \in Loop |-> [k \in Loop |-> Due(k)][l] \cap ToSet(items')]
    BY <1>2, <1>6
  <1>8. \A s : Visits!ToSet(s) = ToSet(s)
    BY DEF Visits!ToSet, ToSet
  <1> QED
    BY <1>2, <1>4, <1>5, <1>7, <1>8, MapAssumption DEF Visits!Change

(* Loops over a map visit what stays, in order and once: each step of an   *)
(* iterator is one of Traversal or shows nothing (std.hpp: iterate and     *)
(* iteratorValue of AbstractMapBindings).                                  *)
THEOREM MapImplementsTraversal == Spec => ImplementsTraversal
  <1>1. Init => Visits!Init
    <2> SUFFICES ASSUME Init PROVE Visits!Init
      OBVIOUS
    <2>1. items = <<>> /\ \A l \in Loop : loop[l] = Idle
      BY DEF Init, LoopInit
    <2>2. Idle.phase = "idle" /\ Idle.seen = <<>> /\ Idle.stayed = {}
      BY DEF Idle
    <2>3. \A l \in Loop : Phase(l) = "idle" /\ Due(l) = {} /\ History(l) = <<>>
      BY <2>1, <2>2, NothingLost DEF Phase, Active, Due, History
    <2> QED
      BY <2>1, <2>3 DEF Visits!Init
  <1>2. ASSUME Visiting, [Next]_vars
        PROVE  [Visits!Next]_(Visits!vars)
    <2>1. ASSUME UNCHANGED <<items, loop>>
          PROVE  UNCHANGED Visits!vars
      BY <2>1 DEF Visits!vars, Phase, Due, History, Lost
    <2>2. CASE Next
      <3>1. \/ \E l \in Loop : BeginUntested(l) \/ Advance(l) \/ Value(l)
            \/ \E K, S : Resized(K, S)
            \/ UNCHANGED <<items, loop>>
        BY <1>2, <2>2, Steps DEF Visiting
      <3>2. \/ \E l \in Loop : Visits!Begin(l) \/ Visits!End(l)
                             \/ \E e \in Element : Visits!Visit(l, e)
            \/ Visits!Change
            \/ UNCHANGED Visits!vars
        BY <1>2, <2>1, <3>1, BeginShown, AdvanceShown, ValueShown, ResizedShown
      <3> QED
        BY <3>2 DEF Visits!Next
    <2>3. CASE UNCHANGED vars
      BY <2>1, <2>3 DEF vars, loopVars
    <2> QED
      BY <1>2, <2>2, <2>3
  <1> QED
    BY <1>1, <1>2, AlwaysVisiting, PTL DEF Spec, ImplementsTraversal, Visits!Spec
=============================================================================
