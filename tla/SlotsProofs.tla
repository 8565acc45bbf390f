----------------------------- MODULE SlotsProofs -----------------------------
(***************************************************************************)
(* Theorems on Slots: for parameter lists of any length and containers of  *)
(* any size, no slot is used that was not ensured, but by a container with *)
(* nothing after it; what C++ passes is seen in Wren as it was passed; and *)
(* what Wren passes arrives or is refused as it should be, except in the   *)
(* one place after a native list.                                          *)
(***************************************************************************)
EXTENDS Slots, FiniteSetTheorems, SequenceTheorems, NaturalsInduction, WellFoundedInduction, TLAPS

(* What a slot may hold at any time. *)
Cell == Value \cup Map \cup {RECEIVER, EMPTY}
Board == [0 .. Top -> Cell]

(* The sequences of at most so many values. *)
LEMMA Bounded ==
  ASSUME NEW n \in Nat, NEW S, NEW s
  PROVE  s \in UpTo(n, S) <=> s \in Seq(S) /\ Len(s) <= n
  <1>1. ASSUME s \in UpTo(n, S)
        PROVE  s \in Seq(S) /\ Len(s) <= n
    <2>1. PICK m \in 0 .. n : s \in [1 .. m -> S]
      BY <1>1 DEF UpTo
    <2>2. s \in Seq(S)
      <3>1. \A i \in 1 .. m : s[i] \in S
        BY <2>1
      <3>2. s = [i \in 1 .. m |-> s[i]]
        BY <2>1
      <3>3. [i \in 1 .. m |-> s[i]] \in Seq(S)
        BY <3>1, IsASeq
      <3> QED
        BY <3>2, <3>3
    <2> QED
      BY <2>1, <2>2
  <1>2. ASSUME s \in Seq(S), Len(s) <= n
        PROVE  s \in UpTo(n, S)
    <2>1. s \in [1 .. Len(s) -> S] /\ Len(s) \in 0 .. n
      BY <1>2, LenProperties
    <2> QED
      BY <2>1 DEF UpTo
  <1> QED
    BY <1>1, <1>2

(* A set of places that is not empty has a first one. *)
LEMMA First ==
  ASSUME NEW n \in Nat, NEW T \in SUBSET (1 .. n), T # {}
  PROVE  (CHOOSE i \in T : \A j \in T : i <= j) \in T
  <1> DEFINE R == {p \in Nat \X Nat : p[1] < p[2]}
  <1>0. T \subseteq Nat
    OBVIOUS
  <1>1. IsWellFoundedOn(R, Nat)
    BY NatLessThanWellFounded DEF OpToRel
  <1>2. PICK i \in T : \A j \in T : <<j, i>> \notin R
    <2> HIDE DEF R
    <2> QED
      BY <1>0, <1>1, WFMin
  <1>3. ASSUME NEW j \in T
        PROVE  i <= j
    <2>1. i \in Nat /\ j \in Nat /\ <<j, i>> \notin R
      BY <1>0, <1>2
    <2> QED
      BY <2>1
  <1> QED
    BY <1>3

(* A sequence without repetition is no longer than the values are many.    *)
LEMMA NoRepetition ==
  ASSUME NEW n \in Nat, NEW s \in Seq(1 .. n), \A i, j \in 1 .. Len(s) : i # j => s[i] # s[j]
  PROVE  Len(s) <= n
  <1>1. s \in [1 .. Len(s) -> 1 .. n] /\ Len(s) \in Nat
    BY LenProperties
  <1>2. s \in Injection(1 .. Len(s), 1 .. n)
    BY <1>1 DEF Injection, IsInjective
  <1>3. IsFiniteSet(1 .. n) /\ Cardinality(1 .. n) = n
    BY FS_Interval
  <1>4. Cardinality(1 .. Len(s)) = Len(s)
    <2>1. ASSUME NEW m \in Nat
          PROVE  Cardinality(1 .. m) = m
      BY FS_Interval
    <2> QED
      BY <1>1, <2>1
  <1> QED
    BY <1>2, <1>3, <1>4, FS_Injection
----------------------------------------------------------------------------
(* What C++ passes is a value or a map in Wren.                            *)
LEMMA ShownIsValue ==
  ASSUME NEW k \in Kind \ {"any"}, NEW v \in Passed[k]
  PROVE  Shown(k, v) \in Value \cup Map
  <1>1. CASE k = "vector"
    <2>1. v = [vector |-> v.vector] /\ v.vector \in UpTo(MaxItems, Number)
      BY <1>1 DEF Passed
    <2>2. v.vector \in UpTo(MaxItems, Element)
      BY <2>1, SlotsAssumption, Bounded, SeqMonotonic
    <2>3. [bound |-> v.vector] \in Wrapped /\ [list |-> v.vector] \in List
      BY <2>1, <2>2 DEF Wrapped, List
    <2> QED
      BY <1>1, <2>3 DEF Shown, ShownVector, Value
  <1>2. CASE k = "map"
    <2>1. v.pairs \in UpTo(MaxItems, Text \X Number)
      BY <1>2 DEF Passed
    <2> QED
      BY <1>2, <2>1 DEF Shown, ShownMap, Map
  <1>3. CASE k \notin {"vector", "map"}
    <2>1. Shown(k, v) = v
      BY <1>3 DEF Shown
    <2>2. v \in Basic
      BY <1>3 DEF Passed, Kind, OrNull, Alternative, Basic
    <2> QED
      BY <2>1, <2>2 DEF Value
  <1> QED
    BY <1>1, <1>2, <1>3

(* Pushing a value puts what Wren is to see of it into its slot, and       *)
(* touches no slot before it.                                              *)
LEMMA PushedInPlace ==
  ASSUME NEW sl \in Board, NEW i \in 0 .. MaxArgs, NEW k \in Kind \ {"any"}, NEW v \in Passed[k]
  PROVE  /\ Push(sl, i, k, v) \in Board
         /\ Push(sl, i, k, v)[i] = Shown(k, v)
         /\ \A j \in 0 .. i - 1 : Push(sl, i, k, v)[j] = sl[j]
  <1>1. PICK x : x = Shown(k, v)
    OBVIOUS
  <1>2. x \in Cell
    BY <1>1, ShownIsValue DEF Cell
  <1>3. i \in 0 .. Top /\ i \in Nat /\ Top \in Nat
    BY SlotsAssumption DEF Top
  <1>4. PICK n, o : n = i + 1 /\ o = i + 2
    OBVIOUS
  <1>5. n \in Nat /\ o \in Nat /\ \A j \in 0 .. i : j # n /\ j # o /\ j \in 0 .. Top
    BY <1>3, <1>4, SlotsAssumption DEF Top
  <1>6. PICK s : s = [sl EXCEPT ![i] = x]
    OBVIOUS
  <1>7. s \in Board /\ s[i] = x /\ \A j \in 0 .. i - 1 : s[j] = sl[j]
    BY <1>2, <1>3, <1>6 DEF Board
  <1>8. CASE k = "vector" /\ ~isBound /\ v.vector # <<>>
    <2>1. PICK y : y = v.vector[Len(v.vector)]
      OBVIOUS
    <2>2. Push(sl, i, k, v) = [s EXCEPT ![n] = y]
      BY <1>1, <1>4, <1>6, <1>8, <2>1 DEF Push
    <2>3. y \in Number
      BY <1>8, <2>1, SlotsAssumption, Bounded DEF Passed
    <2>4. y \in Cell
      BY <2>3 DEF Cell, Value, Basic
    <2>5. PICK t : t = [s EXCEPT ![n] = y]
      OBVIOUS
    <2>6. t \in Board /\ \A j \in 0 .. i : t[j] = s[j]
      BY <1>3, <1>5, <1>7, <2>4, <2>5 DEF Board
    <2> QED
      BY <1>1, <1>3, <1>7, <2>2, <2>5, <2>6
  <1>9. CASE k = "map" /\ v.pairs # <<>>
    <2>1. PICK y : y = v.pairs[Len(v.pairs)]
      OBVIOUS
    <2>2. Push(sl, i, k, v) = [s EXCEPT ![n] = y[1], ![o] = y[2]]
      BY <1>1, <1>4, <1>6, <1>9, <2>1 DEF Push
    <2>3. y \in Text \X Number
      BY <1>9, <2>1, SlotsAssumption, Bounded DEF Passed
    <2>4. y[1] \in Cell /\ y[2] \in Cell
      BY <2>3 DEF Cell, Value, Basic
    <2>5. PICK t : t = [s EXCEPT ![n] = y[1]]
      OBVIOUS
    <2>6. t \in Board /\ \A j \in 0 .. i : t[j] = s[j]
      BY <1>3, <1>5, <1>7, <2>4, <2>5 DEF Board
    <2>7. PICK u : u = [t EXCEPT ![o] = y[2]]
      OBVIOUS
    <2>8. u \in Board /\ \A j \in 0 .. i : u[j] = t[j]
      BY <1>3, <1>5, <2>4, <2>6, <2>7 DEF Board
    <2>9. Push(sl, i, k, v) = u
      BY <2>2, <2>5, <2>7
    <2> QED
      BY <1>1, <1>3, <1>7, <2>6, <2>8, <2>9
  <1>10. CASE ~(k = "vector" /\ ~isBound /\ v.vector # <<>>) /\ ~(k = "map" /\ v.pairs # <<>>)
    <2>1. Push(sl, i, k, v) = s
      BY <1>1, <1>6, <1>10 DEF Push
    <2> QED
      BY <1>1, <1>7, <2>1
  <1> QED
    BY <1>8, <1>9, <1>10
----------------------------------------------------------------------------
(* Where a pop has written, if anywhere: into the slot after the one it    *)
(* read from, an element of the native list that is there.                 *)
KeptOrRead(sl, new, i, k) ==
  \/ new = sl
  \/ /\ k = "vector" /\ sl[i] \in List /\ sl[i].list # <<>>
     /\ new \in Board
     /\ \A j \in 0 .. Top : j # i + 1 => new[j] = sl[j]
     /\ new[i + 1] \in Element

(* A vector is popped from a native list of numbers, or from an object of  *)
(* its class, and from nothing else.                                       *)
LEMMA VectorPopped ==
  ASSUME NEW sl \in Board, NEW i \in 0 .. MaxArgs, NEW p, p = PopVector(sl, i)
  PROVE  /\ p.ok \in BOOLEAN
         /\ p.ok <=> Fits("vector", sl[i])
         /\ p.ok => p.value = Converted(sl[i])
         /\ KeptOrRead(sl, p.slots, i, "vector")
  <1>1. Fits("vector", sl[i]) <=> sl[i] \in NumberList \cup Wrapped
    BY DEF Fits
  <1>2. NumberList \subseteq List
    <2>1. ASSUME NEW s \in UpTo(MaxItems, Number)
          PROVE  s \in UpTo(MaxItems, Element)
      BY SlotsAssumption, Bounded, SeqMonotonic
    <2> QED
      BY <2>1 DEF NumberList, List
  <1>3. CASE sl[i] \in Wrapped
    <2>1. p = Good([vector |-> sl[i].bound], sl)
      BY <1>3 DEF PopVector
    <2> QED
      BY <1>1, <1>3, <2>1 DEF Good, Converted, KeptOrRead
  <1>4. CASE sl[i] \notin Wrapped /\ sl[i] \notin List
    <2>1. p = BadCast(sl)
      BY <1>4 DEF PopVector
    <2> QED
      BY <1>1, <1>2, <1>4, <2>1 DEF BadCast, KeptOrRead
  <1>5. CASE sl[i] \notin Wrapped /\ sl[i] \in List
    <2>1. PICK items : items = sl[i].list
      OBVIOUS
    <2>2. sl[i] = [list |-> items] /\ items \in UpTo(MaxItems, Element)
      BY <1>5, <2>1 DEF List
    <2>3. items \in Seq(Element) /\ Len(items) <= MaxItems /\ Len(items) \in Nat
      <3>1. MaxItems \in Nat
        BY SlotsAssumption
      <3>2. items \in Seq(Element) /\ Len(items) <= MaxItems
        BY <2>2, <3>1, Bounded
      <3> QED
        BY <3>2, LenProperties
    <2>4. PICK bad : bad = {n \in 1 .. Len(items) : items[n] \notin Number}
      OBVIOUS
    <2>5. Converted(sl[i]) = [vector |-> items]
      BY <1>5, <2>1 DEF Converted
    <2>6. sl[i] \in NumberList <=> items \in UpTo(MaxItems, Number)
      BY <2>2 DEF NumberList
    <2>7. items \in Seq(Number) <=> bad = {}
      <3>1. ASSUME items \in Seq(Number)
            PROVE  bad = {}
        BY <2>4, <3>1
      <3>2. ASSUME bad = {}
            PROVE  items \in Seq(Number)
        <4>1. \A n \in 1 .. Len(items) : items[n] \in Number
          BY <2>4, <3>2
        <4>2. [n \in 1 .. Len(items) |-> items[n]] \in Seq(Number)
          BY <2>3, <4>1, IsASeq
        <4>3. items = [n \in 1 .. Len(items) |-> items[n]]
          BY <2>3, LenProperties
        <4> QED
          BY <4>2, <4>3
      <3> QED
        BY <3>1, <3>2
    <2>8. items \in UpTo(MaxItems, Number) <=> bad = {}
      BY <2>3, <2>7, SlotsAssumption, Bounded
    <2>9. Fits("vector", sl[i]) <=> bad = {}
      BY <1>1, <1>5, <2>6, <2>8
    <2>10. ASSUME NEW n \in 1 .. Len(items), items # <<>>, NEW new,
                  new = [sl EXCEPT ![i + 1] = items[n]]
           PROVE  KeptOrRead(sl, new, i, "vector")
      <3>1. PICK o, x : o = i + 1 /\ x = items[n]
        OBVIOUS
      <3>2. o \in 0 .. Top /\ x \in Element
        BY <2>3, <3>1, SlotsAssumption, ElementOfSeq DEF Top
      <3>3. x \in Cell
        BY <3>2, SlotsAssumption DEF Cell, Value
      <3>4. new = [sl EXCEPT ![o] = x]
        BY <2>10, <3>1
      <3>5. new \in Board /\ new[o] = x /\ \A j \in 0 .. Top : j # o => new[j] = sl[j]
        BY <3>2, <3>3, <3>4 DEF Board
      <3> QED
        BY <1>5, <2>1, <2>10, <3>1, <3>2, <3>5 DEF KeptOrRead
    <2>11. CASE items = <<>>
      <3>1. p = Good([vector |-> items], sl)
        BY <1>5, <2>1, <2>11 DEF PopVector
      <3>2. bad = {}
        BY <2>4, <2>11
      <3> QED
        BY <2>5, <2>9, <3>1, <3>2 DEF Good, KeptOrRead
    <2>12. CASE items # <<>> /\ bad = {}
      <3>1. p = Good([vector |-> items], [sl EXCEPT ![i + 1] = items[Len(items)]])
        BY <1>5, <2>1, <2>4, <2>12 DEF PopVector
      <3>2. Len(items) \in 1 .. Len(items)
        BY <2>3, <2>12, EmptySeq
      <3>3. p.ok = TRUE /\ p.value = [vector |-> items]
        BY <3>1 DEF Good
      <3>4. p.slots = [sl EXCEPT ![i + 1] = items[Len(items)]]
        BY <3>1 DEF Good
      <3>5. KeptOrRead(sl, p.slots, i, "vector")
        BY <2>10, <2>12, <3>2, <3>4
      <3> QED
        BY <2>5, <2>9, <2>12, <3>3, <3>5
    <2>13. CASE items # <<>> /\ bad # {}
      <3>1. PICK n : n = CHOOSE x \in bad : \A m \in bad : x <= m
        OBVIOUS
      <3>2. n \in 1 .. Len(items)
        <4>1. bad \in SUBSET (1 .. Len(items))
          BY <2>4
        <4>2. (CHOOSE x \in bad : \A m \in bad : x <= m) \in bad
          BY <2>3, <2>13, <4>1, First
        <4> QED
          BY <3>1, <4>1, <4>2
      <3>3. p = BadCast([sl EXCEPT ![i + 1] = items[n]])
        BY <1>5, <2>1, <2>4, <2>13, <3>1 DEF PopVector
      <3>4. p.ok = FALSE
        BY <3>3 DEF BadCast
      <3>5. p.slots = [sl EXCEPT ![i + 1] = items[n]]
        BY <3>3 DEF BadCast
      <3>6. KeptOrRead(sl, p.slots, i, "vector")
        BY <2>10, <2>13, <3>2, <3>5
      <3> QED
        BY <2>9, <2>13, <3>4, <3>6
    <2> QED
      BY <2>11, <2>12, <2>13
  <1> QED
    BY <1>3, <1>4, <1>5

(* A value is popped as a type if it fits, and as what it is in C++.       *)
LEMMA PoppedRight ==
  ASSUME NEW sl \in Board, NEW i \in 0 .. MaxArgs, NEW k \in Kind, sl[0] # NULL,
         NEW p, p = Pop(sl, i, k)
  PROVE  /\ p.ok \in BOOLEAN
         /\ p.ok <=> Fits(k, sl[i])
         /\ p.ok /\ k # "any" => p.value = Converted(sl[i])
         /\ k = "any" => p.value = [holds |-> sl[i], type |-> TypeOf(sl[0])]
         /\ KeptOrRead(sl, p.slots, i, k)
  <1>1. CASE k = "vector"
    <2>1. p = PopVector(sl, i)
      BY <1>1 DEF Pop
    <2> QED
      BY <1>1, <2>1, VectorPopped
  <1>2. CASE k = "any"
    <2>1. p = Good([holds |-> sl[i], type |-> TypeOf(sl[0])], sl)
      BY <1>2 DEF Pop, PopAny
    <2>2. Fits(k, sl[i])
      BY <1>2 DEF Fits
    <2>3. p.ok = TRUE
      BY <2>1 DEF Good
    <2>4. p.value = [holds |-> sl[i], type |-> TypeOf(sl[0])]
      BY <2>1 DEF Good
    <2>5. p.slots = sl
      BY <2>1 DEF Good
    <2>6. KeptOrRead(sl, p.slots, i, k)
      BY <2>5 DEF KeptOrRead
    <2> QED
      BY <1>2, <2>2, <2>3, <2>4, <2>6
  <1>3. CASE k \notin {"vector", "any"}
    <2>1. p = IF Fits(k, sl[i]) THEN Good(sl[i], sl) ELSE BadCast(sl)
      BY <1>3 DEF Pop
    <2>2. Fits(k, sl[i]) => sl[i] \in Basic
      BY <1>3 DEF Fits, Kind, OrNull, Alternative, Basic
    <2>3. Fits(k, sl[i]) => Converted(sl[i]) = sl[i]
      BY <2>2, SlotsAssumption DEF Converted
    <2> QED
      BY <1>3, <2>1, <2>3 DEF Good, BadCast, KeptOrRead
  <1> QED
    BY <1>1, <1>2, <1>3
----------------------------------------------------------------------------
(* Nothing is in progress between calls, and nothing of a call into Wren   *)
(* has been popped.                                                        *)
Phases ==
  /\ way \in {"idle", "push", "run", "pop", "body", "over", "undefined"}
  /\ way \in {"idle", "push", "run"} => outcome = NoOutcome
  /\ way = "idle" => kinds = <<>> /\ args = <<>> /\ done = <<>>
  /\ way \in {"idle", "push", "run"} => got = <<>>

Parameters ==
  /\ kinds \in Signature \cup {<<>>}
  /\ DOMAIN args = 1 .. Len(args) /\ Len(args) = Len(kinds)

(* No argument is passed twice, and C++ passes them from left to right.    *)
Order ==
  /\ done \in Seq(Params)
  /\ \A m, n \in 1 .. Len(done) : m # n => done[m] # done[n]
  /\ way = "push" => \A n \in 1 .. Len(done) : done[n] = n

(* What was pushed is in its slot, and stays there until Wren runs.        *)
Seen ==
  /\ way = "push" =>
       /\ \A i \in Params : kinds[i] \in Kind \ {"any"} /\ args[i] \in Passed[kinds[i]]
       /\ \A i \in 1 .. Len(done) : slots[i] = Shown(kinds[i], args[i])
  /\ ArgumentsSeen

(* The argument before i was read through the slot of i. *)
Loses(i) ==
  /\ i > 1 /\ i - 1 \in Items(done) /\ kinds[i - 1] = "vector"
  /\ args[i - 1] \in List /\ args[i - 1].list # <<>>

(* What is still to be popped is in its slot, or an element of the list    *)
(* before it is.                                                           *)
Waiting ==
  way = "pop" =>
    /\ slots[0] = RECEIVER
    /\ \A i \in Params : args[i] \in Value
    /\ \A i \in Params \ Items(done) :
         slots[i] = args[i] \/ (Loses(i) /\ slots[i] \in Element)

Arriving ==
  /\ DOMAIN got \subseteq Params /\ \A i \in DOMAIN got : got[i] \in Popped
  /\ OthersArrive
  /\ RefusedRightly

(* A result of type null is a null, and no other is. *)
Asked ==
  /\ result \in AnyObject
  /\ result.type = "null" <=> result.holds = NULL
  /\ ResultConverted

(* The slots of the receiver and of all arguments were asked for. *)
Ensured ==
  /\ ensured \in Nat
  /\ way \notin {"idle", "undefined"} => ensured >= Len(args) + 1
  /\ OnlyLastPast

Passing ==
  /\ Phases /\ Parameters /\ Order /\ slots \in Board /\ Ensured
  /\ Seen /\ Waiting /\ Arriving /\ Asked

(* A function on the numbers up to n is a sequence of n values. *)
LEMMA Listing ==
  ASSUME NEW n \in Nat, NEW S, NEW f \in [1 .. n -> S]
  PROVE  f \in Seq(S) /\ Len(f) = n
  <1>1. \A i \in 1 .. n : f[i] \in S
    OBVIOUS
  <1>2. [i \in 1 .. n |-> f[i]] \in Seq(S)
    BY <1>1, IsASeq
  <1>3. f = [i \in 1 .. n |-> f[i]]
    OBVIOUS
  <1> QED
    BY <1>2, <1>3

(* The parameters of a call have types, and there are not too many.        *)
LEMMA Sizes ==
  ASSUME Parameters
  PROVE  /\ Len(args) \in Nat /\ Len(args) <= MaxArgs
         /\ \A i \in Params : kinds[i] \in Kind
         /\ \A i \in Params : i \in 1 .. MaxArgs
  <1>1. kinds \in Seq(Kind) /\ Len(kinds) <= MaxArgs
    <2>1. CASE kinds \in Signature
      BY <2>1, SlotsAssumption, Bounded
    <2>2. CASE kinds = <<>>
      BY <2>2, SlotsAssumption, EmptySeq
    <2> QED
      BY <2>1, <2>2 DEF Parameters
  <1>2. Len(args) = Len(kinds) /\ Len(kinds) \in Nat
    BY <1>1, LenProperties DEF Parameters
  <1>3. \A i \in 1 .. Len(kinds) : kinds[i] \in Kind
    BY <1>1, ElementOfSeq
  <1> QED
    BY <1>1, <1>2, <1>3, SlotsAssumption DEF Params

(* Everything is in order, and nothing is passed, before the first call.   *)
LEMMA PassingInit == Init => Passing
  <1> SUFFICES ASSUME Init
               PROVE  Passing
    OBVIOUS
  <1>1. Len(<<>>) = 0 /\ DOMAIN <<>> = {} /\ <<>> \in Seq(Params)
    OBVIOUS
  <1>2. Phases /\ Parameters /\ Order
    BY <1>1 DEF Init, Phases, Parameters, Order
  <1>3. slots \in Board /\ Ensured
    BY DEF Init, Blank, Board, Cell, Ensured, OnlyLastPast
  <1>4. Seen /\ Waiting
    BY DEF Init, Seen, ArgumentsSeen, Waiting
  <1>5. Arriving
    BY <1>1 DEF Init, Arriving, OthersArrive, RefusedRightly, NoOutcome
  <1>6. Asked
    <2>1. NULL \in Value
      BY DEF Value, Basic
    <2>2. NoAny \in AnyObject
      BY <2>1 DEF NoAny, AnyObject
    <2> QED
      BY <2>2 DEF Init, Asked, ResultConverted, NoAny, NoOutcome
  <1> QED
    BY <1>2, <1>3, <1>4, <1>5, <1>6 DEF Passing

(* No slot is taken back by asking for more. *)
LEMMA GrownEnough ==
  ASSUME NEW n \in Nat, NEW i \in Nat, NEW k
  PROVE  Grown(n, i, k) \in Nat /\ Grown(n, i, k) >= n /\ (k = "map" => Grown(n, i, k) >= 3)
  BY DEF Grown

(* The result of the last call stays what it is while nobody asks for it.  *)
LEMMA NotAsked ==
  ASSUME Asked, result' = result, outcome' = outcome \/ outcome'.op # "as"
  PROVE  Asked'
  BY DEF Asked, ResultConverted

(* A call of C++ into Wren begins. *)
LEMMA CallStep ==
  ASSUME Passing, CallAny
  PROVE  Passing'
  <1>0. PICK ks \in Signature : \E vs :
          /\ "any" \notin Items(ks)
          /\ DOMAIN vs = DOMAIN ks
          /\ \A i \in DOMAIN ks : vs[i] \in Passed[ks[i]]
          /\ vs = [i \in DOMAIN ks |-> vs[i]]
          /\ Call(ks, vs)
    BY DEF CallAny
  <1>1. PICK vs :
          /\ "any" \notin Items(ks)
          /\ DOMAIN vs = DOMAIN ks
          /\ \A i \in DOMAIN ks : vs[i] \in Passed[ks[i]]
          /\ vs = [i \in DOMAIN ks |-> vs[i]]
          /\ Call(ks, vs)
    BY <1>0
  <1>2. ks \in Seq(Kind) /\ Len(ks) <= MaxArgs
    BY SlotsAssumption, Bounded
  <1>3. DOMAIN ks = 1 .. Len(ks) /\ Len(ks) \in Nat /\ \A i \in 1 .. Len(ks) : ks[i] \in Kind
    BY <1>2, LenProperties, ElementOfSeq
  <1>4. Len(vs) = Len(ks)
    <2>1. vs \in [1 .. Len(ks) -> {vs[i] : i \in 1 .. Len(ks)}]
      BY <1>1, <1>3
    <2> QED
      BY <1>3, <2>1, Listing
  <1>5. /\ way' = IF vs = <<>> THEN "run" ELSE "push"
        /\ kinds' = ks /\ args' = vs
        /\ slots' = [Blank EXCEPT ![0] = RECEIVER] /\ ensured' = Len(vs) + 1
        /\ UNCHANGED <<done, got, result, isBound, outcome>>
    BY <1>1 DEF Call, Begin
  <1>6. way = "idle" /\ done' = <<>> /\ got' = <<>> /\ outcome' = NoOutcome
    BY <1>5 DEF CallAny, Passing, Phases
  <1>7. Phases'
    BY <1>5, <1>6 DEF Phases
  <1>8. Parameters'
    BY <1>1, <1>3, <1>4, <1>5 DEF Parameters
  <1>9. Order'
    BY <1>6 DEF Order
  <1>10. slots' \in Board /\ Ensured'
    <2>1. slots' \in Board
      BY <1>5 DEF Blank, Board, Cell
    <2>2. Ensured'
      BY <1>3, <1>4, <1>5 DEF Ensured, OnlyLastPast
    <2> QED
      BY <2>1, <2>2
  <1>11. Seen'
    <2>1. ASSUME NEW i \in 1 .. Len(vs)
          PROVE  ks[i] \in Kind \ {"any"} /\ vs[i] \in Passed[ks[i]]
      BY <1>1, <1>3, <1>4, <2>1 DEF Items
    <2>2. Params' = 1 .. Len(vs)
      BY <1>5 DEF Params
    <2>3. ArgumentsSeen'
      <3>1. way' = "run" => Len(vs) = 0
        BY <1>5, EmptySeq
      <3> QED
        BY <2>2, <3>1 DEF ArgumentsSeen
    <2> QED
      BY <1>5, <1>6, <2>1, <2>2, <2>3 DEF Seen
  <1>12. Waiting'
    BY <1>5 DEF Waiting
  <1>13. Arriving'
    BY <1>6 DEF Arriving, OthersArrive, RefusedRightly, NoOutcome
  <1>14. Asked'
    BY <1>5, NotAsked DEF Passing
  <1> QED
    BY <1>7, <1>8, <1>9, <1>10, <1>11, <1>12, <1>13, <1>14 DEF Passing

(* A call of Wren into C++ begins. *)
LEMMA InvokeStep ==
  ASSUME Passing, InvokeAny
  PROVE  Passing'
  <1>1. PICK ks \in Signature : \E vs \in [DOMAIN ks -> Available] : Invoke(ks, vs)
    BY DEF InvokeAny
  <1>2. ks \in Seq(Kind) /\ Len(ks) <= MaxArgs
    BY SlotsAssumption, Bounded
  <1>3. DOMAIN ks = 1 .. Len(ks) /\ Len(ks) \in Nat /\ Len(ks) <= Top /\ Top \in Nat
    BY <1>2, SlotsAssumption, LenProperties DEF Top
  <1>4. PICK vs \in [1 .. Len(ks) -> Value] : Invoke(ks, vs)
    <2>1. Available \subseteq Value
      BY DEF Available
    <2> QED
      BY <1>1, <1>3, <2>1
  <1>5. vs \in Seq(Value) /\ Len(vs) = Len(ks)
    BY <1>3, Listing
  <1>6. /\ way' = IF vs = <<>> THEN "body" ELSE "pop"
        /\ kinds' = ks /\ args' = vs
        /\ slots' = [i \in 0 .. Top |->
                      IF i = 0 THEN RECEIVER ELSE IF i \in DOMAIN vs THEN vs[i] ELSE EMPTY]
        /\ ensured' = Len(vs) + 1
        /\ UNCHANGED <<done, got, result, isBound, outcome>>
    BY <1>4 DEF Invoke, Begin
  <1>7. way = "idle" /\ done' = <<>> /\ got' = <<>> /\ outcome' = NoOutcome
    BY <1>6 DEF InvokeAny, Passing, Phases
  <1>8. Phases'
    BY <1>6, <1>7 DEF Phases
  <1>9. Parameters'
    BY <1>4, <1>5, <1>6 DEF Parameters
  <1>10. Order'
    BY <1>6, <1>7 DEF Order
  <1>11. slots' \in Board /\ Ensured'
    BY <1>3, <1>4, <1>5, <1>6 DEF Board, Cell, Ensured, OnlyLastPast
  <1>12. Seen'
    BY <1>6 DEF Seen, ArgumentsSeen
  <1>13. Waiting'
    <2>1. slots'[0] = RECEIVER
      BY <1>3, <1>6
    <2>2. ASSUME NEW i \in 1 .. Len(vs)
          PROVE  vs[i] \in Value /\ slots'[i] = vs[i]
      BY <1>3, <1>4, <1>5, <1>6, <2>2
    <2>3. Params' = 1 .. Len(vs)
      BY <1>6 DEF Params
    <2> QED
      BY <1>6, <2>1, <2>2, <2>3 DEF Waiting
  <1>14. Arriving'
    BY <1>7 DEF Arriving, OthersArrive, RefusedRightly, NoOutcome
  <1>15. Asked'
    BY <1>6, NotAsked DEF Passing
  <1> QED
    BY <1>8, <1>9, <1>10, <1>11, <1>12, <1>13, <1>14, <1>15 DEF Passing

(* C++ pushes the next argument. *)
LEMMA PushStep ==
  ASSUME Passing, PushArgument
  PROVE  Passing'
  <1>1. PICK n : n = Len(done) + 1
    OBVIOUS
  <1>2. /\ way = "push" /\ n <= Len(args)
        /\ slots' = Push(slots, n, kinds[n], args[n])
        /\ done' = Append(done, n)
        /\ ensured' = Grown(ensured, n, kinds[n])
        /\ way' = IF n = Len(args) THEN "run" ELSE way
        /\ UNCHANGED <<kinds, args, got, result, isBound, outcome>>
    BY <1>1 DEF PushArgument
  <1>3. /\ done \in Seq(1 .. Len(args)) /\ Len(done) \in Nat
        /\ \A j \in 1 .. Len(done) : done[j] = j
    BY <1>2, LenProperties DEF Passing, Order, Params
  <1>4. /\ Len(args) \in Nat /\ Len(args) <= MaxArgs /\ MaxArgs \in Nat
        /\ n \in 1 .. Len(args) /\ n \in 0 .. MaxArgs
    BY <1>1, <1>2, <1>3, Sizes, SlotsAssumption DEF Passing
  <1>5. kinds[n] \in Kind \ {"any"} /\ args[n] \in Passed[kinds[n]]
    BY <1>2, <1>4 DEF Passing, Seen, Params
  <1>6. /\ slots' \in Board
        /\ slots'[n] = Shown(kinds[n], args[n])
        /\ \A j \in 0 .. n - 1 : slots'[j] = slots[j]
    BY <1>2, <1>4, <1>5, PushedInPlace DEF Passing
  <1>7. /\ done' \in Seq(1 .. Len(args)) /\ Len(done') = n
        /\ \A j \in 1 .. n : done'[j] = j
    BY <1>1, <1>2, <1>3, <1>4
  <1>8. Params' = Params /\ Params = 1 .. Len(args)
    BY <1>2 DEF Params
  <1>9. Phases'
    BY <1>2 DEF Passing, Phases
  <1>10. Parameters'
    BY <1>2 DEF Passing, Parameters
  <1>11. Order'
    BY <1>7, <1>8 DEF Order
  <1>12. \A j \in 1 .. n : slots'[j] = Shown(kinds[j], args[j])
    <2>1. ASSUME NEW j \in 1 .. n, j # n
          PROVE  slots'[j] = Shown(kinds[j], args[j])
      <3>1. j \in 1 .. Len(done) /\ j \in 0 .. n - 1
        BY <1>1, <1>3, <1>4, <2>1
      <3> QED
        BY <1>2, <1>6, <3>1 DEF Passing, Seen
    <2> QED
      BY <1>6, <2>1
  <1>13. \A k, v : Shown(k, v)' = Shown(k, v)
    BY <1>2 DEF Shown, ShownVector, ShownMap
  <1>14. Seen'
    <2>1. way' = "run" => n = Len(args)
      BY <1>2
    <2>2. ArgumentsSeen'
      BY <1>2, <1>8, <1>12, <2>1 DEF ArgumentsSeen, Shown, ShownVector, ShownMap
    <2>3. ASSUME way' = "push"
          PROVE  /\ \A i \in Params : kinds[i] \in Kind \ {"any"} /\ args[i] \in Passed[kinds[i]]
                 /\ \A i \in 1 .. Len(done') : slots'[i] = Shown(kinds[i], args[i])
      BY <1>2, <1>7, <1>12 DEF Passing, Seen
    <2> QED
      BY <1>2, <1>8, <2>2, <2>3 DEF Seen, Shown, ShownVector, ShownMap
  <1>15. Waiting'
    BY <1>2 DEF Waiting
  <1>16. Arriving'
    <2>1. got' = <<>> /\ outcome' = NoOutcome
      BY <1>2 DEF Passing, Phases
    <2> QED
      BY <2>1 DEF Arriving, OthersArrive, RefusedRightly, NoOutcome
  <1>17. Asked'
    BY <1>2, NotAsked DEF Passing
  <1>18. Ensured'
    <2>1. ensured \in Nat /\ ensured >= Len(args) + 1
      BY <1>2 DEF Passing, Ensured
    <2>2. ensured' \in Nat /\ ensured' >= ensured
      BY <1>2, <1>4, <2>1, GrownEnough
    <2>3. ensured' >= Len(args) + 1
      BY <1>4, <2>1, <2>2
    <2> QED
      BY <1>2, <2>2, <2>3 DEF Ensured, OnlyLastPast
  <1> QED
    BY <1>6, <1>9, <1>10, <1>11, <1>14, <1>15, <1>16, <1>17, <1>18 DEF Passing

(* A call has ended, with something in slot 0. *)
LEMMA EndStep ==
  ASSUME Passing, NEW v \in Cell, End(v), outcome'.op # "pop", Asked'
  PROVE  Passing'
  <1>1. /\ way' = "over" /\ slots' = [Blank EXCEPT ![0] = v] /\ ensured' = 1
        /\ kinds' = <<>> /\ args' = <<>> /\ done' = <<>> /\ got' = <<>>
    BY DEF End
  <1>2. Phases' /\ Parameters' /\ Order'
    BY <1>1 DEF Phases, Parameters, Order
  <1>3. slots' \in Board
    BY <1>1 DEF Blank, Board, Cell
  <1>4. Seen' /\ Waiting'
    BY <1>1 DEF Seen, ArgumentsSeen, Waiting
  <1>5. Arriving'
    BY <1>1 DEF Arriving, OthersArrive, RefusedRightly
  <1>6. Ensured'
    BY <1>1 DEF Ensured, OnlyLastPast
  <1> QED
    BY <1>2, <1>3, <1>4, <1>5, <1>6 DEF Passing

(* A Wren value is null if its type is. *)
LEMMA TypeOfValue ==
  ASSUME NEW v \in Value, v # NULL
  PROVE  TypeOf(v) \in {"receiver", "number", "text", "object", "list"}
  BY DEF TypeOf, Value, Basic

(* A call of C++ into Wren ends. *)
LEMMA FinishStep ==
  ASSUME Passing, NEW v \in Available, Finish(v)
  PROVE  Passing'
  <1>1. v \in Value
    BY DEF Available
  <1>2. v \in Cell
    BY <1>1 DEF Cell
  <1>3. End(v) /\ result' = PopAny(slots', 0).value /\ outcome' = [NoOutcome EXCEPT !.op = "call"]
    BY DEF Finish
  <1>4. slots'[0] = v
    <2>1. 0 \in 0 .. Top
      BY SlotsAssumption DEF Top
    <2> QED
      BY <1>3, <2>1 DEF End, Blank
  <1>5. outcome'.op = "call"
    BY <1>3 DEF NoOutcome
  <1>6. result' \in AnyObject /\ (result'.type = "null" <=> result'.holds = NULL)
    <2>1. CASE v = NULL
      <3>1. result' = NoAny
        BY <1>3, <1>4, <2>1 DEF PopAny, Good
      <3> QED
        BY <1>1, <2>1, <3>1 DEF NoAny, AnyObject
    <2>2. CASE v # NULL
      <3>1. result' = [holds |-> v, type |-> TypeOf(v)]
        BY <1>3, <1>4, <2>2 DEF PopAny, Good
      <3> QED
        BY <1>1, <2>2, <3>1, TypeOfValue DEF AnyObject
    <2> QED
      BY <2>1, <2>2
  <1>7. Asked'
    BY <1>5, <1>6 DEF Asked, ResultConverted
  <1> QED
    BY <1>2, <1>3, <1>5, <1>7, EndStep

(* A call of Wren into C++ ends, with a value. *)
LEMMA ReturnStep ==
  ASSUME Passing, NEW k \in Kind \ {"any"}, NEW v \in Passed[k], Return(k, v)
  PROVE  Passing'
  <1>1. PICK w : w = Push(slots, 0, k, v)[0]
    OBVIOUS
  <1>2. w \in Cell
    <2>1. 0 \in 0 .. MaxArgs /\ slots \in Board
      BY SlotsAssumption DEF Passing
    <2>2. w = Shown(k, v)
      BY <1>1, <2>1, PushedInPlace
    <2> QED
      BY <2>2, ShownIsValue DEF Cell
  <1>3. End(w) /\ outcome'.op = "return" /\ result' = result
    BY <1>1 DEF Return
  <1>4. Asked'
    BY <1>3, NotAsked DEF Passing
  <1> QED
    BY <1>2, <1>3, <1>4, EndStep

(* Or it ends without one. *)
LEMMA ReturnNothingStep ==
  ASSUME Passing, ReturnNothing
  PROVE  Passing'
  <1>1. slots[0] \in Cell
    <2>1. 0 \in 0 .. Top
      BY SlotsAssumption DEF Top
    <2> QED
      BY <2>1 DEF Passing, Board
  <1>2. End(slots[0]) /\ outcome'.op = "return" /\ result' = result
    BY DEF ReturnNothing, NoOutcome
  <1>3. Asked'
    BY <1>2, NotAsked DEF Passing
  <1> QED
    BY <1>1, <1>2, <1>3, EndStep

(* Nothing is left of a call but, it may be, its result. *)
LEMMA LeaveStep ==
  ASSUME Passing, Leave
  PROVE  Passing'
  <1>1. /\ way' = "idle" /\ kinds' = <<>> /\ args' = <<>> /\ slots' = Blank
        /\ ensured' = 0 /\ done' = <<>> /\ got' = <<>>
        /\ result' = NoAny \/ result' = result
        /\ outcome' = NoOutcome
    BY DEF Leave
  <1>2. Phases' /\ Parameters' /\ Order'
    BY <1>1 DEF Phases, Parameters, Order
  <1>3. slots' \in Board /\ Ensured'
    BY <1>1 DEF Blank, Board, Cell, Ensured, OnlyLastPast
  <1>4. Seen' /\ Waiting'
    BY <1>1 DEF Seen, ArgumentsSeen, Waiting
  <1>5. Arriving'
    BY <1>1 DEF Arriving, OthersArrive, RefusedRightly, NoOutcome
  <1>6. Asked'
    <2>1. NULL \in Value
      BY DEF Value, Basic
    <2>2. NoAny \in AnyObject
      BY <2>1 DEF NoAny, AnyObject
    <2>3. outcome'.op # "as"
      BY <1>1 DEF NoOutcome
    <2>4. CASE result' = NoAny
      BY <2>2, <2>3, <2>4 DEF Asked, ResultConverted, NoAny
    <2>5. CASE result' = result
      BY <2>3, <2>5, NotAsked DEF Passing
    <2> QED
      BY <1>1, <2>4, <2>5
  <1> QED
    BY <1>2, <1>3, <1>4, <1>5, <1>6 DEF Passing

(* C++ asks for the result of a call as some type, after it or later, in a *)
(* function that Wren calls.                                               *)
LEMMA AsStep ==
  ASSUME Passing, NEW k \in Kind \ {"map"}, As(k)
  PROVE  Passing'
  <1>1. /\ way \in {"body", "over"}
        /\ UNCHANGED <<way, kinds, args, ensured, done, got, result, isBound>>
    BY DEF As, InHand
  <1>2. slots' \in Board /\ outcome'.op = "as" /\ ResultConverted'
    <2>1. CASE result.type = "null"
      <3>1. slots' = slots /\ outcome' = [op |-> "as", kind |-> k, ok |-> FALSE, value |-> NULL]
        BY <2>1 DEF As
      <3>2. outcome'.op = "as" /\ result'.holds = NULL
        BY <1>1, <2>1, <3>1 DEF Passing, Asked
      <3> QED
        BY <3>1, <3>2 DEF Passing, ResultConverted
    <2>2. CASE result.type # "null"
      <3>1. PICK v : v = result.holds
        OBVIOUS
      <3>2. v \in Value /\ v # NULL
        BY <2>2, <3>1 DEF Passing, Asked, AnyObject
      <3>3. PICK sl : sl = [slots EXCEPT ![0] = v]
        OBVIOUS
      <3>4. PICK p : p = Pop(sl, 0, k)
        OBVIOUS
      <3>5. /\ slots' = p.slots
            /\ outcome' = [op |-> "as", kind |-> k, ok |-> p.ok, value |-> p.value]
        BY <2>2, <3>1, <3>3, <3>4 DEF As
      <3>6. 0 \in 0 .. MaxArgs /\ 0 \in 0 .. Top
        BY SlotsAssumption DEF Top
      <3>7. sl \in Board /\ sl[0] = v
        BY <3>2, <3>3, <3>6 DEF Passing, Board, Cell
      <3>8. /\ p.ok \in BOOLEAN
            /\ p.ok <=> Fits(k, v)
            /\ p.ok /\ k # "any" => p.value = Converted(v)
            /\ KeptOrRead(sl, p.slots, 0, k)
        BY <3>2, <3>4, <3>6, <3>7, PoppedRight
      <3>9. slots' \in Board
        BY <3>5, <3>7, <3>8 DEF KeptOrRead
      <3>10. /\ outcome'.op = "as" /\ outcome'.kind = k
             /\ outcome'.ok = p.ok /\ outcome'.value = p.value /\ result'.holds = v
        BY <1>1, <3>1, <3>5
      <3> QED
        BY <3>2, <3>8, <3>9, <3>10 DEF ResultConverted
    <2> QED
      BY <2>1, <2>2
  <1>3. Phases' /\ Parameters' /\ Order' /\ Ensured'
    BY <1>1 DEF Passing, Phases, Parameters, Order, Params, Ensured, OnlyLastPast
  <1>4. Seen' /\ Waiting'
    BY <1>1 DEF Seen, ArgumentsSeen, Waiting
  <1>5. Arriving'
    BY <1>1, <1>2 DEF Passing, Arriving, OthersArrive, RefusedRightly, Params, Arrived, Overwritten
  <1>6. Asked'
    BY <1>1, <1>2 DEF Passing, Asked
  <1> QED
    BY <1>2, <1>3, <1>4, <1>5, <1>6 DEF Passing

(* What fits a type becomes a C++ value. *)
LEMMA FitIsPopped ==
  ASSUME NEW k \in Kind \ {"any"}, NEW v \in Value, Fits(k, v)
  PROVE  Converted(v) \in Popped
  <1>1. CASE k = "vector"
    <2>1. v \in NumberList \cup Wrapped
      BY <1>1 DEF Fits
    <2>2. CASE v \in Wrapped
      <3>1. Converted(v) = [vector |-> v.bound] /\ v.bound \in UpTo(MaxItems, Number)
        BY <2>2 DEF Converted, Wrapped
      <3> QED
        BY <3>1 DEF Popped, Passed
    <2>3. CASE v \in NumberList /\ v \notin Wrapped
      <3>1. v.list \in UpTo(MaxItems, Number) /\ v = [list |-> v.list]
        BY <2>3 DEF NumberList
      <3>2. v.list \in UpTo(MaxItems, Element)
        BY <3>1, SlotsAssumption, Bounded, SeqMonotonic
      <3>3. v \in List
        BY <3>1, <3>2 DEF List
      <3>4. Converted(v) = [vector |-> v.list]
        BY <2>3, <3>3 DEF Converted
      <3> QED
        BY <3>1, <3>4 DEF Popped, Passed
    <2> QED
      BY <2>1, <2>2, <2>3
  <1>2. CASE k # "vector"
    <2>1. v \in Basic
      BY <1>2 DEF Fits, Kind, OrNull, Alternative, Basic
    <2>2. Converted(v) = v
      BY <2>1, SlotsAssumption DEF Converted
    <2> QED
      BY <2>1, <2>2 DEF Popped
  <1> QED
    BY <1>1, <1>2

(* C++ pops an argument, in any order.  Only the argument after a native   *)
(* list that was popped can be another than was passed.                    *)
LEMMA PopStep ==
  ASSUME Passing, NEW i \in Params, PopArgument(i)
  PROVE  Passing'
  <1>1. PICK p, k : p = Pop(slots, i, kinds[i]) /\ k = kinds[i]
    OBVIOUS
  <1>2. /\ way = "pop" /\ i \in Params \ Items(done)
        /\ slots' = p.slots
        /\ done' = Append(done, i)
        /\ got' = IF p.ok
                  THEN [j \in DOMAIN got \cup {i} |-> IF j = i THEN p.value ELSE got[j]]
                  ELSE got
        /\ way' = IF ~p.ok THEN "over" ELSE IF Len(done') = Len(args) THEN "body" ELSE way
        /\ outcome' = [op |-> "pop", kind |-> k, ok |-> p.ok, value |-> p.value]
        /\ UNCHANGED <<kinds, args, ensured, result, isBound>>
    BY <1>1 DEF PopArgument
  <1>3. Params = 1 .. Len(args) /\ Params' = Params
    BY <1>2 DEF Params
  <1>4. /\ Len(args) \in Nat /\ Len(args) <= MaxArgs /\ MaxArgs \in Nat
        /\ i \in 1 .. Len(args) /\ i \in 0 .. MaxArgs /\ k \in Kind
    BY <1>1, <1>3, Sizes, SlotsAssumption DEF Passing
  <1>5. PICK last : last = Len(done)
    OBVIOUS
  <1>6. done \in Seq(Params) /\ last \in Nat /\ \A m \in 1 .. last : done[m] \in Params
    BY <1>5, LenProperties DEF Passing, Order
  <1>7. /\ done' \in Seq(Params) /\ Len(done') = last + 1
        /\ done'[last + 1] = i
        /\ \A m \in 1 .. last : done'[m] = done[m] /\ done'[m] # i
    BY <1>2, <1>5, <1>6 DEF Items
  <1>8. Items(done') = Items(done) \cup {i}
    BY <1>5, <1>6, <1>7 DEF Items
  <1>9. /\ slots[0] = RECEIVER
        /\ args[i] \in Value
        /\ slots[i] = args[i] \/ (Loses(i) /\ slots[i] \in Element)
    BY <1>2 DEF Passing, Waiting
  <1>10. RECEIVER # NULL
    BY SlotsAssumption DEF Basic
  <1>11. /\ p.ok \in BOOLEAN
         /\ p.ok <=> Fits(k, slots[i])
         /\ p.ok /\ k # "any" => p.value = Converted(slots[i])
         /\ k = "any" => p.value = [holds |-> slots[i], type |-> TypeOf(slots[0])]
         /\ KeptOrRead(slots, p.slots, i, k)
    BY <1>1, <1>4, <1>9, <1>10, PoppedRight DEF Passing
  <1>12. slots[i] \in Value
    BY <1>9, SlotsAssumption DEF Value
  <1>13. Phases'
    BY <1>2 DEF Passing, Phases
  <1>14. Parameters'
    BY <1>2 DEF Passing, Parameters
  <1>15. Order'
    <2>1. ASSUME NEW m \in 1 .. Len(done'), NEW n \in 1 .. Len(done'), m # n
          PROVE  done'[m] # done'[n]
      <3>1. (m \in 1 .. last \/ m = last + 1) /\ (n \in 1 .. last \/ n = last + 1)
        BY <1>6, <1>7
      <3>2. \A a, b \in 1 .. last : a # b => done[a] # done[b]
        BY <1>5 DEF Passing, Order
      <3> QED
        BY <1>7, <2>1, <3>1, <3>2
    <2> QED
      BY <1>2, <1>3, <1>7, <2>1 DEF Order
  <1>16. slots' \in Board /\ Ensured'
    <2>1. way' # "undefined"
      BY <1>2
    <2> QED
      BY <1>2, <1>11, <2>1 DEF Passing, KeptOrRead, Ensured, OnlyLastPast
  <1>17. Seen'
    BY <1>2 DEF Seen, ArgumentsSeen
  <1>18. Waiting'
    <2>1. slots'[0] = RECEIVER
      <3>1. 0 \in 0 .. Top /\ i + 1 # 0
        BY <1>4, SlotsAssumption DEF Top
      <3> QED
        BY <1>2, <1>9, <1>11, <3>1 DEF KeptOrRead
    <2>2. ASSUME NEW j \in Params \ Items(done')
          PROVE  slots'[j] = args[j] \/ (Loses(j)' /\ slots'[j] \in Element)
      <3>1. j \in Params \ Items(done) /\ j # i
        BY <1>8, <2>2
      <3>2. slots[j] = args[j] \/ (Loses(j) /\ slots[j] \in Element)
        BY <1>2, <3>1 DEF Passing, Waiting
      <3>3. Loses(j) => Loses(j)'
        BY <1>2, <1>8 DEF Loses
      <3>4. CASE slots'[j] = slots[j]
        BY <3>2, <3>3, <3>4
      <3>5. CASE slots'[j] # slots[j]
        <4>1. /\ k = "vector" /\ slots[i] \in List /\ slots[i].list # <<>>
              /\ \A x \in 0 .. Top : x # i + 1 => slots'[x] = slots[x]
              /\ slots'[i + 1] \in Element
          BY <1>2, <1>11, <3>5 DEF KeptOrRead
        <4>2. j \in 0 .. Top
          BY <1>3, <1>4, <3>1 DEF Top
        <4>3. j = i + 1
          BY <3>5, <4>1, <4>2
        <4>4. slots[i] \notin Element
          BY <4>1, SlotsAssumption
        <4>5. slots[i] = args[i]
          BY <1>9, <4>4
        <4>6. j > 1 /\ j - 1 = i
          BY <1>4, <4>3
        <4>7. Loses(j)'
          BY <1>1, <1>2, <1>8, <4>1, <4>5, <4>6 DEF Loses
        <4> QED
          BY <4>1, <4>3, <4>7
      <3> QED
        BY <3>4, <3>5
    <2> QED
      BY <1>2, <1>3, <2>1, <2>2 DEF Passing, Waiting
  <1>19. ASSUME Loses(i)
         PROVE  Overwritten(i)'
    <2>1. PICK m \in 1 .. last : done[m] = i - 1
      BY <1>5, <1>19 DEF Loses, Items
    <2>2. m < last + 1 /\ m \in 1 .. last + 1 /\ last + 1 \in 1 .. last + 1
      BY <1>6
    <2>3. done'[m] = i - 1 /\ done'[last + 1] = i
      BY <1>7, <2>1
    <2> QED
      BY <1>2, <1>7, <1>19, <2>2, <2>3 DEF Loses, Overwritten
  <1>20. ASSUME NEW j, Overwritten(j)
         PROVE  Overwritten(j)'
    <2>1. PICK m, n \in 1 .. last : m < n /\ done[m] = j - 1 /\ done[n] = j
      BY <1>5, <1>20 DEF Overwritten
    <2>2. m \in 1 .. last + 1 /\ n \in 1 .. last + 1
      BY <1>6
    <2> QED
      BY <1>2, <1>7, <1>20, <2>1, <2>2 DEF Overwritten
  <1>21. ASSUME p.ok
         PROVE  /\ DOMAIN got' = DOMAIN got \cup {i} /\ got'[i] = p.value
                /\ \A j \in DOMAIN got \ {i} : got'[j] = got[j]
    BY <1>2, <1>21
  <1>22. ~p.ok => got' = got
    BY <1>2
  <1>23. ASSUME p.ok
         PROVE  p.value \in Popped
    <2>1. CASE k = "any"
      <3>1. TypeOf(slots[0]) \in {"receiver", "number", "text", "object", "null", "list"}
        BY DEF TypeOf
      <3> QED
        BY <1>11, <1>12, <2>1, <3>1 DEF Popped, AnyObject
    <2>2. CASE k # "any"
      BY <1>4, <1>11, <1>12, <1>23, <2>2, FitIsPopped
    <2> QED
      BY <2>1, <2>2
  <1>24. ASSUME p.ok, slots[i] = args[i]
         PROVE  Arrived(i)'
    BY <1>1, <1>2, <1>11, <1>21, <1>24 DEF Arrived
  <1>25. Arriving'
    <2>1. DOMAIN got \subseteq Params /\ \A j \in DOMAIN got : got[j] \in Popped
      BY DEF Passing, Arriving
    <2>2. DOMAIN got' \subseteq Params' /\ \A j \in DOMAIN got' : got'[j] \in Popped
      BY <1>3, <1>11, <1>21, <1>22, <1>23, <2>1
    <2>3. OthersArrive'
      <3>1. ASSUME NEW j \in DOMAIN got'
            PROVE  (Arrived(j) \/ Overwritten(j))'
        <4>1. CASE j = i /\ p.ok
          BY <1>9, <1>19, <1>24, <4>1
        <4>2. CASE j # i \/ ~p.ok
          <5>1. j \in DOMAIN got /\ got'[j] = got[j]
            BY <1>11, <1>21, <1>22, <3>1, <4>2
          <5>2. Arrived(j) \/ Overwritten(j)
            BY <5>1 DEF Passing, Arriving, OthersArrive
          <5>3. Arrived(j) => Arrived(j)'
            BY <1>2, <5>1 DEF Arrived
          <5> QED
            BY <1>20, <5>2, <5>3
        <4> QED
          BY <4>1, <4>2
      <3> QED
        BY <3>1 DEF OthersArrive
    <2>4. RefusedRightly'
      <3>1. ASSUME ~p.ok
            PROVE  ~Fits(k, args[i]) \/ Overwritten(i)'
        BY <1>9, <1>11, <1>19, <3>1
      <3>2. outcome'.ok = p.ok /\ done'[Len(done')] = i /\ kinds'[i] = k /\ args'[i] = args[i]
        BY <1>1, <1>2, <1>7
      <3> QED
        BY <3>1, <3>2 DEF RefusedRightly
    <2> QED
      BY <2>2, <2>3, <2>4 DEF Arriving
  <1>26. Asked'
    <2>1. outcome'.op = "pop"
      BY <1>2
    <2> QED
      BY <1>2, <2>1, NotAsked DEF Passing
  <1> QED
    BY <1>13, <1>14, <1>15, <1>16, <1>17, <1>18, <1>25, <1>26 DEF Passing
----------------------------------------------------------------------------
(* A slot is used that was not ensured, and the run ends.                  *)
LEMMA StrayStep ==
  ASSUME Passing, way' = "undefined", outcome'.op \notin {"pop", "as"}, OnlyLastPast',
         UNCHANGED <<kinds, args, slots, ensured, done, got, result, isBound>>
  PROVE  Passing'
  <1>1. Phases' /\ Parameters' /\ Order' /\ slots' \in Board /\ Ensured'
    BY DEF Passing, Phases, Parameters, Order, Params, Ensured
  <1>2. Seen' /\ Waiting'
    BY DEF Seen, ArgumentsSeen, Waiting
  <1>3. Arriving'
    BY DEF Passing, Arriving, OthersArrive, RefusedRightly, Params, Arrived, Overwritten
  <1>4. Asked'
    BY NotAsked DEF Passing
  <1> QED
    BY <1>1, <1>2, <1>3, <1>4 DEF Passing

(* Pushing an argument can do so only for a container with nothing, or for *)
(* a map with one argument, after it.                                      *)
LEMMA PushPastStep ==
  ASSUME Passing, PushPast
  PROVE  Passing'
  <1>1. PICK n, k, v : n = Len(done) + 1 /\ k = kinds[n] /\ v = args[n]
    OBVIOUS
  <1>2. /\ way = "push" /\ n <= Len(args)
        /\ LastPushed(n, k, v) >= Grown(ensured, n, k)
        /\ way' = "undefined" /\ outcome'.op = "pushPast"
        /\ UNCHANGED <<kinds, args, slots, ensured, done, got, result, isBound>>
    BY <1>1 DEF PushPast, Stray
  <1>3. n \in Nat /\ Len(args) \in Nat /\ ensured \in Nat /\ ensured >= Len(args) + 1
    <2>1. done \in Seq(Params)
      BY DEF Passing, Order
    <2>2. Len(done) \in Nat
      BY <2>1, LenProperties
    <2>3. Len(args) \in Nat
      BY Sizes DEF Passing
    <2> QED
      BY <1>1, <1>2, <2>2, <2>3 DEF Passing, Ensured
  <1>4. PICK grown : grown = Grown(ensured, n, k)
    OBVIOUS
  <1>5. grown \in Nat /\ grown >= Len(args) + 1 /\ LastPushed(n, k, v) >= grown
    <2>1. grown \in Nat /\ grown >= ensured
      BY <1>3, <1>4, GrownEnough
    <2> QED
      BY <1>2, <1>3, <1>4, <2>1
  <1>6. \/ k = "vector" /\ ~isBound /\ v.vector # <<>> /\ n = Len(args)
        \/ k = "map" /\ v.pairs # <<>> /\ n \in {Len(args) - 1, Len(args)}
    <2>1. CASE k = "vector" /\ ~isBound /\ v.vector # <<>>
      <3>1. LastPushed(n, k, v) = n + 1
        BY <2>1 DEF LastPushed
      <3> QED
        BY <1>2, <1>3, <1>5, <2>1, <3>1
    <2>2. CASE k = "map" /\ v.pairs # <<>>
      <3>1. LastPushed(n, k, v) = n + 2
        BY <2>2 DEF LastPushed
      <3>2. n >= Len(args) - 1
        BY <1>3, <1>5, <3>1
      <3> QED
        BY <1>2, <1>3, <2>2, <3>2
    <2>3. CASE ~(k = "vector" /\ ~isBound /\ v.vector # <<>>) /\ ~(k = "map" /\ v.pairs # <<>>)
      <3>1. LastPushed(n, k, v) = n
        BY <2>3 DEF LastPushed
      <3> QED
        BY <1>2, <1>3, <1>5, <3>1
    <2> QED
      BY <2>1, <2>2, <2>3
  <1>7. OnlyLastPast'
    BY <1>1, <1>2, <1>6 DEF OnlyLastPast
  <1> QED
    BY <1>2, <1>7, StrayStep

(* Popping an argument can do so only for a native list that is the last.  *)
LEMMA PopPastStep ==
  ASSUME Passing, NEW i \in Params, PopPast(i)
  PROVE  Passing'
  <1>1. /\ way = "pop" /\ i \in Params \ Items(done)
        /\ LastPopped(slots, i, kinds[i]) >= ensured
        /\ way' = "undefined" /\ outcome'.op = "popPast"
        /\ UNCHANGED <<kinds, args, slots, ensured, done, got, result, isBound>>
    BY DEF PopPast, Stray
  <1>2. /\ i \in 1 .. Len(args) /\ Len(args) \in Nat
        /\ ensured \in Nat /\ ensured >= Len(args) + 1
    BY <1>1, Sizes DEF Passing, Params, Ensured
  <1>3. kinds[i] = "vector" /\ slots[i] \in List /\ slots[i].list # <<>> /\ i = Len(args)
    <2>1. CASE kinds[i] = "vector" /\ slots[i] \in List /\ slots[i].list # <<>>
      <3>1. LastPopped(slots, i, kinds[i]) = i + 1
        BY <2>1 DEF LastPopped
      <3> QED
        BY <1>1, <1>2, <2>1, <3>1
    <2>2. CASE ~(kinds[i] = "vector" /\ slots[i] \in List /\ slots[i].list # <<>>)
      <3>1. LastPopped(slots, i, kinds[i]) = i
        BY <2>2 DEF LastPopped
      <3> QED
        BY <1>1, <1>2, <3>1
    <2> QED
      BY <2>1, <2>2
  <1>4. slots[i] = args[i]
    <2>1. slots[i] = args[i] \/ slots[i] \in Element
      BY <1>1 DEF Passing, Waiting
    <2> QED
      BY <1>3, <2>1, SlotsAssumption
  <1>5. OnlyLastPast'
    BY <1>1, <1>3, <1>4 DEF OnlyLastPast, NativeList, Params, Items
  <1> QED
    BY <1>1, <1>5, StrayStep

(* Returning a value can do so only for a native list, while there are no  *)
(* arguments.                                                              *)
LEMMA ReturnPastStep ==
  ASSUME Passing, NEW k \in Kind \ {"any"}, NEW v \in Passed[k], ReturnPast(k, v)
  PROVE  Passing'
  <1>1. /\ way = "body" /\ LastPushed(0, k, v) >= Grown(ensured, 0, k)
        /\ way' = "undefined" /\ outcome'.op = "returnPast" /\ outcome'.kind = k
        /\ UNCHANGED <<kinds, args, slots, ensured, done, got, result, isBound>>
    BY DEF ReturnPast, Stray
  <1>2. Len(args) \in Nat /\ ensured \in Nat /\ ensured >= Len(args) + 1
    BY <1>1, Sizes DEF Passing, Ensured
  <1>3. PICK grown : grown = Grown(ensured, 0, k)
    OBVIOUS
  <1>4. /\ grown \in Nat /\ grown >= ensured /\ (k = "map" => grown >= 3)
        /\ LastPushed(0, k, v) >= grown
    BY <1>1, <1>2, <1>3, GrownEnough
  <1>5. k = "vector" /\ ~isBound /\ Len(args) = 0
    BY <1>2, <1>4 DEF LastPushed
  <1>6. Params' = {}
    BY <1>1, <1>5 DEF Params
  <1>7. OnlyLastPast'
    BY <1>1, <1>5, <1>6 DEF OnlyLastPast
  <1> QED
    BY <1>1, <1>7, StrayStep

(* Nor can asking for a result as some type. *)
LEMMA AsPastStep ==
  ASSUME Passing, NEW k \in Kind \ {"map"}, AsPast(k)
  PROVE  Passing'
  <1>1. PICK sl : sl = [slots EXCEPT ![0] = result.holds]
    OBVIOUS
  <1>2. /\ way \in {"body", "over"}
        /\ LastPopped(sl, 0, k) >= ensured
        /\ way' = "undefined" /\ outcome'.op = "asPast" /\ outcome'.kind = k
        /\ UNCHANGED <<kinds, args, slots, ensured, done, got, result, isBound>>
    BY <1>1 DEF AsPast, InHand, Stray
  <1>3. Len(args) \in Nat /\ ensured \in Nat /\ ensured >= Len(args) + 1
    BY <1>2, Sizes DEF Passing, Ensured
  <1>4. sl[0] = result.holds
    BY <1>1, SlotsAssumption DEF Passing, Board, Top
  <1>5. k = "vector" /\ result.holds \in List /\ result.holds.list # <<>> /\ Len(args) = 0
    <2>1. CASE k = "vector" /\ sl[0] \in List /\ sl[0].list # <<>>
      <3>1. LastPopped(sl, 0, k) = 1
        BY <2>1 DEF LastPopped
      <3> QED
        BY <1>2, <1>3, <1>4, <2>1, <3>1
    <2>2. CASE ~(k = "vector" /\ sl[0] \in List /\ sl[0].list # <<>>)
      <3>1. LastPopped(sl, 0, k) = 0
        BY <2>2 DEF LastPopped
      <3> QED
        BY <1>2, <1>3, <3>1
    <2> QED
      BY <2>1, <2>2
  <1>6. Params' = {}
    BY <1>2, <1>5 DEF Params
  <1>7. OnlyLastPast'
    BY <1>2, <1>5, <1>6 DEF OnlyLastPast, NativeList
  <1> QED
    BY <1>2, <1>7, StrayStep
----------------------------------------------------------------------------
(* Every step keeps what is passed in order. *)
LEMMA PassingStep == Passing /\ [Next]_vars => Passing'
  <1> SUFFICES ASSUME Passing, [Next]_vars
               PROVE  Passing'
    OBVIOUS
  <1>1. CASE CallAny
    BY <1>1, CallStep
  <1>2. CASE InvokeAny
    BY <1>2, InvokeStep
  <1>3. CASE PushArgument
    BY <1>3, PushStep
  <1>4. CASE ReturnNothing
    BY <1>4, ReturnNothingStep
  <1>5. CASE Leave
    BY <1>5, LeaveStep
  <1>6. CASE \E i \in Params : PopArgument(i)
    BY <1>6, PopStep
  <1>7. CASE \E v \in Available : Finish(v)
    BY <1>7, FinishStep
  <1>8. CASE \E k \in Kind \ {"map"} : As(k)
    BY <1>8, AsStep
  <1>9. CASE \E k \in Kind \ {"any"} : \E v \in Passed[k] : Return(k, v)
    BY <1>9, ReturnStep
  <1>10. CASE UNCHANGED vars
    <2>1. Phases' /\ Parameters' /\ Order' /\ (slots \in Board)' /\ Ensured'
      BY <1>10 DEF vars, Passing, Phases, Parameters, Order, Params, Ensured, OnlyLastPast,
                   Items, NativeList
    <2>2. Seen' /\ Waiting'
      BY <1>10 DEF vars, Passing, Seen, ArgumentsSeen, Shown, ShownVector, ShownMap,
                   Waiting, Loses, Params
    <2>3. Arriving' /\ Asked'
      BY <1>10 DEF vars, Passing, Arriving, OthersArrive, RefusedRightly, Arrived, Overwritten,
                   Params, Asked, ResultConverted
    <2> QED
      BY <2>1, <2>2, <2>3 DEF Passing
  <1>11. CASE PushPast
    BY <1>11, PushPastStep
  <1>12. CASE \E i \in Params : PopPast(i)
    BY <1>12, PopPastStep
  <1>13. CASE \E k \in Kind \ {"map"} : AsPast(k)
    BY <1>13, AsPastStep
  <1>14. CASE \E k \in Kind \ {"any"} : \E v \in Passed[k] : ReturnPast(k, v)
    BY <1>14, ReturnPastStep
  <1> QED
    BY <1>1, <1>2, <1>3, <1>4, <1>5, <1>6, <1>7, <1>8, <1>9, <1>10, <1>11, <1>12, <1>13, <1>14
       DEF Next

(* What is passed is in order in every state, for functions of any number  *)
(* of parameters and containers of any size, whether Wren uses a slot that *)
(* was not ensured as any other or ends there.                             *)
THEOREM PassedInOrder == Spec => []Passing
  BY PassingInit, PassingStep, PTL DEF Spec

(* Slots hold values where they are used, no argument is pushed or popped  *)
(* twice, and what is popped is a C++ value (method.hpp, caller.hpp).      *)
THEOREM SlotsTyped == Spec => []TypeOK
  <1>1. Passing => TypeOK
    <2> SUFFICES ASSUME Passing
                 PROVE  TypeOK
      OBVIOUS
    <2>1. Len(args) \in Nat /\ Len(args) <= MaxArgs /\ Params = 1 .. Len(args)
      BY Sizes DEF Passing, Params
    <2>2. done \in Seq(1 .. Len(args)) /\ \A m, n \in 1 .. Len(done) : m # n => done[m] # done[n]
      BY <2>1 DEF Passing, Order
    <2>3. Len(done) <= Len(args) /\ Len(done) \in Nat
      BY <2>1, <2>2, NoRepetition, LenProperties
    <2>4. Len(done) <= MaxArgs
      BY <2>1, <2>3, SlotsAssumption
    <2>5. done \in UpTo(MaxArgs, Params)
      BY <2>1, <2>2, <2>4, SlotsAssumption, Bounded
    <2>6. slots \in [0 .. Top -> Value \cup Map \cup {RECEIVER, EMPTY}]
      BY DEF Passing, Board, Cell
    <2> QED
      BY <2>2, <2>5, <2>6 DEF TypeOK, Passing, Phases, Parameters, Arriving, Asked, Ensured
  <1> QED
    BY <1>1, PassedInOrder, PTL

(* No conversion uses a slot that was not ensured, except that of a native *)
(* container with nothing, or of a map with one argument, after it         *)
(* (method.hpp:30, push.hpp:278-299, stdvector.hpp:54).                    *)
THEOREM OnlyContainersOverrun == Spec => []OnlyLastPast
  <1>1. Passing => OnlyLastPast
    BY DEF Passing, Ensured
  <1> QED
    BY <1>1, PassedInOrder, PTL

(* If a call gets to run, Wren sees its arguments as C++ passed them,      *)
(* though containers used the slots of those after them                    *)
(* (method.hpp:22-25, push.hpp:278-299).                                   *)
THEOREM ArgumentsAreSeen == Spec => []ArgumentsSeen
  <1>1. Passing => ArgumentsSeen
    BY DEF Passing, Seen
  <1> QED
    BY <1>1, PassedInOrder, PTL

(* In whatever order the arguments of a foreign function are popped, each  *)
(* but the one just after a native list arrives as it was passed           *)
(* (caller.hpp:91, stdvector.hpp:56-59).                                   *)
THEOREM OtherArgumentsArrive == Spec => []OthersArrive
  <1>1. Passing => OthersArrive
    BY DEF Passing, Arriving
  <1> QED
    BY <1>1, PassedInOrder, PTL

(* And a call is refused for no other argument that fits its type          *)
(* (caller.hpp:91, pop.hpp).                                               *)
THEOREM OnlyMisfitsRefused == Spec => []RefusedRightly
  <1>1. Passing => RefusedRightly
    BY DEF Passing, Arriving
  <1> QED
    BY <1>1, PassedInOrder, PTL

(* The result of a call into Wren, unless it is null, is converted to the  *)
(* types it fits and to no other, however often it is asked for, also in   *)
(* functions that Wren calls later (any.hpp:107-118).                      *)
THEOREM ResultsConverted == Spec => []ResultConverted
  <1>1. Passing => ResultConverted
    BY DEF Passing, Asked
  <1> QED
    BY <1>1, PassedInOrder, PTL
=============================================================================
