----------------------------- MODULE Retention -----------------------------
(***************************************************************************)
(* What the holders of wrenbind17 promise, without handles or counts: each *)
(* holder refers to nothing or to an object of a live VM, keeps it until   *)
(* the holder itself is given another value or its VM is freed, and what   *)
(* some holder refers to is never collected.                               *)
(***************************************************************************)
CONSTANTS
  VM, Obj, NULL,
  Copyable,   \* holders that are copied one at a time (Variable, Map)
  Pair,       \* holders of two references that are copied together (Method)
  Movable     \* holders that can only be swapped (Any)

(* The references of a pair: to the receiver, and to the call stub. *)
First(m) == <<"variable", m>>
Second(m) == <<"handle", m>>

Holder == Copyable \cup {First(m) : m \in Pair} \cup {Second(m) : m \in Pair}
            \cup Movable

VARIABLES life, heap, held

vars == <<life, heap, held>>

Reference == [vm : VM, obj : Obj]
Ref(v, o) == [vm |-> v, obj |-> o]
Held(v) == {held[x].obj : x \in {y \in Holder : held[y] # NULL /\ held[y].vm = v}}

Init ==
  /\ life = [v \in VM |-> "unborn"]
  /\ heap = [v \in VM |-> {}]
  /\ held = [x \in Holder |-> NULL]

Create(v) ==
  /\ life[v] = "unborn"
  /\ life' = [life EXCEPT ![v] = "live"]
  /\ UNCHANGED <<heap, held>>

(* All references into a VM are void from the moment it is freed. *)
Free(v) ==
  /\ life[v] = "live"
  /\ life' = [life EXCEPT ![v] = "freed"]
  /\ heap' = [heap EXCEPT ![v] = {}]
  /\ held' = [x \in Holder |->
                IF held[x] # NULL /\ held[x].vm = v THEN NULL ELSE held[x]]

Allocate(v, o) ==
  /\ life[v] = "live" /\ o \notin heap[v]
  /\ heap' = [heap EXCEPT ![v] = @ \cup {o}]
  /\ UNCHANGED <<life, held>>

Collect(v, S) ==
  /\ S \subseteq heap[v] \ Held(v)
  /\ heap' = [heap EXCEPT ![v] = @ \ S]
  /\ UNCHANGED <<life, held>>

(* A holder is given a reference to an object of a live VM. *)
Take(x, v, o) ==
  /\ life[v] = "live" /\ o \in heap[v]
  /\ held' = [held EXCEPT ![x] = Ref(v, o)]
  /\ UNCHANGED <<life, heap>>

Share(x, y) ==
  /\ held' = [held EXCEPT ![y] = held[x]]
  /\ UNCHANGED <<life, heap>>

SharePair(m, n) ==
  /\ held' = [held EXCEPT ![First(n)] = held[First(m)],
                          ![Second(n)] = held[Second(m)]]
  /\ UNCHANGED <<life, heap>>

(* A pair refers to the receiver x and to a call stub o made for it. *)
Bind(x, m, o) ==
  /\ held[x] # NULL
  /\ o \notin heap[held[x].vm]
  /\ heap' = [heap EXCEPT ![held[x].vm] = @ \cup {o}]
  /\ held' = [held EXCEPT ![First(m)] = held[x],
                          ![Second(m)] = Ref(held[x].vm, o)]
  /\ UNCHANGED life

(* The holders in P, and no others, let go. *)
Release(P) ==
  /\ held' = [x \in Holder |-> IF x \in P THEN NULL ELSE held[x]]
  /\ UNCHANGED <<life, heap>>

Exchange(a, b) ==
  /\ held' = [held EXCEPT ![a] = held[b], ![b] = held[a]]
  /\ UNCHANGED <<life, heap>>

Next ==
  \/ \E v \in VM : Create(v) \/ Free(v)
  \/ \E v \in VM, o \in Obj : Allocate(v, o)
  \/ \E v \in VM : \E S \in SUBSET heap[v] : Collect(v, S)
  \/ \E v \in VM, o \in Obj, x \in Copyable \cup Movable : Take(x, v, o)
  \/ \E x, y \in Copyable : Share(x, y)
  \/ \E m, n \in Pair : SharePair(m, n)
  \/ \E x \in Copyable, m \in Pair, o \in Obj : Bind(x, m, o)
  \/ \E x \in Copyable \cup Movable : Release({x})
  \/ \E m \in Pair : Release({First(m), Second(m)})
  \/ \E a, b \in Movable : Exchange(a, b)

Spec == Init /\ [][Next]_vars
=============================================================================
