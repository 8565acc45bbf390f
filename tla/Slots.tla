------------------------------- MODULE Slots -------------------------------
(***************************************************************************)
(* The slots through which values pass between C++ and Wren (method.hpp,   *)
(* caller.hpp, push.hpp, pop.hpp, any.hpp and the std*.hpp of containers   *)
(* that become Wren lists and maps).                                       *)
(*                                                                         *)
(* Slot 0 is the receiver and then the result of a call, slot i its i-th   *)
(* argument.  A container is converted element by element through the      *)
(* slot after its own, which another argument may be in, or which nobody   *)
(* has ensured.                                                            *)
(***************************************************************************)
EXTENDS Naturals, Sequences

CONSTANTS
  Number, Text, Object,  \* values of Wren: numbers, strings, foreign objects
  Element,               \* what the lists of Wren hold, numbers and others
  Signature,             \* parameter lists of functions: sequences of C++ types
  Kept,                  \* results that C++ may keep after a call, for later ones
  MaxArgs, MaxItems,     \* bounds on parameters, and on items of a container
  NULL,                  \* Wren's null, C++'s nullptr and std::nullopt
  RECEIVER,              \* the receiver of a call
  EMPTY                  \* a slot that has not been set

(* C++ types: double, std::string, T*, std::optional<double>,              *)
(* std::variant<double, std::string>, std::vector<double>,                 *)
(* std::map<std::string, double>, Any                                      *)
Kind == {"number", "text", "object", "optional", "variant", "vector", "map", "any"}

UpTo(n, S) == UNION {[1 .. m -> S] : m \in 0 .. n}

Basic == Number \cup Text \cup Object \cup {NULL}

(* What a slot may hold: a list, a map, or a container in an object of the *)
(* class that was bound for it.                                            *)
List == [list : UpTo(MaxItems, Element)]
NumberList == [list : UpTo(MaxItems, Number)]
Map == [map : UpTo(MaxItems, Text \X Number)]
Wrapped == [bound : UpTo(MaxItems, Number)]
Value == Basic \cup List \cup Wrapped

(* The last conjunct: no number, text or object is a container. *)
ASSUME SlotsAssumption ==
  /\ Signature \subseteq UpTo(MaxArgs, Kind)
  /\ Number \subseteq Element /\ Element \subseteq Basic
  /\ MaxArgs \in Nat /\ MaxItems \in Nat
  /\ {RECEIVER, EMPTY} \cap Basic = {} /\ RECEIVER # EMPTY
  /\ Basic \cap (List \cup Wrapped) = {}

(* Of an optional its value or null, of a variant the alternative it has. *)
OrNull == Number \cup {NULL}
Alternative == Number \cup Text

(* What C++ passes as each type. *)
Passed == [number |-> Number, text |-> Text, object |-> Object,
           optional |-> OrNull, variant |-> Alternative,
           vector |-> [vector : UpTo(MaxItems, Number)],
           map |-> [pairs : UpTo(MaxItems, Text \X Number)]]

AnyObject == [holds : Value, type : {"receiver", "number", "text", "object", "null", "list"}]
Popped == Basic \cup Passed["vector"] \cup AnyObject

VARIABLES
  way,       \* the call in progress: who does what
  kinds,     \* the C++ types of its parameters
  args,      \* its arguments, as they were passed
  slots,     \* the slots
  ensured,   \* how many of them were ensured
  done,      \* the arguments pushed or popped so far, in that order
  got,       \* what was popped for each parameter
  result,    \* the Any the last call from C++ returned
  isBound,   \* whether std::vector<double> was bound as a class
  outcome    \* of the last conversion

vars == <<way, kinds, args, slots, ensured, done, got, result, isBound, outcome>>

(* Objects of the class of a container are there once it is bound. *)
Available == IF isBound THEN Value ELSE Value \ Wrapped

Top == MaxArgs + 2
Params == 1 .. Len(args)
Items(s) == {s[n] : n \in 1 .. Len(s)}

NoAny == [holds |-> NULL, type |-> "null"]
NoOutcome == [op |-> "none", kind |-> "none", ok |-> TRUE, value |-> NULL]
Blank == [i \in 0 .. Top |-> EMPTY]

TypeOK ==
  /\ way \in {"idle", "push", "run", "pop", "body", "over", "undefined"}
  /\ kinds \in Signature \cup {<<>>} /\ Len(args) = Len(kinds)
  /\ slots \in [0 .. Top -> Value \cup Map \cup {RECEIVER, EMPTY}] /\ ensured \in Nat
  /\ done \in UpTo(MaxArgs, Params)
  /\ \A m, n \in 1 .. Len(done) : m # n => done[m] # done[n]
  /\ DOMAIN got \subseteq Params /\ \A i \in DOMAIN got : got[i] \in Popped
  /\ result \in AnyObject

Init ==
  /\ way = "idle"
  /\ kinds = <<>> /\ args = <<>>
  /\ slots = Blank /\ ensured = 0
  /\ done = <<>> /\ got = <<>>
  /\ result = NoAny
  /\ isBound \in BOOLEAN
  /\ outcome = NoOutcome
----------------------------------------------------------------------------
(* Conversion to Wren: PushHelper<T>::f(vm, i, v). *)

(* What Wren code is to see of a C++ value. *)
ShownVector(v) == IF isBound THEN [bound |-> v.vector] ELSE [list |-> v.vector]
ShownMap(v) == [map |-> v.pairs]
Shown(k, v) ==
  CASE k = "vector" -> ShownVector(v)
    [] k = "map" -> ShownMap(v)
    [] OTHER -> v

(* loopAndPushIterable and loopAndPushKeyPair leave the last item in the   *)
(* slot after the container's, or in the two slots after it.               *)
Push(sl, i, k, v) ==
  LET s == [sl EXCEPT ![i] = Shown(k, v)]
  IN CASE k = "vector" /\ ~isBound /\ v.vector # <<>> ->
            [s EXCEPT ![i + 1] = v.vector[Len(v.vector)]]
       [] k = "map" /\ v.pairs # <<>> ->
            [s EXCEPT ![i + 1] = v.pairs[Len(v.pairs)][1], ![i + 2] = v.pairs[Len(v.pairs)][2]]
       [] OTHER -> s

(* The last slot that this uses. *)
LastPushed(i, k, v) ==
  IF k = "vector" /\ ~isBound /\ v.vector # <<>> THEN i + 1
  ELSE IF k = "map" /\ v.pairs # <<>> THEN i + 2 ELSE i

(* wrenEnsureSlots of a value in slot i, if n slots were ensured: what     *)
(* becomes an object asks for its own slot, a map for three slots,         *)
(* whichever its own is, and a list for none.                              *)
Grown(n, i, k) ==
  LET asked == IF k = "object" \/ (k = "vector" /\ isBound) THEN i + 1
               ELSE IF k = "map" THEN 3 ELSE 0
  IN IF n < asked THEN asked ELSE n
----------------------------------------------------------------------------
(* Conversion to C++: PopHelper<T>::f(vm, i). *)

TypeOf(v) ==
  CASE v = RECEIVER -> "receiver"   \* an object or, for a static function, a class
    [] v \in Number -> "number"
    [] v \in Text -> "text"
    [] v \in Object \cup Wrapped -> "object"
    [] v \in List -> "list"
    [] OTHER -> "null"

(* The values that are accepted as a type; Any takes everything. *)
Fits(k, v) ==
  CASE k = "number" -> v \in Number
    [] k = "text" -> v \in Text
    [] k = "object" -> v \in Object \cup {NULL}
    [] k = "optional" -> v \in OrNull
    [] k = "variant" -> v \in Alternative
    [] k = "vector" -> v \in NumberList \cup Wrapped
    [] k = "any" -> TRUE
    [] OTHER -> FALSE

BadCast(sl) == [ok |-> FALSE, value |-> NULL, slots |-> sl]
Good(v, sl) == [ok |-> TRUE, value |-> v, slots |-> sl]

(* Mutant: a container of a bound class is not looked for. *)
PopListOnly(sl, i) ==
  IF sl[i] \notin List THEN BadCast(sl)
  ELSE IF sl[i] \in NumberList THEN Good([vector |-> sl[i].list], sl) ELSE BadCast(sl)

(* Mutant: the items are read through the slot of the first argument. *)
PopThroughFirst(sl, i) ==
  IF sl[i] \in Wrapped THEN Good([vector |-> sl[i].bound], sl)
  ELSE IF sl[i] \notin NumberList THEN BadCast(sl)
  ELSE LET items == sl[i].list
       IN Good([vector |-> items],
               IF items = <<>> THEN sl ELSE [sl EXCEPT ![1] = items[Len(items)]])

(* A list is read through the slot after its own, up to the first item     *)
(* that is no number; the container of an object is copied.                *)
PopVector(sl, i) ==
  IF sl[i] \in Wrapped THEN Good([vector |-> sl[i].bound], sl)
  ELSE IF sl[i] \notin List THEN BadCast(sl)
  ELSE LET items == sl[i].list
           bad == {n \in 1 .. Len(items) : items[n] \notin Number}
           read(n) == [sl EXCEPT ![i + 1] = items[n]]
       IN IF items = <<>> THEN Good([vector |-> items], sl)
          ELSE IF bad = {} THEN Good([vector |-> items], read(Len(items)))
          ELSE BadCast(read(CHOOSE n \in bad : \A m \in bad : n <= m))

(* getSlot<Any>: the type is that of slot 0, the value that of slot i. *)
PopAny(sl, i) ==
  IF sl[0] = NULL THEN Good(NoAny, sl) ELSE Good([holds |-> sl[i], type |-> TypeOf(sl[0])], sl)

Pop(sl, i, k) ==
  CASE k = "vector" -> PopVector(sl, i)
    [] k = "any" -> PopAny(sl, i)
    [] OTHER -> IF Fits(k, sl[i]) THEN Good(sl[i], sl) ELSE BadCast(sl)

(* The last slot that popping uses; its wrenEnsureSlots asks for one slot. *)
LastPopped(sl, i, k) ==
  IF k = "vector" /\ sl[i] \in List /\ sl[i].list # <<>> THEN i + 1 ELSE i
----------------------------------------------------------------------------
(* C++ calls Wren: CallAndReturn::func. *)

(* A call without arguments skips the way w of passing them. *)
Begin(w, ready, ks, vs, sl) ==
  /\ way' = IF vs = <<>> THEN ready ELSE w
  /\ kinds' = ks /\ args' = vs /\ slots' = sl
  /\ UNCHANGED <<done, got, result, isBound, outcome>>

(* Mutant: the slot of the receiver is forgotten. *)
CallShort(ks, vs) ==
  /\ Begin("push", "run", ks, vs, [Blank EXCEPT ![0] = RECEIVER])
  /\ ensured' = Len(vs)

Call(ks, vs) ==
  /\ Begin("push", "run", ks, vs, [Blank EXCEPT ![0] = RECEIVER])
  /\ ensured' = Len(vs) + 1

(* Mutant: the last argument is pushed first. *)
PushLast ==
  LET i == Len(args) - Len(done)
  IN /\ way = "push" /\ i > 0
     /\ slots' = Push(slots, i, kinds[i], args[i])
     /\ done' = Append(done, i)
     /\ ensured' = Grown(ensured, i, kinds[i])
     /\ way' = IF i = 1 THEN "run" ELSE way
     /\ UNCHANGED <<kinds, args, got, result, isBound, outcome>>

(* Mutant: the index of the slot is not advanced. *)
PushFirst ==
  /\ way = "push" /\ Len(done) < Len(args)
  /\ slots' = Push(slots, 1, kinds[1], args[1])
  /\ done' = Append(done, 1)
  /\ ensured' = Grown(ensured, 1, kinds[1])
  /\ way' = IF Len(done') = Len(args) THEN "run" ELSE way
  /\ UNCHANGED <<kinds, args, got, result, isBound, outcome>>

(* pushArgs, from left to right *)
PushArgument ==
  LET i == Len(done) + 1
  IN /\ way = "push" /\ i <= Len(args)
     /\ slots' = Push(slots, i, kinds[i], args[i])
     /\ done' = Append(done, i)
     /\ ensured' = Grown(ensured, i, kinds[i])
     /\ way' = IF i = Len(args) THEN "run" ELSE way
     /\ UNCHANGED <<kinds, args, got, result, isBound, outcome>>

(* The call is over: v is its result, in the one slot that is left, and    *)
(* its arguments are gone.                                                 *)
End(v) ==
  /\ way' = "over"
  /\ slots' = [Blank EXCEPT ![0] = v] /\ ensured' = 1
  /\ kinds' = <<>> /\ args' = <<>> /\ done' = <<>> /\ got' = <<>>
  /\ UNCHANGED isBound

(* wrenCall runs the function, whose result is in slot 0. *)
Finish(v) ==
  /\ way = "run"
  /\ End(v)
  /\ result' = PopAny(slots', 0).value
  /\ outcome' = [NoOutcome EXCEPT !.op = "call"]

(* C++ has the control and the Any: after a call that it made, or in a     *)
(* function that Wren calls.                                               *)
InHand == way = "body" \/ (way = "over" /\ outcome.op \in {"call", "as"})

(* Mutant: the value is not put back, since it was in slot 0 already. *)
AsInPlace(k) ==
  /\ InHand
  /\ IF result.type = "null"
     THEN UNCHANGED slots /\ outcome' = [op |-> "as", kind |-> k, ok |-> FALSE, value |-> NULL]
     ELSE LET p == Pop(slots, 0, k)
          IN slots' = p.slots /\ outcome' = [op |-> "as", kind |-> k, ok |-> p.ok, value |-> p.value]
  /\ UNCHANGED <<way, kinds, args, ensured, done, got, result, isBound>>

(* result.as<T>(): the value is put back into slot 0 and popped from it. *)
As(k) ==
  /\ InHand
  /\ IF result.type = "null"
     THEN UNCHANGED slots /\ outcome' = [op |-> "as", kind |-> k, ok |-> FALSE, value |-> NULL]
     ELSE LET p == Pop([slots EXCEPT ![0] = result.holds], 0, k)
          IN slots' = p.slots /\ outcome' = [op |-> "as", kind |-> k, ok |-> p.ok, value |-> p.value]
  /\ UNCHANGED <<way, kinds, args, ensured, done, got, result, isBound>>
----------------------------------------------------------------------------
(* Wren calls C++: ForeignMethodCaller::callFrom. *)

Invoke(ks, vs) ==
  /\ Begin("pop", "body", ks, vs,
           [i \in 0 .. Top |-> IF i = 0 THEN RECEIVER ELSE IF i \in DOMAIN vs THEN vs[i] ELSE EMPTY])
  /\ ensured' = Len(vs) + 1

(* The arguments of a C++ call are evaluated in any order. *)
PopArgument(i) ==
  LET p == Pop(slots, i, kinds[i])
  IN /\ way = "pop" /\ i \in Params \ Items(done)
     /\ slots' = p.slots
     /\ done' = Append(done, i)
     /\ got' = IF p.ok THEN [j \in DOMAIN got \cup {i} |-> IF j = i THEN p.value ELSE got[j]] ELSE got
     /\ way' = IF ~p.ok THEN "over" ELSE IF Len(done') = Len(args) THEN "body" ELSE way
     /\ outcome' = [op |-> "pop", kind |-> kinds[i], ok |-> p.ok, value |-> p.value]
     /\ UNCHANGED <<kinds, args, ensured, result, isBound>>

(* The function returns a value, which goes into slot 0, or nothing, and   *)
(* slot 0 is left as it is.                                                *)
Return(k, v) ==
  /\ way = "body"
  /\ End(Push(slots, 0, k, v)[0])
  /\ outcome' = [op |-> "return", kind |-> k, ok |-> TRUE, value |-> v]
  /\ UNCHANGED result

ReturnNothing ==
  /\ way = "body"
  /\ End(slots[0])
  /\ outcome' = [NoOutcome EXCEPT !.op = "return"]
  /\ UNCHANGED result

(* Wren drops the slots of a call, and C++ keeps its result or not. *)
Leave ==
  /\ way = "over"
  /\ way' = "idle"
  /\ kinds' = <<>> /\ args' = <<>> /\ slots' = Blank /\ ensured' = 0 /\ done' = <<>> /\ got' = <<>>
  /\ result' = NoAny \/ (result.holds \in Kept /\ UNCHANGED result)
  /\ outcome' = NoOutcome
  /\ UNCHANGED isBound
----------------------------------------------------------------------------
(* A conversion that uses a slot nobody has ensured.  What Wren does then  *)
(* is up to the build: it uses it like any other, as in the actions above, *)
(* or the run ends here, with an assertion or with memory that is not the  *)
(* slots' own.                                                             *)
Stray(op, k) ==
  /\ way' = "undefined"
  /\ outcome' = [op |-> op, kind |-> k, ok |-> FALSE, value |-> NULL]
  /\ UNCHANGED <<kinds, args, slots, ensured, done, got, result, isBound>>

PushPast ==
  LET i == Len(done) + 1
  IN /\ way = "push" /\ i <= Len(args)
     /\ LastPushed(i, kinds[i], args[i]) >= Grown(ensured, i, kinds[i])
     /\ Stray("pushPast", kinds[i])

PopPast(i) ==
  /\ way = "pop" /\ i \in Params \ Items(done)
  /\ LastPopped(slots, i, kinds[i]) >= ensured
  /\ Stray("popPast", kinds[i])

ReturnPast(k, v) ==
  /\ way = "body"
  /\ LastPushed(0, k, v) >= Grown(ensured, 0, k)
  /\ Stray("returnPast", k)

AsPast(k) ==
  /\ InHand /\ result.type # "null"
  /\ LastPopped([slots EXCEPT ![0] = result.holds], 0, k) >= ensured
  /\ Stray("asPast", k)

CallAny ==
  /\ way = "idle"
  /\ \E ks \in Signature :
       /\ "any" \notin Items(ks)
       /\ \E vs \in [DOMAIN ks -> UNION {Passed[k] : k \in Items(ks)}] :
            (\A i \in DOMAIN ks : vs[i] \in Passed[ks[i]]) /\ Call(ks, vs)

InvokeAny ==
  /\ way = "idle"
  /\ \E ks \in Signature :
       /\ "map" \notin Items(ks)
       /\ \E vs \in [DOMAIN ks -> Available] : Invoke(ks, vs)

Next ==
  \/ CallAny \/ InvokeAny
  \/ PushArgument \/ PushPast \/ ReturnNothing \/ Leave
  \/ \E i \in Params : PopArgument(i) \/ PopPast(i)
  \/ way = "run" /\ \E v \in Available : Finish(v)
  \/ \E k \in Kind \ {"map"} : As(k) \/ AsPast(k)
  \/ \E k \in Kind \ {"any"} : \E v \in Passed[k] : Return(k, v) \/ ReturnPast(k, v)

Spec == Init /\ [][Next]_vars
----------------------------------------------------------------------------
(* The C++ value of a Wren value that fits a type. *)
Converted(v) ==
  IF v \in Wrapped THEN [vector |-> v.bound] ELSE IF v \in List THEN [vector |-> v.list] ELSE v

(* Argument i was popped after the native list just before it. *)
Overwritten(i) ==
  /\ i > 1 /\ kinds[i - 1] = "vector" /\ args[i - 1] \in List /\ args[i - 1].list # <<>>
  /\ \E m, n \in 1 .. Len(done) : m < n /\ done[m] = i - 1 /\ done[n] = i

Arrived(i) ==
  IF kinds[i] = "any" THEN got[i].holds = args[i]
  ELSE Fits(kinds[i], args[i]) /\ got[i] = Converted(args[i])

(* Each argument of a call into Wren that gets to run is seen as it was    *)
(* passed, though containers use the slots of the arguments after them     *)
(* (method.hpp:22-25, push.hpp:278-299).                                   *)
ArgumentsSeen ==
  way = "run" => \A i \in Params : slots[i] = Shown(kinds[i], args[i])

NativeList(v) == v \in List /\ v.list # <<>>

(* No conversion uses a slot that was not ensured but that of a native     *)
(* container with nothing after it: a list or map that is passed last, or  *)
(* a map before the last argument; a list that is popped from the last     *)
(* argument, that a function without parameters returns, or that is asked  *)
(* of an Any while there are no arguments (method.hpp:30, push.hpp:278-299,*)
(* stdvector.hpp:54).                                                      *)
OnlyLastPast ==
  LET next == Len(done) + 1
  IN way = "undefined" =>
       /\ outcome.op \in {"pushPast", "popPast", "returnPast", "asPast"}
       /\ outcome.op = "pushPast" =>
            \/ kinds[next] = "vector" /\ ~isBound /\ args[next].vector # <<>> /\ next = Len(args)
            \/ kinds[next] = "map" /\ args[next].pairs # <<>> /\ next \in {Len(args) - 1, Len(args)}
       /\ outcome.op = "popPast" =>
            /\ Len(args) \in Params \ Items(done)
            /\ kinds[Len(args)] = "vector" /\ NativeList(args[Len(args)])
       /\ outcome.op = "returnPast" => outcome.kind = "vector" /\ ~isBound /\ Params = {}
       /\ outcome.op = "asPast" =>
            outcome.kind = "vector" /\ NativeList(result.holds) /\ Params = {}

(* In whatever order the arguments of a foreign method are evaluated, only *)
(* one just after a native list can arrive as something else               *)
(* (caller.hpp:91, stdvector.hpp:56-59).                                   *)
OthersArrive == \A i \in DOMAIN got : Arrived(i) \/ Overwritten(i)

(* A call is refused only for an argument that does not fit, or one that   *)
(* was overwritten so.                                                     *)
RefusedRightly ==
  outcome.op = "pop" /\ ~outcome.ok =>
    LET i == done[Len(done)] IN ~Fits(kinds[i], args[i]) \/ Overwritten(i)

(* A value that Wren returned, null apart, is converted to each type it    *)
(* fits and refused as every other, however often it is asked for, also in *)
(* functions that Wren calls later, whose receiver and arguments are in    *)
(* the slots (any.hpp:107-118).                                            *)
ResultConverted ==
  outcome.op = "as" /\ result.holds # NULL =>
    IF Fits(outcome.kind, result.holds)
    THEN outcome.ok /\ (outcome.kind # "any" => outcome.value = Converted(result.holds))
    ELSE ~outcome.ok

(* stl.md:106: C++ functions accept lists: each argument arrives.          *)
ArgumentsArrive == \A i \in DOMAIN got : Arrived(i)
=============================================================================
