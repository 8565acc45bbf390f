------------------------------ MODULE BoundMap ------------------------------
(***************************************************************************)
(* AbstractMapBindings (std.hpp) on a std::map that Wren code changes and  *)
(* loops over.  Elements are keys; the values they are mapped to are not   *)
(* modelled.                                                               *)
(***************************************************************************)
EXTENDS ContainerLoops

ASSUME MapAssumption == NodeBased /\ Element \subseteq Int

vars == loopVars

(* The order of a map with the keys S. *)
Ascending(S) ==
  CHOOSE s \in SetToSeqs(S) : \A i, j \in DOMAIN s : i < j => s[i] < s[j]

Keys == ToSet(items)

TypeOK == LoopTypeOK /\ items = Ascending(Keys)

Init == LoopInit

(* Mutant: a new key is put last. *)
TouchLast(k) ==
  /\ Running
  /\ items' = IF k \in Keys THEN items ELSE Append(items, k)
  /\ loop' = IF k \in Keys THEN loop ELSE Changed(items', {})
  /\ outcome' = "ok"

(* [k] and [k]=(v): both insert a key that is not there. *)
Touch(k) ==
  /\ Running
  /\ IF k \in Keys THEN UNCHANGED <<items, loop>>
     ELSE /\ items' = Ascending(Keys \cup {k})
          /\ loop' = Changed(items', {})
  /\ outcome' = "ok"

(* remove(k): the value, or null for a key that is not there. *)
RemoveKey(k) ==
  /\ Running
  /\ items' = Ascending(Keys \ {k})
  /\ loop' = IF k \in Keys THEN Changed(items', {k}) ELSE loop
  /\ outcome' = "ok"

Clear ==
  /\ Running
  /\ items' = <<>>
  /\ loop' = IF items = <<>> THEN loop ELSE Changed(items', Keys)
  /\ outcome' = "ok"

(* containsKey, count, size and empty *)
Query == Running /\ outcome' = "ok" /\ UNCHANGED <<items, loop>>

Next ==
  \/ \E l \in Loop : BeginUntested(l) \/ Continue(l)
  \/ \E k \in Element : Touch(k) \/ RemoveKey(k)
  \/ Clear \/ Query

(* The body of a loop ends, and the fiber it is in is resumed. *)
Fairness == \A l \in Loop : WF_vars(Continue(l))

Spec == Init /\ [][Next]_vars /\ Fairness
----------------------------------------------------------------------------
(* Only a loop over an empty map uses an iterator that is not valid though *)
(* nobody changes the map (std.hpp:366).                                   *)
LoopDefinedUnlessEmpty == items # <<>> => LoopDefined
=============================================================================
