------------------------------ MODULE Traversal ------------------------------
(***************************************************************************)
(* What the loops of ContainerLoops promise, in terms that know no         *)
(* iterators: a loop visits what was there when it began and stays there,  *)
(* once and in the order of the container, and ends when nothing of that   *)
(* is left.  What is added meanwhile may be visited or not.  A change of a *)
(* container that is not node-based ends the promise to its loops.         *)
(***************************************************************************)
EXTENDS Integers, SequencesExt

CONSTANTS Element, Loop, NodeBased

VARIABLES
  items,  \* the elements in the order of the container
  phase,  \* of each loop: idle, running, done, or lost
  due,    \* what it still has to visit
  seen    \* what it has visited

vars == <<items, phase, due, seen>>

Init ==
  /\ items = <<>>
  /\ phase = [l \in Loop |-> "idle"]
  /\ due = [l \in Loop |-> {}]
  /\ seen = [l \in Loop |-> <<>>]

(* a comes before b in s. *)
Precedes(s, a, b) == \E p, q \in DOMAIN s : p < q /\ s[p] = a /\ s[q] = b

(* A loop over an empty container may end at once. *)
Begin(l) ==
  /\ phase[l] = "idle"
  /\ \/ phase' = [phase EXCEPT ![l] = "running"]
     \/ items = <<>> /\ phase' = [phase EXCEPT ![l] = "done"]
  /\ due' = [due EXCEPT ![l] = ToSet(items)]
  /\ UNCHANGED <<items, seen>>

(* A visit goes on in the order of the container and leaves nothing out.   *)
Visit(l, e) ==
  /\ phase[l] = "running"
  /\ e \in ToSet(items) \ ToSet(seen[l])
  /\ \A d \in due[l] : d = e \/ Precedes(items, e, d)
  /\ \A d \in ToSet(seen[l]) \cap ToSet(items) : Precedes(items, d, e)
  /\ due' = [due EXCEPT ![l] = @ \ {e}]
  /\ seen' = [seen EXCEPT ![l] = Append(@, e)]
  /\ UNCHANGED <<items, phase>>

End(l) ==
  /\ phase[l] = "running" /\ due[l] = {}
  /\ phase' = [phase EXCEPT ![l] = "done"]
  /\ UNCHANGED <<items, due, seen>>

(* The container is changed: what stays keeps its order. *)
Change ==
  /\ items' \in Seq(Element) /\ IsInjective(items')
  /\ \A a, b \in ToSet(items) \cap ToSet(items') :
       Precedes(items, a, b) => Precedes(items', a, b)
  /\ IF NodeBased
     THEN /\ due' = [l \in Loop |-> due[l] \cap ToSet(items')]
          /\ UNCHANGED <<phase, seen>>
     ELSE /\ phase' = [l \in Loop |-> IF phase[l] = "idle" THEN "idle" ELSE "lost"]
          /\ due' = [l \in Loop |-> {}]
          /\ seen' = [l \in Loop |-> <<>>]

Next ==
  \/ \E l \in Loop : Begin(l) \/ End(l) \/ \E e \in Element : Visit(l, e)
  \/ Change

Spec == Init /\ [][Next]_vars
=============================================================================
