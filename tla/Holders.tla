------------------------------ MODULE Holders ------------------------------
(***************************************************************************)
(* Ownership of Wren handles by the C++ holders of wrenbind17.             *)
(*                                                                         *)
(* A Wren object stays reachable while the VM keeps a WrenHandle for it.   *)
(* The library wraps each WrenHandle in one Handle object (handle.hpp),    *)
(* which is either embedded in an Any, or made by make_shared and shared   *)
(* by Variable, Map and Method objects.  The Handle releases its           *)
(* WrenHandle when it dies, unless its weak pointer to the VM has expired. *)
(* Several VMs may exist, a VM object may be moved, and any holder may     *)
(* outlive the VM it came from.                                            *)
(***************************************************************************)
EXTENDS Naturals, Sequences

CONSTANTS
  VM,        \* WrenVM instances (each is created at most once)
  VMObject,  \* C++ objects of class wrenbind17::VM
  Shared,    \* Handle objects made by std::make_shared<Handle>
  ReturnValue, \* C++ objects of class ReturnValue, alias Any: one Handle each
  Variable,  \* C++ objects of class Variable or Map: one shared_ptr<Handle>
  Method,    \* C++ objects of class Method: two shared_ptr<Handle>
  WrenHandle,\* WrenHandle structures of the Wren library
  Obj,       \* Wren objects, per VM
  NULL,      \* null pointer
  MaxDepth   \* bound on the calls into Wren that are nested in callbacks

(* The two shared_ptr<Handle> members of a Method (method.hpp:79-80). *)
Member(field, m) == <<field, m>>
MethodMembers(m) == {Member("variable", m), Member("handle", m)}
Members == UNION {MethodMembers(m) : m \in Method}

Ptr == Variable \cup Members      \* every shared_ptr<Handle>
Handle == Shared \cup ReturnValue         \* every Handle object

ASSUME HolderAssumption ==
  /\ Variable \cap Members = {}
  /\ Shared \cap ReturnValue = {}
  /\ Ptr \cap ReturnValue = {}
  /\ NULL \notin VM \cup Shared \cup WrenHandle
  /\ NULL \notin [vm : VM, obj : Obj]
  /\ MaxDepth \in Nat

VARIABLES
  vmState,   \* life of each WrenVM, hence of the weak pointers to it
  data,      \* the VM::Data (and so the WrenVM) a VM object owns, or NULL
  handle,    \* contents of each Handle object
  ptr,       \* target of each shared_ptr<Handle>
  wh,        \* the VM's handle list: what each WrenHandle refers to
  heap,      \* Wren objects each VM has not collected
  calls,     \* VMs a Method is running in, the innermost call first
  outcome    \* how the last use of a holder ended, as its caller sees it

vars == <<vmState, data, handle, ptr, wh, heap, calls, outcome>>

(* A default-constructed, moved-from or reset Handle (handle.hpp:22). *)
Empty == [vm |-> NULL, wh |-> NULL]

Results == {"none", "ok", "RuntimeError", "BadCast", "NotFound", "nullDereference"}
Outcome == [kind : {"none", "variable", "method", "any"},
            result : Results]
Quiet == [kind |-> "none", result |-> "none"]
Report(k, r) == [kind |-> k, result |-> r]

TypeOK ==
  /\ vmState \in [VM -> {"unborn", "live", "freed"}]
  /\ data \in [VMObject -> VM \cup {NULL}]
  /\ handle \in [Handle -> [vm : VM \cup {NULL}, wh : WrenHandle \cup {NULL}]]
  /\ ptr \in [Ptr -> Shared \cup {NULL}]
  /\ wh \in [WrenHandle -> [vm : VM, obj : Obj] \cup {NULL}]
  /\ heap \in [VM -> SUBSET Obj]
  /\ calls \in Seq(VM)
  /\ outcome \in Outcome

----------------------------------------------------------------------------
(* std::weak_ptr<WrenVM>::expired() *)
Expired(v) == v = NULL \/ vmState[v] # "live"

(* Handle::operator bool *)
Usable(h) == ~Expired(handle[h].vm) /\ handle[h].wh # NULL

(* Objects the handle list of VM v keeps reachable. *)
Roots(v) == {wh[w].obj : w \in {u \in WrenHandle : wh[u] # NULL /\ wh[u].vm = v}}

(* shared_ptr<Handle> counts: the targets of a set of pointers. *)
Referenced(p) == {p[q] : q \in Ptr} \ {NULL}

(* Handles destroyed when the shared pointers change from ptr to p. *)
Orphans(p) == Referenced(ptr) \ Referenced(p)

(* Mutant: reset() releases without asking whether the VM has gone. *)
ReleasedBlindly(H) == {handle[h].wh : h \in H} \ {NULL}

(* ~Handle -> Handle::reset on each Handle of H: the WrenHandles given back. *)
Released(H) == {handle[h].wh : h \in {g \in H : Usable(g)}}

(* wrenReleaseHandle on every WrenHandle of W, in handle list L. *)
Release(L, W) == [w \in WrenHandle |-> IF w \in W THEN NULL ELSE L[w]]

(* Memory of the Handles in H is gone; the others are as in K. *)
Forget(K, H) == [h \in Handle |-> IF h \in H THEN Empty ELSE K[h]]

(* Once a null holder has been dereferenced nothing more can be said. *)
Running == outcome.result # "nullDereference"

Init ==
  /\ vmState = [v \in VM |-> "unborn"]
  /\ data = [b \in VMObject |-> NULL]
  /\ handle = [h \in Handle |-> Empty]
  /\ ptr = [q \in Ptr |-> NULL]
  /\ wh = [w \in WrenHandle |-> NULL]
  /\ heap = [v \in VM |-> {}]
  /\ calls = <<>>
  /\ outcome = Quiet
----------------------------------------------------------------------------
(* The VM class. *)

(* VM::VM: a VM object b that owns no data gets a new WrenVM. *)
NewVM(b, v) ==
  /\ Running
  /\ data[b] = NULL /\ vmState[v] = "unborn"
  /\ data' = [data EXCEPT ![b] = v]
  /\ vmState' = [vmState EXCEPT ![v] = "live"]
  /\ outcome' = Quiet
  /\ UNCHANGED <<handle, ptr, wh, heap, calls>>

(* VM move construction and assignment both swap the two data pointers. *)
SwapVM(b, c) ==
  /\ Running
  /\ b # c
  /\ data' = [data EXCEPT ![b] = data[c], ![c] = data[b]]
  /\ outcome' = Quiet
  /\ UNCHANGED <<vmState, handle, ptr, wh, heap, calls>>

(* Mutant: the weak pointers do not expire with the VM. *)
DestroyVMKeepsCount(b) ==
  /\ Running
  /\ data[b] # NULL
  /\ \A i \in 1 .. Len(calls) : calls[i] # data[b]
  /\ heap' = [heap EXCEPT ![data[b]] = {}]
  /\ data' = [data EXCEPT ![b] = NULL]
  /\ outcome' = Quiet
  /\ UNCHANGED <<vmState, handle, ptr, wh, calls>>

(* VM::~VM: the only strong reference goes, so every weak pointer expires  *)
(* and wrenFreeVM frees the objects; the handle list is left as it is.     *)
(* The embedder does not destroy a VM from a callback of that VM: Wren     *)
(* forbids it, and Method keeps no reference to the VM during a call.      *)
DestroyVM(b) ==
  /\ Running
  /\ data[b] # NULL
  /\ \A i \in 1 .. Len(calls) : calls[i] # data[b]
  /\ vmState' = [vmState EXCEPT ![data[b]] = "freed"]
  /\ heap' = [heap EXCEPT ![data[b]] = {}]
  /\ data' = [data EXCEPT ![b] = NULL]
  /\ outcome' = Quiet
  /\ UNCHANGED <<handle, ptr, wh, calls>>

(* Wren code allocates an object. *)
Allocate(v, o) ==
  /\ Running
  /\ vmState[v] = "live" /\ o \notin heap[v]
  /\ heap' = [heap EXCEPT ![v] = @ \cup {o}]
  /\ outcome' = Quiet
  /\ UNCHANGED <<vmState, data, handle, ptr, wh, calls>>

(* VM::gc, or a collection Wren starts itself, frees some objects that no  *)
(* WrenHandle keeps; module variables and fibers may keep the others.      *)
Collect(v, S) ==
  /\ Running
  /\ vmState[v] = "live"
  /\ S # {} /\ S \subseteq heap[v] \ Roots(v)
  /\ heap' = [heap EXCEPT ![v] = @ \ S]
  /\ outcome' = Quiet
  /\ UNCHANGED <<vmState, data, handle, ptr, wh, calls>>
----------------------------------------------------------------------------
(* Shared holders: Variable, Map and Method. *)

(* Redirect shared pointers to p, destroying Handles nothing points to.    *)
(* K and L are the Handles and the handle list with whatever was made new. *)
Settle(p, K, L) ==
  /\ ptr' = p
  /\ handle' = Forget(K, Orphans(p))
  /\ wh' = Release(L, Released(Orphans(p)))

(* std::make_shared<Handle>(vm, w) where w is a new WrenHandle for o. *)
MakesHandle(h, w, v, o) ==
  /\ h \in Shared \ Referenced(ptr)
  /\ wh[w] = NULL
  /\ o \in Obj /\ vmState[v] = "live"

(* Mutant: the constructor takes the VM and the WrenHandle the wrong way round. *)
WithHandleSwapped(h, w, v) == [handle EXCEPT ![h] = [vm |-> w, wh |-> v]]

WithHandle(h, w, v) == [handle EXCEPT ![h] = [vm |-> v, wh |-> w]]
WithWren(w, v, o) == [wh EXCEPT ![w] = [vm |-> v, obj |-> o]]

(* x = vm.find(...), or a slot read as Variable or Map, assigned to x. *)
Find(v, x, o, h, w) ==
  /\ Running
  /\ MakesHandle(h, w, v, o) /\ o \in heap[v]
  /\ Settle([ptr EXCEPT ![x] = h], WithHandle(h, w, v), WithWren(w, v, o))
  /\ outcome' = Quiet
  /\ UNCHANGED <<vmState, data, heap, calls>>

(* Mutant: a Variable that is moved gives its Handle away. *)
MoveVariable(x, y) ==
  /\ Running
  /\ x # y
  /\ Settle([ptr EXCEPT ![y] = ptr[x], ![x] = NULL], handle, wh)
  /\ outcome' = Quiet
  /\ UNCHANGED <<vmState, data, heap, calls>>

(* Variable and Map have a destructor and so no move operations: a move is *)
(* a copy, and shares the Handle.                                          *)
CopyVariable(x, y) ==
  /\ Running
  /\ x # y
  /\ Settle([ptr EXCEPT ![y] = ptr[x]], handle, wh)
  /\ outcome' = Quiet
  /\ UNCHANGED <<vmState, data, heap, calls>>

CopyMethod(m, n) ==
  /\ Running
  /\ m # n
  /\ Settle([ptr EXCEPT ![Member("variable", n)] = ptr[Member("variable", m)],
                        ![Member("handle", n)] = ptr[Member("handle", m)]],
            handle, wh)
  /\ outcome' = Quiet
  /\ UNCHANGED <<vmState, data, heap, calls>>

(* reset() or destruction of the holders whose shared pointers are in P. *)
Drop(P) ==
  /\ Settle([q \in Ptr |-> IF q \in P THEN NULL ELSE ptr[q]], handle, wh)
  /\ UNCHANGED <<vmState, data, heap, calls>>

ResetVariable(x) == Running /\ Drop({x}) /\ outcome' = Quiet
ResetMethod(m) == Running /\ Drop(MethodMembers(m)) /\ outcome' = Quiet
----------------------------------------------------------------------------
(* Uses of shared holders, with the exceptions they end in. *)

(* `handle->` without a test: a null holder is dereferenced. *)
UseNull(k, q) ==
  /\ Running
  /\ ptr[q] = NULL
  /\ outcome' = Report(k, "nullDereference")
  /\ UNCHANGED <<vmState, data, handle, ptr, wh, heap, calls>>

(* The VM of the Handle has gone: RuntimeError("Invalid handle"). *)
UseExpired(k, q) ==
  /\ Running
  /\ ptr[q] # NULL
  /\ Expired(handle[ptr[q]].vm)
  /\ outcome' = Report(k, "RuntimeError")
  /\ UNCHANGED <<vmState, data, handle, ptr, wh, heap, calls>>

(* m = x.func(...): m shares the Handle of x and gets a new one for a call *)
(* stub o, which wrenMakeCallHandle allocates.                             *)
Func(x, m, o, h, w) ==
  /\ Running
  /\ ptr[x] # NULL
  /\ LET v == handle[ptr[x]].vm
     IN  /\ ~Expired(v)
         /\ MakesHandle(h, w, v, o) /\ o \notin heap[v]
         /\ Settle([ptr EXCEPT ![Member("variable", m)] = ptr[x],
                               ![Member("handle", m)] = h],
                   WithHandle(h, w, v), WithWren(w, v, o))
         /\ heap' = [heap EXCEPT ![v] = @ \cup {o}]
  /\ outcome' = Report("variable", "ok")
  /\ UNCHANGED <<vmState, data, calls>>

(* Map::contains, get, erase and count on a live map: get has its own      *)
(* refusals, of a key that is missing and of a value of another type.      *)
QueryMap(x) ==
  /\ Running
  /\ ptr[x] # NULL /\ ~Expired(handle[ptr[x]].vm)
  /\ \E r \in {"ok", "NotFound", "BadCast"} : outcome' = Report("variable", r)
  /\ UNCHANGED <<vmState, data, handle, ptr, wh, heap, calls>>
----------------------------------------------------------------------------
(* Any: a type and an embedded Handle.  An Any that holds null, was default *)
(* constructed or moved from has an Empty Handle.                           *)

IsNull(a) == handle[a] = Empty

(* m(...): wrenCall starts.  Until it returns Wren runs, and foreign       *)
(* methods it calls may do anything with the holders, m included.          *)
BeginCall(m) ==
  /\ Running
  /\ Len(calls) < MaxDepth
  /\ LET f == ptr[Member("handle", m)]
     IN  /\ f # NULL /\ ~Expired(handle[f].vm)
         /\ calls' = <<handle[f].vm>> \o calls
  /\ outcome' = Quiet
  /\ UNCHANGED <<vmState, data, handle, ptr, wh, heap>>

(* The innermost call failed: RuntimeError, and nothing is assigned.       *)
FailCall ==
  /\ Running
  /\ calls # <<>>
  /\ calls' = Tail(calls)
  /\ outcome' = Report("method", "RuntimeError")
  /\ UNCHANGED <<vmState, data, handle, ptr, wh, heap>>

(* a = m(...) gets null: the result is a default Any, swapped with a, and  *)
(* the temporary destroys what a held before.                              *)
ReturnNull(a) ==
  /\ Running
  /\ calls # <<>>
  /\ calls' = Tail(calls)
  /\ handle' = [handle EXCEPT ![a] = Empty]
  /\ wh' = Release(wh, Released({a}))
  /\ outcome' = Report("method", "ok")
  /\ UNCHANGED <<vmState, data, ptr, heap>>

(* Mutant: the result overwrites what a held. *)
OverwriteObject(a, o, w) ==
  /\ Running
  /\ calls # <<>>
  /\ calls' = Tail(calls)
  /\ LET v == Head(calls)
     IN  /\ wh[w] = NULL /\ o \in heap[v]
         /\ handle' = [handle EXCEPT ![a] = [vm |-> v, wh |-> w]]
         /\ wh' = WithWren(w, v, o)
  /\ outcome' = Report("method", "ok")
  /\ UNCHANGED <<vmState, data, ptr, heap>>

(* a = m(...) gets an object o: the new WrenHandle is made before the one  *)
(* a held is released.                                                     *)
ReturnObject(a, o, w) ==
  /\ Running
  /\ calls # <<>>
  /\ calls' = Tail(calls)
  /\ LET v == Head(calls)
     IN  /\ wh[w] = NULL /\ o \in heap[v]
         /\ handle' = [handle EXCEPT ![a] = [vm |-> v, wh |-> w]]
         /\ wh' = Release(WithWren(w, v, o), Released({a}))
  /\ outcome' = Report("method", "ok")
  /\ UNCHANGED <<vmState, data, ptr, heap>>

(* Mutant: the swap exchanges the WrenHandles and not the VMs. *)
MoveWrenHandle(a, b) ==
  /\ Running
  /\ a # b
  /\ handle' = [handle EXCEPT ![a].wh = handle[b].wh, ![b].wh = handle[a].wh]
  /\ outcome' = Quiet
  /\ UNCHANGED <<vmState, data, ptr, wh, heap, calls>>

(* a = std::move(b): a swap, so b now keeps what a held. *)
MoveAny(a, b) ==
  /\ Running
  /\ a # b
  /\ handle' = [handle EXCEPT ![a] = handle[b], ![b] = handle[a]]
  /\ outcome' = Quiet
  /\ UNCHANGED <<vmState, data, ptr, wh, heap, calls>>

(* The scope of a ends. *)
DestroyAny(a) ==
  /\ Running
  /\ handle' = [handle EXCEPT ![a] = Empty]
  /\ wh' = Release(wh, Released({a}))
  /\ outcome' = Quiet
  /\ UNCHANGED <<vmState, data, ptr, heap, calls>>

(* Mutant: the Variable takes over the WrenHandle that a still owns. *)
BorrowVariable(a, x, h, w) ==
  /\ Running
  /\ Usable(a)
  /\ LET v == handle[a].vm
     IN  /\ MakesHandle(h, w, v, wh[handle[a].wh].obj)
         /\ Settle([ptr EXCEPT ![x] = h], WithHandle(h, handle[a].wh, v), wh)
  /\ outcome' = Report("any", "ok")
  /\ UNCHANGED <<vmState, data, heap, calls>>

(* x = a.as<Variable>() or a.as<Map>(): a second WrenHandle on the object. *)
AsVariable(a, x, h, w) ==
  /\ Running
  /\ Usable(a)
  /\ LET v == handle[a].vm
         o == wh[handle[a].wh].obj
     IN  /\ MakesHandle(h, w, v, o)
         /\ Settle([ptr EXCEPT ![x] = h], WithHandle(h, w, v), WithWren(w, v, o))
  /\ outcome' = Report("any", "ok")
  /\ UNCHANGED <<vmState, data, heap, calls>>

(* a.as<T>() that creates no holder, and a.is<T>() for a class or a map: a *)
(* null value is false or a BadCast before the VM is tested, and a value   *)
(* of another type is false or a BadCast after it.                         *)
AsValue(a) ==
  /\ Running
  /\ \/ /\ ~IsNull(a) /\ Expired(handle[a].vm)
        /\ outcome' = Report("any", "RuntimeError")
     \/ /\ IsNull(a) \/ Usable(a)
        /\ \E r \in {"ok", "BadCast"} : outcome' = Report("any", r)
  /\ UNCHANGED <<vmState, data, handle, ptr, wh, heap, calls>>

(* a.as<std::nullptr_t>() also goes by the remembered type alone. *)
AsNull(a) ==
  /\ Running
  /\ outcome' = Report("any", IF IsNull(a) THEN "ok" ELSE "BadCast")
  /\ UNCHANGED <<vmState, data, handle, ptr, wh, heap, calls>>

(* a.is<T>() for a number, bool, string or null only compares the type it  *)
(* remembers, and never looks at the VM.                                   *)
IsBasic(a) ==
  /\ Running
  /\ outcome' = Report("any", "ok")
  /\ UNCHANGED <<vmState, data, handle, ptr, wh, heap, calls>>
----------------------------------------------------------------------------
VMStep ==
  \/ \E b \in VMObject, v \in VM : NewVM(b, v)
  \/ \E b, c \in VMObject : SwapVM(b, c)
  \/ \E b \in VMObject : DestroyVM(b)
  \/ \E v \in VM, o \in Obj : Allocate(v, o)
  \/ \E v \in VM : \E S \in SUBSET heap[v] : Collect(v, S)

SharedStep ==
  \/ \E v \in VM, x \in Variable, o \in Obj, h \in Shared, w \in WrenHandle :
       Find(v, x, o, h, w)
  \/ \E x, y \in Variable : CopyVariable(x, y)
  \/ \E m, n \in Method : CopyMethod(m, n)
  \/ \E x \in Variable : ResetVariable(x)
  \/ \E m \in Method : ResetMethod(m)
  \/ \E x \in Variable, m \in Method, o \in Obj, h \in Shared, w \in WrenHandle :
       Func(x, m, o, h, w)

UseStep ==
  \/ \E x \in Variable : UseNull("variable", x) \/ UseExpired("variable", x)
  \/ \E m \in Method : \/ UseNull("method", Member("handle", m))
                       \/ UseExpired("method", Member("handle", m))
  \/ \E x \in Variable : QueryMap(x)
  \/ \E a \in ReturnValue : AsValue(a) \/ AsNull(a) \/ IsBasic(a)

AnyStep ==
  \/ \E m \in Method : BeginCall(m)
  \/ FailCall
  \/ \E a \in ReturnValue : ReturnNull(a)
  \/ \E a \in ReturnValue, o \in Obj, w \in WrenHandle : ReturnObject(a, o, w)
  \/ \E a, b \in ReturnValue : MoveAny(a, b)
  \/ \E a \in ReturnValue : DestroyAny(a)
  \/ \E a \in ReturnValue, x \in Variable, h \in Shared, w \in WrenHandle :
       AsVariable(a, x, h, w)

Next == VMStep \/ SharedStep \/ UseStep \/ AnyStep

Spec == Init /\ [][Next]_vars
----------------------------------------------------------------------------
(* Properties. *)

(* A Handle never names a WrenHandle that was given back, or one of another *)
(* VM: whatever swaps, copies and resets came before, wrenSetSlotHandle and *)
(* wrenReleaseHandle are called with the VM the WrenHandle is from.         *)
HandleMatches ==
  \A h \in Handle :
    handle[h].wh # NULL => /\ wh[handle[h].wh] # NULL
                           /\ wh[handle[h].wh].vm = handle[h].vm

(* No WrenHandle has two owners, so none is released twice (Handle is      *)
(* move-only, and the other holders share one Handle).                     *)
SoleOwner ==
  \A h, g \in Handle : handle[h].wh = handle[g].wh /\ h # g => handle[h].wh = NULL

(* No WrenHandle of a live VM is lost: one that is not released can still  *)
(* be released by the death of some holder that exists.                    *)
NoLeak ==
  \A w \in WrenHandle :
    wh[w] # NULL /\ vmState[wh[w].vm] = "live" =>
      \/ \E a \in ReturnValue : handle[a].wh = w
      \/ \E q \in Ptr : ptr[q] # NULL /\ handle[ptr[q]].wh = w

(* "As long as this ReturnValue instance exists the Wren object will       *)
(* exist" (any.hpp:18), and so for every other holder of a live VM.        *)
HeldObjectExists ==
  \A h \in Handle : Usable(h) => wh[handle[h].wh].obj \in heap[handle[h].vm]

(* Holders that outlive their VM do not touch it: the handle list of a VM  *)
(* that was freed is never written again (handle.hpp:62).                  *)
FreedUntouched ==
  [][\A w \in WrenHandle :
       wh[w] # NULL /\ vmState[wh[w].vm] = "freed" => wh'[w] = wh[w]]_vars
=============================================================================
