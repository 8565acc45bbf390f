-------------------------- MODULE RefinementProofs --------------------------
(***************************************************************************)
(* Holders implements Retention, for any number of VMs, holders and        *)
(* handles: every step of the holders is one step of plain references, or  *)
(* changes nothing they show.                                              *)
(***************************************************************************)
EXTENDS HoldersRefinement, HoldersProofs

(* A VM object owns a VM that exists, and no other object owns it. *)
DataLive ==
  \A b \in VMObject :
    data[b] # NULL => /\ vmState[data[b]] = "live"
                      /\ \A c \in VMObject : data[c] = data[b] => c = b

(* A Handle that shared pointers target was never emptied. *)
SharedFull == \A q \in Ptr : ptr[q] # NULL => handle[ptr[q]].wh # NULL

(* What the refinement needs to know of a state of Holders. *)
Retained == Ownership /\ DataLive /\ SharedFull
----------------------------------------------------------------------------
(* The holders of Retention are the shared pointers and the Anys. *)
LEMMA HoldersOfPromise ==
  /\ Promise!Holder = Ptr \cup ReturnValue
  /\ \A m \in Method : /\ Promise!First(m) = Member("variable", m)
                       /\ Promise!Second(m) = Member("handle", m)
  BY DEF Promise!Holder, Promise!First, Promise!Second, Ptr, Members,
         MethodMembers, Member

(* The references of the holders, now and after a step. *)
LEMMA HeldFunction ==
  /\ held = [x \in Ptr \cup ReturnValue |-> held[x]]
  /\ held' = [x \in Ptr \cup ReturnValue |-> held'[x]]
  BY DEF held

(* What one holder refers to, now and after a step. *)
LEMMA HeldAt ==
  ASSUME NEW x \in Ptr \cup ReturnValue
  PROVE  /\ held[x] = IF x \in ReturnValue THEN Meaning(x)
                      ELSE IF ptr[x] = NULL THEN NULL ELSE Meaning(ptr[x])
         /\ held'[x] = IF x \in ReturnValue THEN Meaning(x)'
                       ELSE IF ptr'[x] = NULL THEN NULL ELSE Meaning(ptr[x])'
  BY DEF held

(* A Handle stands for nothing, or for an object of its own live VM that   *)
(* has not been collected.                                                 *)
LEMMA MeaningReference ==
  ASSUME Ownership, NEW h \in Handle, Meaning(h) # NULL
  PROVE  /\ Usable(h) /\ Meaning(h) = wh[handle[h].wh]
         /\ handle[h].wh \in WrenHandle
         /\ handle[h].vm \in VM /\ vmState[handle[h].vm] = "live"
         /\ Meaning(h) = [vm |-> handle[h].vm, obj |-> Meaning(h).obj]
         /\ Meaning(h).obj \in Obj /\ Meaning(h).obj \in heap[handle[h].vm]
  <1>1. /\ Usable(h) /\ Meaning(h) = wh[handle[h].wh]
        /\ handle[h].wh \in WrenHandle
        /\ handle[h].vm \in VM /\ vmState[handle[h].vm] = "live"
    BY DEF Meaning, Usable, Expired, Ownership, TypeOK
  <1>2. wh[handle[h].wh] # NULL /\ wh[handle[h].wh].vm = handle[h].vm
    BY <1>1 DEF Usable, Ownership, HandleMatches
  <1>3. wh[handle[h].wh] \in [vm : VM, obj : Obj]
    BY <1>1, <1>2 DEF Ownership, TypeOK
  <1> QED
    BY <1>1, <1>2, <1>3 DEF Ownership, RootsExist

(* A Handle a step leaves alone goes on standing for the same object: its  *)
(* WrenHandle could only have been given back, and it matches afterwards.  *)
LEMMA MeaningKept ==
  ASSUME Ownership, HandleMatches', UNCHANGED vmState,
         NEW h \in Handle, handle'[h] = handle[h],
         handle[h].wh # NULL =>
           wh'[handle[h].wh] \in {wh[handle[h].wh], NULL}
  PROVE  Meaning(h)' = Meaning(h)
  BY DEF Meaning, Usable, Expired, HandleMatches

(* The Handle of an Any is not one that a shared pointer destroys. *)
LEMMA SettleApart ==
  ASSUME Ownership, NEW p \in [Ptr -> Shared \cup {NULL}], NEW K, NEW L,
         Settle(p, K, L), NEW a \in ReturnValue
  PROVE  handle'[a] = K[a]
  <1> USE HolderAssumption
  <1>1. Orphans(p) \subseteq Shared
    BY DEF Orphans, Referenced, Ownership, TypeOK
  <1> QED
    BY <1>1 DEF Settle, Forget, Handle
----------------------------------------------------------------------------
(* Shared pointers redirected to Handles that exist: each holder refers to *)
(* what its new target stood for, and the Anys keep what they had.         *)
LEMMA SettleOldHeld ==
  ASSUME Ownership,
         NEW p \in [Ptr -> Shared \cup {NULL}],
         Referenced(p) \subseteq Referenced(ptr),
         Settle(p, handle, wh),
         UNCHANGED <<vmState, calls>>,
         NEW x \in Ptr \cup ReturnValue
  PROVE  held'[x] = IF x \in ReturnValue THEN held[x]
                    ELSE IF p[x] = NULL THEN NULL ELSE Meaning(p[x])
  <1>1. /\ HandleMatches'
        /\ \A g \in Referenced(p) : handle'[g] = handle[g]
        /\ \A u \in WrenHandle : wh'[u] \in {wh[u], NULL}
    BY SettleOld
  <1>2. \A h \in Handle : handle[h].wh \in WrenHandle \cup {NULL}
    BY DEF Ownership, TypeOK
  <1>3. CASE x \in ReturnValue
    <2>1. x \in Handle /\ handle'[x] = handle[x]
      BY <1>3, SettleApart DEF Handle
    <2>2. Meaning(x)' = Meaning(x)
      BY <1>1, <1>2, <2>1, MeaningKept
    <2> QED
      BY <1>3, <2>2, HeldAt
  <1>4. CASE x \notin ReturnValue /\ p[x] # NULL
    <2>1. x \in Ptr /\ p[x] \in Referenced(p) /\ p[x] \in Handle
      BY <1>4 DEF Referenced, Handle
    <2>2. handle'[p[x]] = handle[p[x]]
      BY <1>1, <2>1
    <2>3. \A h \in Handle : h = p[x] => Meaning(h)' = Meaning(h)
      BY <1>1, <1>2, <2>2, MeaningKept
    <2>4. ptr' = p
      BY DEF Settle
    <2> QED
      BY <1>4, <2>1, <2>3, <2>4 DEF held, Meaning, Usable, Expired
  <1>5. CASE x \notin ReturnValue /\ p[x] = NULL
    BY <1>5, HeldAt DEF Settle
  <1> QED
    BY <1>3, <1>4, <1>5

(* The same when a Handle h with a WrenHandle for o was made: a shared     *)
(* pointer to h refers to o.                                               *)
LEMMA SettleNewHeld ==
  ASSUME Ownership,
         NEW p \in [Ptr -> Shared \cup {NULL}],
         NEW h \in Shared, NEW w \in WrenHandle, NEW v \in VM, NEW o \in Obj,
         MakesHandle(h, w, v, o),
         h \in Referenced(p),
         Referenced(p) \subseteq Referenced(ptr) \cup {h},
         Settle(p, WithHandle(h, w, v), WithWren(w, v, o)),
         UNCHANGED <<vmState, calls>>,
         NEW x \in Ptr \cup ReturnValue
  PROVE  held'[x] = IF x \in ReturnValue THEN held[x]
                    ELSE IF p[x] = NULL THEN NULL
                    ELSE IF p[x] = h THEN [vm |-> v, obj |-> o]
                    ELSE Meaning(p[x])
  <1> USE HolderAssumption
  <1>1. /\ HandleMatches'
        /\ handle'[h] = [vm |-> v, wh |-> w] /\ wh'[w] = [vm |-> v, obj |-> o]
        /\ \A g \in Referenced(p) \ {h} : handle'[g] = handle[g]
        /\ \A u \in WrenHandle \ {w} : wh'[u] \in {wh[u], NULL}
    BY SettleNew
  <1>2. \A g \in Handle : /\ handle[g].wh \in WrenHandle \cup {NULL}
                          /\ handle[g].wh # w
    BY DEF Ownership, TypeOK, HandleMatches, MakesHandle
  <1>3. CASE x \in ReturnValue
    <2>1. x \in Handle /\ handle'[x] = WithHandle(h, w, v)[x]
      BY <1>3, SettleApart DEF Handle
    <2>2. handle'[x] = handle[x]
      BY <1>3, <2>1 DEF WithHandle, Ownership, TypeOK
    <2>3. Meaning(x)' = Meaning(x)
      BY <1>1, <1>2, <2>1, <2>2, MeaningKept
    <2> QED
      BY <1>3, <2>3, HeldAt
  <1>4. CASE x \notin ReturnValue /\ p[x] # NULL /\ p[x] # h
    <2>1. x \in Ptr /\ p[x] \in Referenced(p) /\ p[x] \in Handle
      BY <1>4 DEF Referenced, Handle
    <2>2. handle'[p[x]] = handle[p[x]]
      BY <1>1, <1>4, <2>1
    <2>3. \A g \in Handle : g = p[x] => Meaning(g)' = Meaning(g)
      BY <1>1, <1>2, <2>2, MeaningKept
    <2>4. ptr' = p
      BY DEF Settle
    <2> QED
      BY <1>4, <2>1, <2>3, <2>4 DEF held, Meaning, Usable, Expired
  <1>5. CASE x \notin ReturnValue /\ p[x] = NULL
    BY <1>5, HeldAt DEF Settle
  <1>6. CASE x \notin ReturnValue /\ p[x] = h
    <2>1. ptr'[x] = h /\ h # NULL
      BY <1>6 DEF Settle
    <2>2. vmState'[v] = "live" /\ v # NULL /\ w # NULL
      BY DEF MakesHandle
    <2> QED
      BY <1>6, <1>1, <2>1, <2>2 DEF held, Meaning, Usable, Expired
  <1> QED
    BY <1>3, <1>4, <1>5, <1>6
----------------------------------------------------------------------------
(* Targets that keep their Handles keep their WrenHandles. *)
LEMMA SettleOldFull ==
  ASSUME Ownership, SharedFull,
         NEW p \in [Ptr -> Shared \cup {NULL}],
         Referenced(p) \subseteq Referenced(ptr),
         Settle(p, handle, wh),
         UNCHANGED <<vmState, calls>>
  PROVE  SharedFull'
  <1>1. \A g \in Referenced(p) : handle'[g] = handle[g]
    BY SettleOld
  <1>2. \A g \in Referenced(ptr) : handle[g].wh # NULL
    BY DEF SharedFull, Referenced
  <1>3. ptr' = p /\ \A q \in Ptr : p[q] # NULL => p[q] \in Referenced(p)
    BY DEF Settle, Referenced
  <1> QED
    BY <1>1, <1>2, <1>3 DEF SharedFull

(* A Handle that is made has a WrenHandle. *)
LEMMA SettleNewFull ==
  ASSUME Ownership, SharedFull,
         NEW p \in [Ptr -> Shared \cup {NULL}],
         NEW h \in Shared, NEW w \in WrenHandle, NEW v \in VM, NEW o \in Obj,
         MakesHandle(h, w, v, o),
         h \in Referenced(p),
         Referenced(p) \subseteq Referenced(ptr) \cup {h},
         Settle(p, WithHandle(h, w, v), WithWren(w, v, o)),
         UNCHANGED <<vmState, calls>>
  PROVE  SharedFull'
  <1>1. /\ HandleMatches'
        /\ handle'[h] = [vm |-> v, wh |-> w] /\ wh'[w] = [vm |-> v, obj |-> o]
        /\ \A g \in Referenced(p) \ {h} : handle'[g] = handle[g]
    BY SettleNew
  <1>0. handle'[h].wh = w /\ w # NULL
    BY <1>1, HolderAssumption
  <1>2. \A g \in Referenced(ptr) : handle[g].wh # NULL
    BY DEF SharedFull, Referenced
  <1>3. ptr' = p /\ \A q \in Ptr : p[q] # NULL => p[q] \in Referenced(p)
    BY DEF Settle, Referenced
  <1> QED
    BY <1>0, <1>1, <1>2, <1>3 DEF SharedFull
----------------------------------------------------------------------------
(* A Variable or Map given a Handle for o takes a reference to o. *)
LEMMA TakeStep ==
  ASSUME Retained,
         NEW v \in VM, NEW x \in Variable, NEW o \in Obj,
         NEW h \in Shared, NEW w \in WrenHandle,
         MakesHandle(h, w, v, o), o \in heap[v],
         Settle([ptr EXCEPT ![x] = h], WithHandle(h, w, v), WithWren(w, v, o)),
         UNCHANGED <<vmState, data, heap, calls>>
  PROVE  Promise!Take(x, v, o) /\ SharedFull'
  <1> DEFINE p == [ptr EXCEPT ![x] = h]
  <1> USE HolderAssumption
  <1>1. /\ p \in [Ptr -> Shared \cup {NULL}]
        /\ x \in Ptr /\ x \notin ReturnValue /\ p[x] = h /\ h # NULL
        /\ \A y \in Ptr : y # x => p[y] = ptr[y]
    BY DEF Retained, Ownership, TypeOK, Ptr
  <1>2. h \in Referenced(p) /\ Referenced(p) \subseteq Referenced(ptr) \cup {h}
    BY <1>1 DEF Referenced
  <1>3. \A y \in Ptr : ptr[y] # h
    BY <1>1 DEF MakesHandle, Referenced
  <1>4. Settle(p, WithHandle(h, w, v), WithWren(w, v, o))
    OBVIOUS
  <1> HIDE DEF p
  <1>5. SharedFull'
    BY <1>1, <1>2, <1>4, SettleNewFull DEF Retained
  <1>6. \A y \in Ptr \cup ReturnValue :
          held'[y] = IF y = x THEN [vm |-> v, obj |-> o] ELSE held[y]
    <2> SUFFICES ASSUME NEW y \in Ptr \cup ReturnValue
                 PROVE  held'[y] = IF y = x THEN [vm |-> v, obj |-> o] ELSE held[y]
      OBVIOUS
    <2>1. held'[y] = IF y \in ReturnValue THEN held[y]
                     ELSE IF p[y] = NULL THEN NULL
                     ELSE IF p[y] = h THEN [vm |-> v, obj |-> o]
                     ELSE Meaning(p[y])
      BY <1>1, <1>2, <1>4, SettleNewHeld DEF Retained
    <2> QED
      BY <2>1, <1>1, <1>3, HeldAt
  <1>7. held' = [held EXCEPT ![x] = [vm |-> v, obj |-> o]]
    BY <1>1, <1>6, HeldFunction
  <1> QED
    BY <1>5, <1>7 DEF Promise!Take, Promise!Ref, MakesHandle

(* func() binds a pair to the receiver and to a call stub made for it. *)
LEMMA BindStep ==
  ASSUME Retained,
         NEW x \in Variable, NEW m \in Method, NEW o \in Obj,
         NEW h \in Shared, NEW w \in WrenHandle,
         Func(x, m, o, h, w)
  PROVE  Promise!Bind(x, m, o) /\ SharedFull'
  <1> DEFINE v == handle[ptr[x]].vm
             r == Member("variable", m)
             s == Member("handle", m)
             p == [ptr EXCEPT ![r] = ptr[x], ![s] = h]
  <1> USE HolderAssumption
  <1>1. /\ r \in Ptr /\ s \in Ptr /\ r # s /\ x \in Ptr
        /\ r \notin ReturnValue /\ s \notin ReturnValue /\ x \notin ReturnValue
    BY MemberInPtr DEF Ptr
  <1>2. /\ ptr[x] # NULL /\ ptr[x] \in Shared /\ ptr[x] \in Handle
        /\ v \in VM /\ vmState[v] = "live"
    BY <1>1 DEF Func, Expired, Retained, Ownership, TypeOK, Handle
  <1>3. /\ MakesHandle(h, w, v, o) /\ o \notin heap[v]
        /\ Settle(p, WithHandle(h, w, v), WithWren(w, v, o))
        /\ heap' = [heap EXCEPT ![v] = @ \cup {o}]
        /\ UNCHANGED <<vmState, calls>>
    BY DEF Func
  <1>4. Meaning(ptr[x]) # NULL /\ Meaning(ptr[x]).vm = v
    <2>1. Usable(ptr[x]) /\ handle[ptr[x]].wh # NULL
      BY <1>1, <1>2 DEF Usable, Expired, Retained, SharedFull
    <2> QED
      BY <1>2, <2>1 DEF Meaning, Retained, Ownership, HandleMatches
  <1> HIDE DEF v, r, s
  <1>5. /\ p \in [Ptr -> Shared \cup {NULL}]
        /\ p[r] = ptr[x] /\ p[s] = h /\ h # NULL
        /\ \A y \in Ptr : y # r /\ y # s => p[y] = ptr[y]
    BY <1>1, <1>2 DEF Retained, Ownership, TypeOK
  <1> HIDE DEF p
  <1>6. h \in Referenced(p) /\ Referenced(p) \subseteq Referenced(ptr) \cup {h}
    BY <1>1, <1>2, <1>5 DEF Referenced
  <1>7. \A y \in Ptr : ptr[y] # h
    BY <1>3, <1>5 DEF MakesHandle, Referenced
  <1>8. SharedFull'
    BY <1>2, <1>3, <1>5, <1>6, SettleNewFull DEF Retained
  <1>9. \A y \in Ptr \cup ReturnValue :
          held'[y] = IF y = r THEN held[x]
                     ELSE IF y = s THEN [vm |-> v, obj |-> o] ELSE held[y]
    <2> SUFFICES ASSUME NEW y \in Ptr \cup ReturnValue
                 PROVE  held'[y] = IF y = r THEN held[x]
                                   ELSE IF y = s THEN [vm |-> v, obj |-> o]
                                   ELSE held[y]
      OBVIOUS
    <2>1. held'[y] = IF y \in ReturnValue THEN held[y]
                     ELSE IF p[y] = NULL THEN NULL
                     ELSE IF p[y] = h THEN [vm |-> v, obj |-> o]
                     ELSE Meaning(p[y])
      BY <1>2, <1>3, <1>5, <1>6, SettleNewHeld DEF Retained
    <2> QED
      BY <2>1, <1>1, <1>2, <1>5, <1>7, HeldAt
  <1>10. held' = [held EXCEPT ![r] = held[x], ![s] = [vm |-> v, obj |-> o]]
    BY <1>1, <1>9, HeldFunction
  <1>11. held[x] # NULL /\ held[x].vm = v
    BY <1>1, <1>2, <1>4, HeldAt
  <1> QED
    BY <1>3, <1>8, <1>10, <1>11, HoldersOfPromise DEF Promise!Bind, Promise!Ref, r, s

(* Copying a Variable or Map shares its reference. *)
LEMMA ShareStep ==
  ASSUME Retained, NEW x \in Variable, NEW y \in Variable, CopyVariable(x, y)
  PROVE  Promise!Share(x, y) /\ SharedFull'
  <1> DEFINE p == [ptr EXCEPT ![y] = ptr[x]]
  <1> USE HolderAssumption
  <1>1. /\ p \in [Ptr -> Shared \cup {NULL}]
        /\ x \in Ptr /\ y \in Ptr /\ x \notin ReturnValue /\ y \notin ReturnValue
        /\ p[y] = ptr[x] /\ \A z \in Ptr : z # y => p[z] = ptr[z]
    BY DEF Retained, Ownership, TypeOK, Ptr
  <1>2. Settle(p, handle, wh) /\ UNCHANGED <<vmState, heap, calls>>
    BY DEF CopyVariable
  <1> HIDE DEF p
  <1>3. Referenced(p) \subseteq Referenced(ptr)
    BY <1>1 DEF Referenced
  <1>4. \A z \in Ptr \cup ReturnValue : held'[z] = IF z = y THEN held[x] ELSE held[z]
    <2> SUFFICES ASSUME NEW z \in Ptr \cup ReturnValue
                 PROVE  held'[z] = IF z = y THEN held[x] ELSE held[z]
      OBVIOUS
    <2>1. held'[z] = IF z \in ReturnValue THEN held[z]
                     ELSE IF p[z] = NULL THEN NULL ELSE Meaning(p[z])
      BY <1>1, <1>2, <1>3, SettleOldHeld DEF Retained
    <2> QED
      BY <2>1, <1>1, HeldAt
  <1>5. held' = [held EXCEPT ![y] = held[x]]
    BY <1>1, <1>4, HeldFunction
  <1> QED
    BY <1>1, <1>2, <1>3, <1>5, SettleOldFull DEF Retained, Promise!Share

(* Copying a Method shares both its references. *)
LEMMA SharePairStep ==
  ASSUME Retained, NEW m \in Method, NEW n \in Method, CopyMethod(m, n)
  PROVE  Promise!SharePair(m, n) /\ SharedFull'
  <1> DEFINE r == Member("variable", n)
             s == Member("handle", n)
             p == [ptr EXCEPT ![r] = ptr[Member("variable", m)],
                              ![s] = ptr[Member("handle", m)]]
  <1> USE HolderAssumption
  <1>1. /\ r \in Ptr /\ s \in Ptr /\ r # s
        /\ Member("variable", m) \in Ptr /\ Member("handle", m) \in Ptr
        /\ \A z \in Ptr : z \notin ReturnValue
    BY MemberInPtr
  <1>2. Settle(p, handle, wh) /\ UNCHANGED <<vmState, heap, calls>>
    BY DEF CopyMethod
  <1> HIDE DEF r, s
  <1>3. /\ p \in [Ptr -> Shared \cup {NULL}]
        /\ p[r] = ptr[Member("variable", m)] /\ p[s] = ptr[Member("handle", m)]
        /\ \A z \in Ptr : z # r /\ z # s => p[z] = ptr[z]
    BY <1>1 DEF Retained, Ownership, TypeOK
  <1> HIDE DEF p
  <1>4. Referenced(p) \subseteq Referenced(ptr)
    BY <1>1, <1>3 DEF Referenced
  <1>5. \A z \in Ptr \cup ReturnValue :
          held'[z] = IF z = r THEN held[Member("variable", m)]
                     ELSE IF z = s THEN held[Member("handle", m)] ELSE held[z]
    <2> SUFFICES ASSUME NEW z \in Ptr \cup ReturnValue
                 PROVE  held'[z] = IF z = r THEN held[Member("variable", m)]
                                   ELSE IF z = s THEN held[Member("handle", m)]
                                   ELSE held[z]
      OBVIOUS
    <2>1. held'[z] = IF z \in ReturnValue THEN held[z]
                     ELSE IF p[z] = NULL THEN NULL ELSE Meaning(p[z])
      BY <1>2, <1>3, <1>4, SettleOldHeld DEF Retained
    <2> QED
      BY <2>1, <1>1, <1>3, HeldAt
  <1>6. held' = [held EXCEPT ![r] = held[Member("variable", m)],
                             ![s] = held[Member("handle", m)]]
    BY <1>1, <1>5, HeldFunction
  <1> QED
    BY <1>2, <1>3, <1>4, <1>6, HoldersOfPromise, SettleOldFull
    DEF Retained, Promise!SharePair, r, s

(* Dropping shared pointers releases their references and no others. *)
LEMMA ReleaseStep ==
  ASSUME Retained, NEW P \in SUBSET Ptr, Drop(P)
  PROVE  Promise!Release(P) /\ SharedFull'
  <1> DEFINE p == [q \in Ptr |-> IF q \in P THEN NULL ELSE ptr[q]]
  <1> USE HolderAssumption
  <1>1. /\ p \in [Ptr -> Shared \cup {NULL}]
        /\ \A q \in Ptr : /\ p[q] = IF q \in P THEN NULL ELSE ptr[q]
                          /\ q \notin ReturnValue
    BY DEF Retained, Ownership, TypeOK
  <1>2. Settle(p, handle, wh) /\ UNCHANGED <<vmState, heap, calls>>
    BY DEF Drop
  <1> HIDE DEF p
  <1>3. Referenced(p) \subseteq Referenced(ptr)
    BY <1>1 DEF Referenced
  <1>4. \A z \in Ptr \cup ReturnValue : held'[z] = IF z \in P THEN NULL ELSE held[z]
    <2> SUFFICES ASSUME NEW z \in Ptr \cup ReturnValue
                 PROVE  held'[z] = IF z \in P THEN NULL ELSE held[z]
      OBVIOUS
    <2>1. held'[z] = IF z \in ReturnValue THEN held[z]
                     ELSE IF p[z] = NULL THEN NULL ELSE Meaning(p[z])
      BY <1>1, <1>2, <1>3, SettleOldHeld DEF Retained
    <2> QED
      BY <2>1, <1>1, HeldAt
  <1>5. held' = [z \in Ptr \cup ReturnValue |-> IF z \in P THEN NULL ELSE held[z]]
    BY <1>4, HeldFunction
  <1> QED
    BY <1>1, <1>2, <1>3, <1>5, HoldersOfPromise, SettleOldFull DEF Retained, Promise!Release
----------------------------------------------------------------------------
(* What a step of the shared holders shows. *)
LEMMA SharedStepImplements ==
  ASSUME Retained, SharedStep
  PROVE  Promise!Next /\ SharedFull'
  <1>1. CASE \E v \in VM, x \in Variable, o \in Obj, h \in Shared, w \in WrenHandle :
               Find(v, x, o, h, w)
    <2> PICK v \in VM, x \in Variable, o \in Obj, h \in Shared, w \in WrenHandle :
               Find(v, x, o, h, w)
      BY <1>1
    <2> QED
      BY TakeStep DEF Find, Promise!Next
  <1>2. CASE \E x, y \in Variable : CopyVariable(x, y)
    BY <1>2, ShareStep DEF Promise!Next
  <1>3. CASE \E m, n \in Method : CopyMethod(m, n)
    BY <1>3, SharePairStep DEF Promise!Next
  <1>4. CASE \E x \in Variable : ResetVariable(x)
    <2> PICK x \in Variable : ResetVariable(x)
      BY <1>4
    <2>1. Promise!Release({x}) /\ SharedFull'
      BY ReleaseStep DEF ResetVariable, Ptr
    <2> QED
      BY <2>1 DEF Promise!Next
  <1>5. CASE \E m \in Method : ResetMethod(m)
    <2> PICK m \in Method : ResetMethod(m)
      BY <1>5
    <2>1. Promise!Release(MethodMembers(m)) /\ SharedFull'
      BY ReleaseStep, MemberInPtr DEF ResetMethod, MethodMembers
    <2>2. MethodMembers(m) = {Promise!First(m), Promise!Second(m)}
      BY HoldersOfPromise DEF MethodMembers
    <2> QED
      BY <2>1, <2>2 DEF Promise!Next
  <1>6. CASE \E x \in Variable, m \in Method, o \in Obj, h \in Shared, w \in WrenHandle :
               Func(x, m, o, h, w)
    BY <1>6, BindStep DEF Promise!Next
  <1> QED
    BY <1>1, <1>2, <1>3, <1>4, <1>5, <1>6 DEF SharedStep
----------------------------------------------------------------------------
(* Giving an Any another Handle leaves every other holder as it was. *)
LEMMA AnyHeld ==
  ASSUME Ownership, HandleMatches', NEW a \in ReturnValue, NEW new, NEW L,
         handle' = [handle EXCEPT ![a] = new],
         wh' = Release(L, Released({a})),
         \A u \in WrenHandle : wh[u] # NULL => L[u] = wh[u],
         UNCHANGED <<vmState, ptr>>,
         NEW y \in Ptr \cup ReturnValue, y # a
  PROVE  held'[y] = held[y]
  <1> USE HolderAssumption
  <1>1. \A g \in Handle : handle[g].wh # NULL =>
          /\ handle[g].wh \in WrenHandle
          /\ wh'[handle[g].wh] \in {wh[handle[g].wh], NULL}
    BY DEF Ownership, TypeOK, HandleMatches, Release
  <1>2. CASE y \in ReturnValue
    <2>1. y \in Handle /\ handle'[y] = handle[y]
      BY <1>2 DEF Ownership, TypeOK, Handle
    <2>2. Meaning(y)' = Meaning(y)
      BY <1>1, <2>1, MeaningKept
    <2> QED
      BY <1>2, <2>2, HeldAt
  <1>3. CASE y \notin ReturnValue /\ ptr[y] # NULL
    <2>1. /\ ptr[y] \in Handle /\ handle'[ptr[y]] = handle[ptr[y]]
          /\ ptr'[y] = ptr[y]
      BY <1>3 DEF Ownership, TypeOK, Handle
    <2>2. \A g \in Handle : g = ptr[y] => Meaning(g)' = Meaning(g)
      BY <1>1, <2>1, MeaningKept
    <2> QED
      BY <1>3, <2>1, <2>2 DEF held, Meaning, Usable, Expired
  <1>4. CASE y \notin ReturnValue /\ ptr[y] = NULL
    BY <1>4, HeldAt
  <1> QED
    BY <1>2, <1>3, <1>4

(* An Any that is emptied lets go of its reference, and of no other. *)
LEMMA EmptyAnyStep ==
  ASSUME Ownership, HandleMatches', NEW a \in ReturnValue,
         handle' = [handle EXCEPT ![a] = Empty],
         wh' = Release(wh, Released({a})),
         UNCHANGED <<vmState, ptr, heap>>
  PROVE  Promise!Release({a})
  <1>1. \A y \in Ptr \cup ReturnValue : y # a => held'[y] = held[y]
    BY AnyHeld
  <1>2. handle'[a] = Empty
    BY DEF Ownership, TypeOK, Handle
  <1>3. held'[a] = NULL
    BY <1>2, HeldAt DEF Meaning, Usable, Empty
  <1>4. held' = [y \in Ptr \cup ReturnValue |-> IF y \in {a} THEN NULL ELSE held[y]]
    BY <1>1, <1>3, HeldFunction
  <1> QED
    BY <1>4, HoldersOfPromise DEF Promise!Release

(* The result of a call takes a reference to the object returned. *)
LEMMA ReturnObjectStep ==
  ASSUME Ownership, HandleMatches',
         NEW a \in ReturnValue, NEW o \in Obj, NEW w \in WrenHandle,
         ReturnObject(a, o, w)
  PROVE  \E v \in VM : Promise!Take(a, v, o)
  <1> USE HolderAssumption
  <1> PICK v \in VM : v = Head(calls)
    BY TailLive DEF ReturnObject
  <1>1. vmState[v] = "live"
    BY TailLive DEF ReturnObject
  <1>2. /\ wh[w] = NULL /\ o \in heap[v]
        /\ handle' = [handle EXCEPT ![a] = [vm |-> v, wh |-> w]]
        /\ wh' = Release(WithWren(w, v, o), Released({a}))
        /\ UNCHANGED <<vmState, ptr, heap>>
    BY DEF ReturnObject
  <1>3. \A u \in WrenHandle : wh[u] # NULL => WithWren(w, v, o)[u] = wh[u]
    BY <1>2 DEF WithWren, Ownership, TypeOK
  <1>4. \A y \in Ptr \cup ReturnValue : y # a => held'[y] = held[y]
    BY <1>2, <1>3, AnyHeld
  <1>5. handle'[a] = [vm |-> v, wh |-> w] /\ a \in Handle /\ w # NULL /\ v # NULL
    BY <1>1, <1>2 DEF Ownership, TypeOK, Handle
  <1>6. wh'[w] # NULL
    BY <1>5 DEF HandleMatches
  <1>7. wh'[w] = [vm |-> v, obj |-> o]
    BY <1>2, <1>6 DEF Release, WithWren, Ownership, TypeOK
  <1>8. held'[a] = [vm |-> v, obj |-> o]
    <2>1. ~Expired(v)'
      BY <1>1, <1>2, <1>5 DEF Expired
    <2>2. handle'[a].vm = v /\ handle'[a].wh = w
      BY <1>5
    <2>3. Usable(a)'
      BY <1>5, <2>1, <2>2 DEF Usable
    <2>4. Meaning(a)' = wh'[w]
      BY <2>2, <2>3 DEF Meaning
    <2> QED
      BY <1>7, <2>4, HeldAt
  <1>9. held' = [held EXCEPT ![a] = [vm |-> v, obj |-> o]]
    BY <1>4, <1>8, HeldFunction
  <1> QED
    BY <1>1, <1>2, <1>9 DEF Promise!Take, Promise!Ref

(* A move of Anys exchanges their references. *)
LEMMA ExchangeStep ==
  ASSUME Ownership, NEW a \in ReturnValue, NEW b \in ReturnValue, MoveAny(a, b)
  PROVE  Promise!Exchange(a, b)
  <1> USE HolderAssumption
  <1>1. /\ a # b /\ a \in Handle /\ b \in Handle
        /\ UNCHANGED <<vmState, ptr, wh, heap>>
    BY DEF MoveAny, Handle
  <1>2. \A g \in Handle : handle'[g] = IF g = a THEN handle[b]
                                       ELSE IF g = b THEN handle[a] ELSE handle[g]
    BY <1>1 DEF MoveAny, Ownership, TypeOK
  <1>3. \A y \in Ptr : /\ y \notin ReturnValue
                       /\ ptr[y] # NULL => /\ ptr[y] \in Handle
                                           /\ handle'[ptr[y]] = handle[ptr[y]]
    BY <1>2 DEF Ownership, TypeOK, Handle
  <1>4. \A y \in Ptr : held'[y] = held[y]
    BY <1>1, <1>3 DEF held, Meaning, Usable, Expired
  <1>5. \A y \in ReturnValue :
          held'[y] = IF y = a THEN held[b] ELSE IF y = b THEN held[a] ELSE held[y]
    BY <1>1, <1>2, HeldAt DEF Meaning, Usable, Expired, Handle
  <1>6. held' = [held EXCEPT ![a] = held[b], ![b] = held[a]]
    BY <1>3, <1>4, <1>5, HeldFunction
  <1> QED
    BY <1>1, <1>6 DEF Promise!Exchange

(* What a call and a step of an Any show: a call shows nothing by itself. *)
LEMMA AnyStepImplements ==
  ASSUME Retained, Ownership', AnyStep
  PROVE  (Promise!Next \/ UNCHANGED <<vmState, heap, held>>) /\ SharedFull'
  <1> USE HolderAssumption
  <1>0. HandleMatches'
    BY DEF Ownership
  <1>1. CASE (\E m \in Method : BeginCall(m)) \/ FailCall
    BY <1>1 DEF BeginCall, FailCall, Retained, SharedFull, held, Meaning, Usable, Expired
  <1>2. ASSUME NEW a \in ReturnValue, NEW new,
               handle' = [handle EXCEPT ![a] = new], UNCHANGED ptr
        PROVE  SharedFull'
    BY <1>2 DEF Retained, Ownership, TypeOK, SharedFull, Handle
  <1>3. CASE \E a \in ReturnValue : ReturnNull(a) \/ DestroyAny(a)
    <2> PICK a \in ReturnValue : ReturnNull(a) \/ DestroyAny(a)
      BY <1>3
    <2>1. /\ handle' = [handle EXCEPT ![a] = Empty]
          /\ wh' = Release(wh, Released({a}))
          /\ UNCHANGED <<vmState, ptr, heap>>
      BY DEF ReturnNull, DestroyAny
    <2>2. Promise!Release({a})
      BY <1>0, <2>1, EmptyAnyStep DEF Retained
    <2> QED
      BY <1>2, <2>1, <2>2 DEF Promise!Next
  <1>4. CASE \E a \in ReturnValue, o \in Obj, w \in WrenHandle : ReturnObject(a, o, w)
    <2> PICK a \in ReturnValue, o \in Obj, w \in WrenHandle : ReturnObject(a, o, w)
      BY <1>4
    <2>1. SharedFull'
      BY <1>2 DEF ReturnObject
    <2>2. \E v \in VM : Promise!Take(a, v, o)
      BY <1>0, ReturnObjectStep DEF Retained
    <2> QED
      BY <2>1, <2>2 DEF Promise!Next
  <1>5. CASE \E a, b \in ReturnValue : MoveAny(a, b)
    <2> PICK a \in ReturnValue, b \in ReturnValue : MoveAny(a, b)
      BY <1>5
    <2>1. SharedFull'
      BY DEF MoveAny, Retained, Ownership, TypeOK, SharedFull, Handle
    <2>2. Promise!Exchange(a, b)
      BY ExchangeStep DEF Retained
    <2> QED
      BY <2>1, <2>2 DEF Promise!Next
  <1>6. CASE \E a \in ReturnValue, x \in Variable, h \in Shared, w \in WrenHandle :
               AsVariable(a, x, h, w)
    <2> PICK a \in ReturnValue, x \in Variable, h \in Shared, w \in WrenHandle :
               AsVariable(a, x, h, w)
      BY <1>6
    <2> DEFINE v == handle[a].vm
               o == wh[handle[a].wh].obj
    <2>1. a \in Handle /\ v \in VM /\ vmState[v] = "live" /\ handle[a].wh \in WrenHandle
      BY DEF AsVariable, Usable, Expired, Retained, Ownership, TypeOK, Handle
    <2>2. o \in Obj /\ o \in heap[v]
      BY <2>1 DEF Retained, Ownership, RootsExist, HandleMatches, TypeOK, AsVariable,
                  Usable
    <2>3. /\ MakesHandle(h, w, v, o)
          /\ Settle([ptr EXCEPT ![x] = h], WithHandle(h, w, v), WithWren(w, v, o))
          /\ UNCHANGED <<vmState, data, heap, calls>>
      BY DEF AsVariable
    <2> HIDE DEF v, o
    <2>4. Promise!Take(x, v, o) /\ SharedFull'
      BY <2>1, <2>2, <2>3, TakeStep
    <2> QED
      BY <2>1, <2>2, <2>4 DEF Promise!Next
  <1> QED
    BY <1>1, <1>3, <1>4, <1>5, <1>6 DEF AnyStep
----------------------------------------------------------------------------
(* Steps that leave the Handles and their WrenHandles alone, and every VM  *)
(* they are from as it was, show no change of the references.              *)
LEMMA ReferencesKept ==
  ASSUME Ownership, UNCHANGED <<handle, ptr, wh>>,
         \A v \in VM : vmState[v] # "unborn" => vmState'[v] = vmState[v]
  PROVE  UNCHANGED held
  <1>1. \A h \in Handle : Meaning(h)' = Meaning(h)
    BY DEF Meaning, Usable, Expired, Ownership, TypeOK, HandleMatches, OriginBorn
  <1>2. \A q \in Ptr : ptr[q] # NULL => ptr[q] \in Handle
    BY DEF Ownership, TypeOK, Handle
  <1>3. \A y \in Ptr \cup ReturnValue : held'[y] = held[y]
    BY <1>1, <1>2 DEF held, Handle, Meaning, Usable, Expired
  <1> QED
    BY <1>3, HeldFunction

(* The VM a VM object owns is freed, and every reference into it is void.  *)
LEMMA FreeStep ==
  ASSUME Retained, NEW b \in VMObject, DestroyVM(b)
  PROVE  data[b] \in VM /\ Promise!Free(data[b])
  <1> USE HolderAssumption
  <1> PICK v \in VM : v = data[b]
    BY DEF DestroyVM, Retained, Ownership, TypeOK
  <1>1. /\ vmState[v] = "live" /\ v # NULL
        /\ vmState' = [vmState EXCEPT ![v] = "freed"]
        /\ heap' = [heap EXCEPT ![v] = {}]
        /\ UNCHANGED <<handle, ptr, wh>>
    BY DEF DestroyVM, Retained, DataLive
  <1>2. \A u \in VM : vmState'[u] = IF u = v THEN "freed" ELSE vmState[u]
    BY <1>1 DEF Retained, Ownership, TypeOK
  <1>3. \A h \in Handle :
          Meaning(h)' = IF Meaning(h) # NULL /\ Meaning(h).vm = v THEN NULL
                        ELSE Meaning(h)
    BY <1>1, <1>2 DEF Meaning, Usable, Expired, Retained, Ownership, TypeOK,
                      HandleMatches
  <1>4. \A q \in Ptr : ptr[q] # NULL => ptr[q] \in Handle
    BY DEF Retained, Ownership, TypeOK, Handle
  <1>5. \A y \in Ptr \cup ReturnValue :
          held'[y] = IF held[y] # NULL /\ held[y].vm = v THEN NULL ELSE held[y]
    BY <1>1, <1>3, <1>4 DEF held, Handle, Meaning, Usable, Expired
  <1>6. held' = [y \in Ptr \cup ReturnValue |->
                   IF held[y] # NULL /\ held[y].vm = v THEN NULL ELSE held[y]]
    BY <1>5, HeldFunction
  <1> QED
    BY <1>1, <1>6, HoldersOfPromise DEF Promise!Free

(* What no WrenHandle keeps, no holder refers to. *)
LEMMA HeldAreRoots ==
  ASSUME Ownership, NEW v \in VM
  PROVE  Promise!Held(v) \subseteq Roots(v)
  <1> SUFFICES ASSUME NEW y \in Ptr \cup ReturnValue, held[y] # NULL, held[y].vm = v
               PROVE  held[y].obj \in Roots(v)
    BY HoldersOfPromise DEF Promise!Held
  <1>1. \E h \in Handle : held[y] = Meaning(h)
    BY HeldAt DEF Ownership, TypeOK, Handle
  <1>2. PICK h \in Handle : held[y] = Meaning(h)
    BY <1>1
  <1>3. handle[h].wh \in WrenHandle /\ held[y] = wh[handle[h].wh]
    BY <1>2, MeaningReference
  <1> QED
    BY <1>3 DEF Roots

(* What a step of the VM class or of the Wren heap shows. *)
LEMMA VMStepImplements ==
  ASSUME Retained, VMStep
  PROVE  (Promise!Next \/ UNCHANGED <<vmState, heap, held>>) /\ SharedFull'
  <1> USE HolderAssumption
  <1>0. UNCHANGED <<handle, ptr, wh>>
    BY DEF VMStep, NewVM, SwapVM, DestroyVM, Allocate, Collect
  <1>1. SharedFull'
    BY <1>0 DEF Retained, SharedFull
  <1>2. CASE \E b \in VMObject, v \in VM : NewVM(b, v)
    <2> PICK b \in VMObject, v \in VM : NewVM(b, v)
      BY <1>2
    <2>1. UNCHANGED held
      BY <1>0, ReferencesKept DEF NewVM, Retained, Ownership, TypeOK
    <2>2. Promise!Create(v)
      BY <2>1 DEF NewVM, Promise!Create
    <2> QED
      BY <1>1, <2>2 DEF Promise!Next
  <1>3. CASE \E b, c \in VMObject : SwapVM(b, c)
    BY <1>0, <1>1, <1>3, ReferencesKept DEF SwapVM, Retained
  <1>4. CASE \E b \in VMObject : DestroyVM(b)
    BY <1>1, <1>4, FreeStep DEF Promise!Next
  <1>5. CASE \E v \in VM, o \in Obj : Allocate(v, o)
    <2> PICK v \in VM, o \in Obj : Allocate(v, o)
      BY <1>5
    <2>1. UNCHANGED held
      BY <1>0, ReferencesKept DEF Allocate, Retained
    <2>2. Promise!Allocate(v, o)
      BY <2>1 DEF Allocate, Promise!Allocate
    <2> QED
      BY <1>1, <2>2 DEF Promise!Next
  <1>6. CASE \E v \in VM : \E S \in SUBSET heap[v] : Collect(v, S)
    <2> PICK v \in VM : \E S \in SUBSET heap[v] : Collect(v, S)
      BY <1>6
    <2> PICK S \in SUBSET heap[v] : Collect(v, S)
      OBVIOUS
    <2>1. UNCHANGED held
      BY <1>0, ReferencesKept DEF Collect, Retained
    <2>2. S \subseteq heap[v] \ Promise!Held(v)
      BY HeldAreRoots DEF Collect, Retained
    <2>3. Promise!Collect(v, S)
      BY <2>1, <2>2 DEF Collect, Promise!Collect
    <2> QED
      BY <1>1, <2>3 DEF Promise!Next
  <1> QED
    BY <1>2, <1>3, <1>4, <1>5, <1>6 DEF VMStep
----------------------------------------------------------------------------
(* Every VM that VM objects own stays alive and has one owner. *)
LEMMA NextDataLive == Retained /\ [Next]_vars => DataLive'
  <1> USE HolderAssumption
  <1> SUFFICES ASSUME Retained, [Next]_vars PROVE DataLive'
    OBVIOUS
  <1>0. /\ data \in [VMObject -> VM \cup {NULL}]
        /\ vmState \in [VM -> {"unborn", "live", "freed"}]
    BY DEF Retained, Ownership, TypeOK
  <1>1. CASE UNCHANGED <<vmState, data>>
    BY <1>1 DEF Retained, DataLive
  <1>2. CASE \E b \in VMObject, v \in VM : NewVM(b, v)
    BY <1>0, <1>2 DEF NewVM, Retained, DataLive
  <1>3. CASE \E b, c \in VMObject : SwapVM(b, c)
    BY <1>0, <1>3 DEF SwapVM, Retained, DataLive
  <1>4. CASE \E b \in VMObject : DestroyVM(b)
    BY <1>0, <1>4 DEF DestroyVM, Retained, DataLive
  <1>5. CASE \/ \E v \in VM, o \in Obj : Allocate(v, o)
             \/ \E v \in VM : \E S \in SUBSET heap[v] : Collect(v, S)
    BY <1>1, <1>5 DEF Allocate, Collect
  <1>6. CASE SharedStep
    BY <1>1, <1>6 DEF SharedStep, Find, CopyVariable, CopyMethod, ResetVariable,
                      ResetMethod, Drop, Func
  <1>7. CASE UseStep
    BY <1>1, <1>7 DEF UseStep, UseNull, UseExpired, QueryMap, AsValue, AsNull, IsBasic
  <1>8. CASE AnyStep
    BY <1>1, <1>8 DEF AnyStep, BeginCall, FailCall, ReturnNull, ReturnObject, MoveAny,
                      DestroyAny, AsVariable
  <1>9. CASE UNCHANGED vars
    BY <1>1, <1>9 DEF vars
  <1> QED
    BY <1>2, <1>3, <1>4, <1>5, <1>6, <1>7, <1>8, <1>9 DEF Next, VMStep

(* Every step of the holders is a step of plain references, or changes     *)
(* nothing they show; and it keeps what the next one needs.                *)
LEMMA StepImplements ==
  Retained /\ [Next]_vars => [Promise!Next]_(Promise!vars) /\ Retained'
  <1> SUFFICES ASSUME Retained, [Next]_vars
               PROVE  [Promise!Next]_(Promise!vars) /\ Retained'
    OBVIOUS
  <1>1. Ownership'
    BY NextOwnership DEF Retained
  <1>2. DataLive'
    BY NextDataLive
  <1>3. (Promise!Next \/ UNCHANGED <<vmState, heap, held>>) /\ SharedFull'
    <2>1. CASE VMStep
      BY <2>1, VMStepImplements
    <2>2. CASE SharedStep
      BY <2>2, SharedStepImplements
    <2>3. CASE AnyStep
      BY <1>1, <2>3, AnyStepImplements
    <2>4. CASE UseStep \/ UNCHANGED vars
      <3>1. UNCHANGED <<vmState, handle, ptr, wh, heap>>
        BY <2>4 DEF UseStep, UseNull, UseExpired, QueryMap, AsValue, AsNull, IsBasic,
                    vars
      <3> QED
        BY <3>1, ReferencesKept DEF Retained, SharedFull
    <2> QED
      BY <2>1, <2>2, <2>3, <2>4 DEF Next
  <1> QED
    BY <1>1, <1>2, <1>3 DEF Retained, Promise!vars

(* At first there is no VM and no holder refers to anything. *)
LEMMA InitImplements == Init => Promise!Init /\ Retained
  <1> SUFFICES ASSUME Init PROVE Promise!Init /\ Retained
    OBVIOUS
  <1>1. Retained
    BY InitOwnership DEF Init, Retained, DataLive, SharedFull
  <1>2. \A y \in Ptr \cup ReturnValue : held[y] = NULL
    BY HeldAt DEF Init, Meaning, Usable, Expired, Empty, Handle
  <1>3. held = [y \in Ptr \cup ReturnValue |-> NULL]
    BY <1>2, HeldFunction
  <1> QED
    BY <1>1, <1>3, HoldersOfPromise DEF Init, Promise!Init

(* What the refinement needs holds in every reachable state. *)
THEOREM RetainedInvariant == Spec => []Retained
  BY InitImplements, StepImplements, PTL DEF Spec

(* Shared pointers, Handles, weak pointers and WrenHandles behave as plain *)
(* references that die with their VM and keep their object alive: what the *)
(* holders do implements Retention.                                        *)
THEOREM HoldersImplementRetention == Spec => ImplementsRetention
  BY InitImplements, StepImplements, RetainedInvariant, PTL
  DEF Spec, ImplementsRetention, Promise!Spec
=============================================================================
