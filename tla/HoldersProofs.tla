--------------------------- MODULE HoldersProofs ---------------------------
(***************************************************************************)
(* Proofs about Holders, for any number of VMs, holders and handles.       *)
(***************************************************************************)
EXTENDS Holders, TLAPS

(* A Handle no shared pointer targets does not exist: its memory is free.  *)
StrayEmpty == \A h \in Shared : h \notin Referenced(ptr) => handle[h] = Empty

(* Every WrenHandle was made by a VM that existed. *)
OriginBorn == \A w \in WrenHandle : wh[w] # NULL => vmState[wh[w].vm] # "unborn"

(* A VM in which a call is in progress has not been freed. *)
CallsLive == \A i \in 1 .. Len(calls) : vmState[calls[i]] = "live"

(* Whatever is on the handle list of a live VM has not been collected. *)
RootsExist ==
  \A w \in WrenHandle :
    wh[w] # NULL /\ vmState[wh[w].vm] = "live" => wh[w].obj \in heap[wh[w].vm]

(* The two members of a Method come and go together and are from one VM. *)
MethodCoherent ==
  \A m \in Method :
    LET r == ptr[Member("variable", m)]
        f == ptr[Member("handle", m)]
    IN  (r = NULL <=> f = NULL) /\ (r # NULL => handle[r].vm = handle[f].vm)

(* The inductive invariant. *)
Ownership ==
  /\ TypeOK
  /\ HandleMatches
  /\ SoleOwner
  /\ NoLeak
  /\ StrayEmpty
  /\ OriginBorn
  /\ RootsExist
  /\ MethodCoherent
  /\ CallsLive
----------------------------------------------------------------------------
(* The two members of a Method are two shared pointers. *)
LEMMA MemberInPtr ==
  ASSUME NEW m \in Method
  PROVE  /\ Member("variable", m) \in Ptr
         /\ Member("handle", m) \in Ptr
         /\ Member("variable", m) # Member("handle", m)
  BY DEF Member, Members, MethodMembers, Ptr

(* A WrenHandle is given back when a usable Handle of the set has it. *)
LEMMA ReleasedMember ==
  ASSUME NEW H, NEW w
  PROVE  w \in Released(H) <=> \E h \in H : Usable(h) /\ handle[h].wh = w
  BY DEF Released

(* Redirecting shared pointers keeps every variable in its type. *)
LEMMA SettleType ==
  ASSUME TypeOK,
         NEW p \in [Ptr -> Shared \cup {NULL}],
         NEW K \in [Handle -> [vm : VM \cup {NULL}, wh : WrenHandle \cup {NULL}]],
         NEW L \in [WrenHandle -> [vm : VM, obj : Obj] \cup {NULL}],
         Settle(p, K, L)
  PROVE  /\ ptr' \in [Ptr -> Shared \cup {NULL}]
         /\ handle' \in [Handle -> [vm : VM \cup {NULL}, wh : WrenHandle \cup {NULL}]]
         /\ wh' \in [WrenHandle -> [vm : VM, obj : Obj] \cup {NULL}]
  BY DEF TypeOK, Settle, Forget, Release, Empty

(* A new Handle and a new WrenHandle are of their types. *)
LEMMA MadeTypes ==
  ASSUME TypeOK, NEW h \in Handle, NEW w \in WrenHandle, NEW v \in VM, NEW o \in Obj
  PROVE  /\ WithHandle(h, w, v) \in
              [Handle -> [vm : VM \cup {NULL}, wh : WrenHandle \cup {NULL}]]
         /\ WithWren(w, v, o) \in [WrenHandle -> [vm : VM, obj : Obj] \cup {NULL}]
  BY DEF TypeOK, WithHandle, WithWren

(* Giving WrenHandles back leaves a handle list. *)
LEMMA ReleaseType ==
  ASSUME NEW L \in [WrenHandle -> [vm : VM, obj : Obj] \cup {NULL}], NEW W
  PROVE  Release(L, W) \in [WrenHandle -> [vm : VM, obj : Obj] \cup {NULL}]
  BY DEF Release
----------------------------------------------------------------------------
(* Redirecting shared pointers among the Handles that exist: whatever      *)
(* loses its last pointer gives its WrenHandle back, nothing else changes. *)
LEMMA SettleOld ==
  ASSUME Ownership,
         NEW p \in [Ptr -> Shared \cup {NULL}],
         Referenced(p) \subseteq Referenced(ptr),
         Settle(p, handle, wh),
         UNCHANGED <<vmState, calls>>
  PROVE  /\ HandleMatches' /\ SoleOwner' /\ NoLeak' /\ StrayEmpty' /\ OriginBorn'
         /\ \A g \in Referenced(p) : handle'[g] = handle[g]
         /\ \A u \in WrenHandle : wh'[u] \in {wh[u], NULL}
  <1> DEFINE gone == Orphans(p)
  <1> USE HolderAssumption
  <1>1. /\ ptr' = p
        /\ \A h \in Handle : handle'[h] = IF h \in gone THEN Empty ELSE handle[h]
        /\ \A w \in WrenHandle :
             wh'[w] = IF w \in Released(gone) THEN NULL ELSE wh[w]
    BY DEF Settle, Forget, Release
  <1>2. gone \subseteq Shared /\ gone \subseteq Referenced(ptr)
    BY DEF Orphans, Referenced, Ownership, TypeOK
  <1>3. \A w \in WrenHandle : w \in Released(gone) <=>
           \E h \in gone : Usable(h) /\ handle[h].wh = w
    BY ReleasedMember
  <1> HIDE DEF gone
  <1>4. \A h \in Handle \ gone : handle[h].wh \notin Released(gone)
                                  \/ handle[h].wh = NULL
    BY <1>2, <1>3 DEF Ownership, SoleOwner, Handle, TypeOK
  <1>5. HandleMatches'
    BY <1>1, <1>4 DEF Ownership, HandleMatches, TypeOK, Empty
  <1>6. SoleOwner'
    BY <1>1 DEF Ownership, SoleOwner, TypeOK, Empty
  <1>7. NoLeak'
    <2> SUFFICES ASSUME NEW w \in WrenHandle, wh'[w] # NULL,
                        vmState[wh'[w].vm] = "live"
                 PROVE  \/ \E a \in ReturnValue : handle'[a].wh = w
                        \/ \E q \in Ptr : p[q] # NULL /\ handle'[p[q]].wh = w
      BY <1>1 DEF NoLeak
    <2>1. wh'[w] = wh[w] /\ w \notin Released(gone)
      BY <1>1
    <2>2. CASE \E a \in ReturnValue : handle[a].wh = w
      BY <2>2, <1>1, <1>2 DEF Handle
    <2>3. CASE \E q \in Ptr : ptr[q] # NULL /\ handle[ptr[q]].wh = w
      <3> PICK q \in Ptr : ptr[q] # NULL /\ handle[ptr[q]].wh = w
        BY <2>3
      <3>1. ptr[q] \in Handle /\ ptr[q] \in Referenced(ptr)
        BY DEF Ownership, TypeOK, Handle, Referenced
      <3>2. Usable(ptr[q])
        BY <2>1, <3>1 DEF Usable, Expired, Ownership, HandleMatches, TypeOK
      <3>3. ptr[q] \notin gone
        BY <2>1, <3>2, <1>3
      <3>4. ptr[q] \in Referenced(p)
        BY <3>1, <3>3 DEF gone, Orphans
      <3> QED
        BY <3>1, <3>3, <3>4, <1>1 DEF Referenced
    <2> QED
      BY <2>1, <2>2, <2>3 DEF Ownership, NoLeak
  <1>8. StrayEmpty'
    <2> SUFFICES ASSUME NEW h \in Shared, h \notin Referenced(p)
                 PROVE  handle'[h] = Empty
      BY <1>1 DEF StrayEmpty, Referenced
    <2>1. h \in gone \/ h \notin Referenced(ptr)
      BY DEF gone, Orphans
    <2> QED
      BY <2>1, <1>1 DEF Ownership, StrayEmpty, Handle
  <1>9. OriginBorn'
    BY <1>1 DEF Ownership, OriginBorn
  <1>10. \A g \in Referenced(p) : handle'[g] = handle[g]
    BY <1>1 DEF gone, Orphans, Referenced, Handle
  <1> QED
    BY <1>1, <1>5, <1>6, <1>7, <1>8, <1>9, <1>10

(* The same when one Handle h with a new WrenHandle w was made for p.      *)
LEMMA SettleNew ==
  ASSUME Ownership,
         NEW p \in [Ptr -> Shared \cup {NULL}],
         NEW h \in Shared, NEW w \in WrenHandle, NEW v \in VM, NEW o \in Obj,
         MakesHandle(h, w, v, o),
         h \in Referenced(p),
         Referenced(p) \subseteq Referenced(ptr) \cup {h},
         Settle(p, WithHandle(h, w, v), WithWren(w, v, o)),
         UNCHANGED <<vmState, calls>>
  PROVE  /\ HandleMatches' /\ SoleOwner' /\ NoLeak' /\ StrayEmpty' /\ OriginBorn'
         /\ handle'[h] = [vm |-> v, wh |-> w] /\ wh'[w] = [vm |-> v, obj |-> o]
         /\ \A g \in Referenced(p) \ {h} : handle'[g] = handle[g]
         /\ \A u \in WrenHandle \ {w} : wh'[u] \in {wh[u], NULL}
  <1> DEFINE gone == Orphans(p)
             new == [vm |-> v, wh |-> w]
             ref == [vm |-> v, obj |-> o]
  <1> USE HolderAssumption
  <1>0. h \in Handle /\ h \notin Referenced(ptr) /\ wh[w] = NULL
        /\ vmState[v] = "live" /\ handle[h] = Empty
    BY DEF MakesHandle, Handle, Ownership, StrayEmpty
  <1>1. /\ ptr' = p
        /\ \A g \in Handle : handle'[g] = IF g \in gone THEN Empty
                                          ELSE IF g = h THEN new ELSE handle[g]
        /\ \A u \in WrenHandle : wh'[u] = IF u \in Released(gone) THEN NULL
                                          ELSE IF u = w THEN ref ELSE wh[u]
    BY DEF Settle, Forget, Release, WithHandle, WithWren, Ownership, TypeOK
  <1>2. gone \subseteq Shared /\ gone \subseteq Referenced(ptr) /\ h \notin gone
    BY <1>0 DEF Orphans, Referenced, Ownership, TypeOK
  <1>3. \A u \in WrenHandle : u \in Released(gone) <=>
           \E g \in gone : Usable(g) /\ handle[g].wh = u
    BY ReleasedMember
  <1> HIDE DEF gone
  <1>4. \A g \in Handle \ gone : handle[g].wh \notin Released(gone)
                                  \/ handle[g].wh = NULL
    <2> SUFFICES ASSUME NEW g \in Handle \ gone, handle[g].wh \in Released(gone)
                 PROVE  handle[g].wh = NULL
      OBVIOUS
    <2>1. handle[g].wh \in WrenHandle \cup {NULL}
      BY DEF Ownership, TypeOK
    <2>2. CASE handle[g].wh \in WrenHandle
      <3> PICK k \in gone : handle[k].wh = handle[g].wh
        BY <2>2, <1>3
      <3> QED
        BY <1>2 DEF Ownership, SoleOwner, Handle
    <2> QED
      BY <2>1, <2>2
  <1>5. w \notin Released(gone) /\ \A g \in Handle : handle[g].wh # w
    BY <1>0, <1>2, <1>3 DEF Ownership, HandleMatches, Handle
  <1>6. handle'[h] = new /\ wh'[w] = ref /\ ref # NULL
    BY <1>0, <1>1, <1>2, <1>5
  <1>7. HandleMatches'
    <2> SUFFICES ASSUME NEW g \in Handle, handle'[g].wh # NULL
                 PROVE  /\ wh'[handle'[g].wh] # NULL
                        /\ wh'[handle'[g].wh].vm = handle'[g].vm
      BY DEF HandleMatches
    <2>1. CASE g = h
      BY <2>1, <1>6
    <2>2. CASE g # h
      <3>1. g \notin gone /\ handle'[g] = handle[g]
        BY <2>2, <1>1 DEF Empty
      <3>2. handle[g].wh \in WrenHandle /\ handle[g].wh # w
        BY <3>1, <1>5 DEF Ownership, TypeOK
      <3>3. wh'[handle[g].wh] = wh[handle[g].wh]
        BY <3>1, <3>2, <1>1, <1>4
      <3> QED
        BY <3>1, <3>2, <3>3 DEF Ownership, HandleMatches
    <2> QED
      BY <2>1, <2>2
  <1>8. SoleOwner'
    BY <1>0, <1>1, <1>5, <1>6 DEF Ownership, SoleOwner, TypeOK, Empty
  <1>9. NoLeak'
    <2> SUFFICES ASSUME NEW u \in WrenHandle, wh'[u] # NULL,
                        vmState[wh'[u].vm] = "live"
                 PROVE  \/ \E a \in ReturnValue : handle'[a].wh = u
                        \/ \E q \in Ptr : p[q] # NULL /\ handle'[p[q]].wh = u
      BY <1>1 DEF NoLeak
    <2>1. CASE u = w
      BY <2>1, <1>6 DEF Referenced
    <2>2. CASE u # w
      <3>1. wh'[u] = wh[u] /\ u \notin Released(gone)
        BY <2>2, <1>1
      <3>2. CASE \E a \in ReturnValue : handle[a].wh = u
        BY <3>2, <1>1, <1>2 DEF Handle
      <3>3. CASE \E q \in Ptr : ptr[q] # NULL /\ handle[ptr[q]].wh = u
        <4> PICK q \in Ptr : ptr[q] # NULL /\ handle[ptr[q]].wh = u
          BY <3>3
        <4>1. ptr[q] \in Handle /\ ptr[q] \in Referenced(ptr)
          BY DEF Ownership, TypeOK, Handle, Referenced
        <4>2. Usable(ptr[q])
          BY <3>1, <4>1 DEF Usable, Expired, Ownership, HandleMatches, TypeOK
        <4>3. ptr[q] \notin gone
          BY <3>1, <4>2, <1>3
        <4>4. ptr[q] \in Referenced(p)
          BY <4>1, <4>3 DEF gone, Orphans
        <4> QED
          BY <4>1, <4>3, <4>4, <1>0, <1>1 DEF Referenced
      <3> QED
        BY <3>1, <3>2, <3>3 DEF Ownership, NoLeak
    <2> QED
      BY <2>1, <2>2
  <1>10. StrayEmpty'
    <2> SUFFICES ASSUME NEW g \in Shared, g \notin Referenced(p)
                 PROVE  handle'[g] = Empty
      BY <1>1 DEF StrayEmpty, Referenced
    <2>1. g # h /\ (g \in gone \/ g \notin Referenced(ptr))
      BY DEF gone, Orphans
    <2> QED
      BY <2>1, <1>1 DEF Ownership, StrayEmpty, Handle
  <1>11. OriginBorn'
    BY <1>0, <1>1 DEF Ownership, OriginBorn
  <1>12. \A g \in Referenced(p) \ {h} : handle'[g] = handle[g]
    BY <1>1 DEF gone, Orphans, Referenced, Handle
  <1> QED
    BY <1>1, <1>6, <1>7, <1>8, <1>9, <1>10, <1>11, <1>12
----------------------------------------------------------------------------
(* The invariant holds when nothing exists yet. *)
LEMMA InitOwnership == Init => Ownership
  <1> USE HolderAssumption
  <1> SUFFICES ASSUME Init PROVE Ownership
    OBVIOUS
  <1>1. TypeOK
    BY DEF Init, TypeOK, Empty, Outcome, Quiet, Results
  <1>2. HandleMatches /\ SoleOwner /\ NoLeak /\ StrayEmpty
    BY DEF Init, HandleMatches, SoleOwner, NoLeak, StrayEmpty, Empty, Handle
  <1>3. OriginBorn /\ RootsExist /\ CallsLive
    BY DEF Init, OriginBorn, RootsExist, CallsLive
  <1>4. MethodCoherent
    BY MemberInPtr DEF Init, MethodCoherent
  <1> QED
    BY <1>1, <1>2, <1>3, <1>4 DEF Ownership

(* Steps of the VM class and of the Wren heap. *)
LEMMA VMStepOwnership == Ownership /\ VMStep => Ownership'
  <1> USE HolderAssumption
  <1> SUFFICES ASSUME Ownership, VMStep PROVE Ownership'
    OBVIOUS
  <1>0. UNCHANGED <<handle, ptr, wh, calls>>
    BY DEF VMStep, NewVM, SwapVM, DestroyVM, Allocate, Collect
  <1>1. TypeOK'
    <2> USE DEF TypeOK, Ownership
    <2>0. Quiet \in Outcome
      BY DEF Quiet, Outcome, Results
    <2>1. CASE \E b \in VMObject, v \in VM : NewVM(b, v)
      BY <1>0, <2>0, <2>1 DEF NewVM
    <2>2. CASE \E b, c \in VMObject : SwapVM(b, c)
      BY <1>0, <2>0, <2>2 DEF SwapVM
    <2>3. CASE \E b \in VMObject : DestroyVM(b)
      BY <1>0, <2>0, <2>3 DEF DestroyVM
    <2>4. CASE \E v \in VM, o \in Obj : Allocate(v, o)
      BY <1>0, <2>0, <2>4 DEF Allocate
    <2>5. CASE \E v \in VM : \E S \in SUBSET heap[v] : Collect(v, S)
      BY <1>0, <2>0, <2>5 DEF Collect
    <2> QED
      BY <2>1, <2>2, <2>3, <2>4, <2>5 DEF VMStep
  <1>2. HandleMatches' /\ SoleOwner' /\ StrayEmpty' /\ MethodCoherent'
    BY <1>0 DEF Ownership, HandleMatches, SoleOwner, StrayEmpty, MethodCoherent,
                Referenced
  (* A VM becomes live only when it is created, and no handle is from it then. *)
  <1>3. \A v \in VM : /\ vmState'[v] = "live" => vmState[v] # "freed"
                      /\ vmState[v] # "unborn" => vmState'[v] # "unborn"
                      /\ vmState'[v] = "live" /\ vmState[v] # "unborn" =>
                           /\ vmState[v] = "live"
                           /\ heap[v] \ heap'[v] \subseteq heap[v] \ Roots(v)
    <2> USE DEF TypeOK, Ownership
    <2>1. CASE \E b \in VMObject, v \in VM : NewVM(b, v)
      BY <2>1 DEF NewVM
    <2>2. CASE \E b, c \in VMObject : SwapVM(b, c)
      BY <2>2 DEF SwapVM
    <2>3. CASE \E b \in VMObject : DestroyVM(b)
      BY <2>3 DEF DestroyVM
    <2>4. CASE \E v \in VM, o \in Obj : Allocate(v, o)
      BY <2>4 DEF Allocate
    <2>5. CASE \E v \in VM : \E S \in SUBSET heap[v] : Collect(v, S)
      <3> PICK v \in VM : \E S \in SUBSET heap[v] : Collect(v, S)
        BY <2>5
      <3> PICK S \in SUBSET heap[v] : Collect(v, S)
        OBVIOUS
      <3>1. \A u \in VM : heap'[u] = IF u = v THEN heap[v] \ S ELSE heap[u]
        BY DEF Collect
      <3>2. UNCHANGED vmState /\ S \cap Roots(v) = {}
        BY DEF Collect
      <3> QED
        BY <3>1, <3>2
    <2> QED
      BY <2>1, <2>2, <2>3, <2>4, <2>5 DEF VMStep
  <1>4. NoLeak' /\ OriginBorn'
    BY <1>0, <1>3 DEF Ownership, NoLeak, OriginBorn, TypeOK
  <1>5. RootsExist'
    <2> SUFFICES ASSUME NEW w \in WrenHandle, wh[w] # NULL,
                        vmState'[wh[w].vm] = "live"
                 PROVE  wh[w].obj \in heap'[wh[w].vm]
      BY <1>0 DEF RootsExist
    <2>1. wh[w].vm \in VM /\ vmState[wh[w].vm] = "live"
      BY <1>3 DEF Ownership, OriginBorn, TypeOK
    <2>2. wh[w].obj \in Roots(wh[w].vm) /\ wh[w].obj \in heap[wh[w].vm]
      BY <2>1 DEF Roots, Ownership, RootsExist
    <2> QED
      BY <2>1, <2>2, <1>3
  <1>6. CallsLive'
    <2> SUFFICES ASSUME NEW i \in 1 .. Len(calls) PROVE vmState'[calls[i]] = "live"
      BY <1>0 DEF CallsLive
    <2>1. calls[i] \in VM /\ vmState[calls[i]] = "live"
      BY DEF Ownership, TypeOK, CallsLive
    <2> QED
      BY <2>1 DEF VMStep, NewVM, SwapVM, DestroyVM, Allocate, Collect, Ownership, TypeOK
  <1> QED
    BY <1>1, <1>2, <1>4, <1>5, <1>6 DEF Ownership
----------------------------------------------------------------------------
(* Every report of a use is an outcome. *)
LEMMA ReportOutcome ==
  /\ Quiet \in Outcome
  /\ \A k \in {"none", "variable", "method", "any"}, r \in Results :
       Report(k, r) \in Outcome
  BY DEF Quiet, Outcome, Report, Results

(* A step that redirects shared pointers and makes no Handle. *)
LEMMA OldStepOwnership ==
  ASSUME Ownership,
         NEW p \in [Ptr -> Shared \cup {NULL}],
         Referenced(p) \subseteq Referenced(ptr),
         \A m \in Method :
           \/ \E n \in Method : \A f \in {"variable", "handle"} :
                p[Member(f, m)] = ptr[Member(f, n)]
           \/ \A f \in {"variable", "handle"} : p[Member(f, m)] = NULL,
         Settle(p, handle, wh),
         UNCHANGED <<vmState, data, heap, calls>>,
         outcome' \in Outcome
  PROVE  Ownership'
  <1> USE HolderAssumption
  <1>1. TypeOK'
    BY SettleType DEF Ownership, TypeOK
  <1>2. /\ HandleMatches' /\ SoleOwner' /\ NoLeak' /\ StrayEmpty' /\ OriginBorn'
        /\ \A g \in Referenced(p) : handle'[g] = handle[g]
        /\ \A u \in WrenHandle : wh'[u] \in {wh[u], NULL}
    BY SettleOld
  <1>3. RootsExist' /\ CallsLive'
    BY <1>2 DEF Ownership, RootsExist, CallsLive
  <1>4. MethodCoherent'
    <2> SUFFICES ASSUME NEW m \in Method
                 PROVE  LET r == p[Member("variable", m)]
                            f == p[Member("handle", m)]
                        IN  /\ r = NULL <=> f = NULL
                            /\ r # NULL => handle'[r].vm = handle'[f].vm
      BY DEF MethodCoherent, Settle
    <2>1. CASE \A f \in {"variable", "handle"} : p[Member(f, m)] = NULL
      BY <2>1
    <2>2. CASE \E n \in Method : \A f \in {"variable", "handle"} :
                p[Member(f, m)] = ptr[Member(f, n)]
      <3> PICK n \in Method : \A f \in {"variable", "handle"} :
                p[Member(f, m)] = ptr[Member(f, n)]
        BY <2>2
      <3> DEFINE r == p[Member("variable", m)]
                 f == p[Member("handle", m)]
      <3>1. (r = NULL <=> f = NULL) /\ (r # NULL => handle[r].vm = handle[f].vm)
        BY DEF Ownership, MethodCoherent
      <3>2. r # NULL => r \in Referenced(p) /\ f \in Referenced(p)
        BY <3>1, MemberInPtr DEF Referenced
      <3> QED
        BY <3>1, <3>2, <1>2
    <2> QED
      BY <2>1, <2>2
  <1> QED
    BY <1>1, <1>2, <1>3, <1>4 DEF Ownership

(* A step that makes a Handle for an object that exists or is being made. *)
LEMMA NewStepOwnership ==
  ASSUME Ownership,
         NEW p \in [Ptr -> Shared \cup {NULL}],
         NEW h \in Shared, NEW w \in WrenHandle, NEW v \in VM, NEW o \in Obj,
         MakesHandle(h, w, v, o),
         h \in Referenced(p),
         Referenced(p) \subseteq Referenced(ptr) \cup {h},
         \A m \in Method :
           \/ \A f \in {"variable", "handle"} : p[Member(f, m)] = ptr[Member(f, m)]
           \/ /\ p[Member("handle", m)] = h
              /\ p[Member("variable", m)] \in Referenced(ptr)
              /\ handle[p[Member("variable", m)]].vm = v,
         Settle(p, WithHandle(h, w, v), WithWren(w, v, o)),
         UNCHANGED <<vmState, data, calls>>,
         heap' \in [VM -> SUBSET Obj],
         \A u \in VM : heap[u] \subseteq heap'[u],
         o \in heap'[v],
         outcome' \in Outcome
  PROVE  Ownership'
  <1> USE HolderAssumption
  <1>1. TypeOK'
    <2>1. h \in Handle
      BY DEF Handle
    <2>2. /\ WithHandle(h, w, v) \in
               [Handle -> [vm : VM \cup {NULL}, wh : WrenHandle \cup {NULL}]]
          /\ WithWren(w, v, o) \in [WrenHandle -> [vm : VM, obj : Obj] \cup {NULL}]
      BY <2>1, MadeTypes DEF Ownership
    <2> QED
      BY <2>2, SettleType DEF Ownership, TypeOK
  <1>2. /\ HandleMatches' /\ SoleOwner' /\ NoLeak' /\ StrayEmpty' /\ OriginBorn'
        /\ handle'[h] = [vm |-> v, wh |-> w] /\ wh'[w] = [vm |-> v, obj |-> o]
        /\ \A g \in Referenced(p) \ {h} : handle'[g] = handle[g]
        /\ \A u \in WrenHandle \ {w} : wh'[u] \in {wh[u], NULL}
    BY SettleNew
  <1>3. RootsExist'
    <2> SUFFICES ASSUME NEW u \in WrenHandle, wh'[u] # NULL,
                        vmState[wh'[u].vm] = "live"
                 PROVE  wh'[u].obj \in heap'[wh'[u].vm]
      BY DEF RootsExist
    <2>1. CASE u = w
      BY <2>1, <1>2
    <2>2. CASE u # w
      <3>1. wh'[u] = wh[u] /\ wh[u].vm \in VM
        BY <2>2, <1>2 DEF Ownership, TypeOK
      <3> QED
        BY <3>1 DEF Ownership, RootsExist
    <2> QED
      BY <2>1, <2>2
  <1>4. CallsLive'
    BY DEF Ownership, CallsLive
  <1>5. MethodCoherent'
    <2> SUFFICES ASSUME NEW m \in Method
                 PROVE  LET r == p[Member("variable", m)]
                            f == p[Member("handle", m)]
                        IN  /\ r = NULL <=> f = NULL
                            /\ r # NULL => handle'[r].vm = handle'[f].vm
      BY DEF MethodCoherent, Settle
    <2> DEFINE r == p[Member("variable", m)]
               f == p[Member("handle", m)]
    <2>0. h \notin Referenced(ptr) /\ NULL \notin Shared
      BY DEF MakesHandle
    <2>1. CASE \A fld \in {"variable", "handle"} :
                 p[Member(fld, m)] = ptr[Member(fld, m)]
      <3>1. (r = NULL <=> f = NULL) /\ (r # NULL => handle[r].vm = handle[f].vm)
        BY <2>1 DEF Ownership, MethodCoherent
      <3>2. r # NULL => /\ r \in Referenced(p) \ {h}
                        /\ f \in Referenced(p) \ {h}
        BY <2>0, <2>1, <3>1, MemberInPtr DEF Referenced
      <3> QED
        BY <3>1, <3>2, <1>2
    <2>2. CASE f = h /\ r \in Referenced(ptr) /\ handle[r].vm = v
      <3>1. r \in Referenced(p) \ {h} /\ r # NULL
        BY <2>0, <2>2, MemberInPtr DEF Referenced
      <3> QED
        BY <2>0, <2>2, <3>1, <1>2
    <2> QED
      BY <2>1, <2>2
  <1> QED
    BY <1>1, <1>2, <1>3, <1>4, <1>5 DEF Ownership
----------------------------------------------------------------------------
(* A pointer that is redirected to a new Handle keeps the invariant. *)
LEMMA FindOwnership ==
  ASSUME Ownership,
         NEW v \in VM, NEW x \in Variable, NEW o \in Obj,
         NEW h \in Shared, NEW w \in WrenHandle,
         MakesHandle(h, w, v, o), o \in heap[v],
         Settle([ptr EXCEPT ![x] = h], WithHandle(h, w, v), WithWren(w, v, o)),
         UNCHANGED <<vmState, data, heap, calls>>,
         outcome' \in Outcome
  PROVE  Ownership'
  <1> DEFINE p == [ptr EXCEPT ![x] = h]
  <1>1. x \in Ptr /\ p \in [Ptr -> Shared \cup {NULL}]
    BY DEF Ownership, TypeOK, Ptr
  <1>2. h \in Referenced(p) /\ Referenced(p) \subseteq Referenced(ptr) \cup {h}
    BY <1>1, HolderAssumption DEF Referenced, Ownership, TypeOK
  <1>3. \A m \in Method, f \in {"variable", "handle"} :
          p[Member(f, m)] = ptr[Member(f, m)]
    <2> TAKE m \in Method, f \in {"variable", "handle"}
    <2>1. Member(f, m) \in Ptr /\ Member(f, m) # x
      BY HolderAssumption DEF Member, Members, MethodMembers, Ptr
    <2> QED
      BY <2>1 DEF Ownership, TypeOK
  <1>4. heap' \in [VM -> SUBSET Obj] /\ o \in heap'[v]
        /\ \A u \in VM : heap[u] \subseteq heap'[u]
    BY DEF Ownership, TypeOK
  <1> HIDE DEF p
  <1>5. Settle(p, WithHandle(h, w, v), WithWren(w, v, o))
    BY DEF p
  <1> QED
    BY <1>1, <1>2, <1>3, <1>4, <1>5, NewStepOwnership

(* Variable::func keeps the invariant. *)
LEMMA FuncOwnership ==
  ASSUME Ownership,
         NEW x \in Variable, NEW m \in Method, NEW o \in Obj,
         NEW h \in Shared, NEW w \in WrenHandle,
         Func(x, m, o, h, w)
  PROVE  Ownership'
  <1> DEFINE v == handle[ptr[x]].vm
             p == [ptr EXCEPT ![Member("variable", m)] = ptr[x],
                              ![Member("handle", m)] = h]
  <1> USE HolderAssumption
  <1>1. x \in Ptr /\ ptr[x] \in Shared /\ ptr[x] \in Referenced(ptr) /\ ptr[x] \in Handle
    BY DEF Ownership, TypeOK, Ptr, Func, Referenced, Handle
  <1>2. v \in VM /\ vmState[v] = "live"
    BY <1>1 DEF Func, Expired, Ownership, TypeOK
  <1>3. /\ p \in [Ptr -> Shared \cup {NULL}]
        /\ p[Member("variable", m)] = ptr[x] /\ p[Member("handle", m)] = h
        /\ \A q \in Ptr \ MethodMembers(m) : p[q] = ptr[q]
    BY <1>1, MemberInPtr DEF Ownership, TypeOK, MethodMembers
  <1>4. h \in Referenced(p) /\ Referenced(p) \subseteq Referenced(ptr) \cup {h}
    BY <1>1, <1>3, MemberInPtr DEF Referenced, MethodMembers
  <1>5. \A n \in Method :
          \/ \A f \in {"variable", "handle"} : p[Member(f, n)] = ptr[Member(f, n)]
          \/ /\ p[Member("handle", n)] = h
             /\ p[Member("variable", n)] \in Referenced(ptr)
             /\ handle[p[Member("variable", n)]].vm = v
    <2> TAKE n \in Method
    <2>1. CASE n = m
      BY <2>1, <1>1, <1>3
    <2>2. CASE n # m
      <3> SUFFICES ASSUME NEW f \in {"variable", "handle"}
                   PROVE  p[Member(f, n)] = ptr[Member(f, n)]
        OBVIOUS
      <3>1. Member(f, n) \in Ptr \ MethodMembers(m)
        BY <2>2, MemberInPtr DEF Member, MethodMembers
      <3> QED
        BY <3>1, <1>3
    <2> QED
      BY <2>1, <2>2
  <1>6. /\ heap' \in [VM -> SUBSET Obj] /\ o \in heap'[v]
        /\ \A u \in VM : heap[u] \subseteq heap'[u]
    BY <1>2 DEF Func, Ownership, TypeOK
  <1>7. /\ MakesHandle(h, w, v, o)
        /\ Settle(p, WithHandle(h, w, v), WithWren(w, v, o))
        /\ UNCHANGED <<vmState, data, calls>>
        /\ outcome' \in Outcome
    BY ReportOutcome DEF Func, Results
  <1> HIDE DEF p, v
  <1> QED
    BY <1>2, <1>3, <1>4, <1>5, <1>6, <1>7, NewStepOwnership

(* Copies of Variables and Methods keep the invariant. *)
LEMMA CopyOwnership ==
  ASSUME Ownership,
         \/ \E x, y \in Variable : CopyVariable(x, y)
         \/ \E m, n \in Method : CopyMethod(m, n)
  PROVE  Ownership'
  <1> USE HolderAssumption
  <1>1. CASE \E x, y \in Variable : CopyVariable(x, y)
    <2> PICK x \in Variable, y \in Variable : CopyVariable(x, y)
      BY <1>1
    <2> DEFINE p == [ptr EXCEPT ![y] = ptr[x]]
    <2>1. p \in [Ptr -> Shared \cup {NULL}] /\ Referenced(p) \subseteq Referenced(ptr)
      BY DEF Ownership, TypeOK, Ptr, Referenced
    <2>2. \A m \in Method, f \in {"variable", "handle"} :
            p[Member(f, m)] = ptr[Member(f, m)]
      <3> TAKE m \in Method, f \in {"variable", "handle"}
      <3>1. Member(f, m) \in Ptr /\ Member(f, m) # y
        BY DEF Member, Members, MethodMembers, Ptr
      <3> QED
        BY <3>1 DEF Ownership, TypeOK
    <2>3. /\ Settle(p, handle, wh) /\ outcome' \in Outcome
          /\ UNCHANGED <<vmState, data, heap, calls>>
      BY ReportOutcome DEF CopyVariable
    <2> HIDE DEF p
    <2> QED
      BY <2>1, <2>2, <2>3, OldStepOwnership
  <1>2. CASE \E m, n \in Method : CopyMethod(m, n)
    <2> PICK m \in Method, n \in Method : CopyMethod(m, n)
      BY <1>2
    <2> DEFINE p == [ptr EXCEPT
                       ![Member("variable", n)] = ptr[Member("variable", m)],
                       ![Member("handle", n)] = ptr[Member("handle", m)]]
    <2>1. p \in [Ptr -> Shared \cup {NULL}] /\ Referenced(p) \subseteq Referenced(ptr)
      BY MemberInPtr DEF Ownership, TypeOK, Referenced
    <2>2. \A k \in Method : \E l \in Method : \A f \in {"variable", "handle"} :
            p[Member(f, k)] = ptr[Member(f, l)]
      <3> TAKE k \in Method
      <3>1. CASE k = n
        <4>1. \A f \in {"variable", "handle"} : p[Member(f, k)] = ptr[Member(f, m)]
          BY <3>1, MemberInPtr DEF Ownership, TypeOK
        <4> QED
          BY <4>1
      <3>2. CASE k # n
        <4>1. \A f \in {"variable", "handle"} :
                /\ Member(f, k) \in Ptr
                /\ Member(f, k) # Member("variable", n)
                /\ Member(f, k) # Member("handle", n)
          BY <3>2, MemberInPtr DEF Member
        <4>2. \A f \in {"variable", "handle"} : p[Member(f, k)] = ptr[Member(f, k)]
          BY <4>1 DEF Ownership, TypeOK
        <4> QED
          BY <4>2
      <3> QED
        BY <3>1, <3>2
    <2>3. /\ Settle(p, handle, wh) /\ outcome' \in Outcome
          /\ UNCHANGED <<vmState, data, heap, calls>>
      BY ReportOutcome DEF CopyMethod
    <2> HIDE DEF p
    <2> QED
      BY <2>1, <2>2, <2>3, OldStepOwnership
  <1> QED
    BY <1>1, <1>2

(* reset() and destruction keep the invariant. *)
LEMMA DropOwnership ==
  ASSUME Ownership, NEW P,
         \A m \in Method : \/ MethodMembers(m) \subseteq P
                           \/ MethodMembers(m) \cap P = {},
         Drop(P), outcome' \in Outcome
  PROVE  Ownership'
  <1> DEFINE p == [q \in Ptr |-> IF q \in P THEN NULL ELSE ptr[q]]
  <1>1. p \in [Ptr -> Shared \cup {NULL}] /\ Referenced(p) \subseteq Referenced(ptr)
    BY DEF Ownership, TypeOK, Referenced
  <1>2. \A m \in Method :
          \/ \E n \in Method : \A f \in {"variable", "handle"} :
               p[Member(f, m)] = ptr[Member(f, n)]
          \/ \A f \in {"variable", "handle"} : p[Member(f, m)] = NULL
    <2> TAKE m \in Method
    <2>1. \A f \in {"variable", "handle"} :
            Member(f, m) \in Ptr /\ Member(f, m) \in MethodMembers(m)
      BY MemberInPtr DEF MethodMembers
    <2>2. CASE MethodMembers(m) \subseteq P
      BY <2>1, <2>2
    <2>3. CASE MethodMembers(m) \cap P = {}
      <3>1. \A f \in {"variable", "handle"} : p[Member(f, m)] = ptr[Member(f, m)]
        BY <2>1, <2>3
      <3> QED
        BY <3>1
    <2> QED
      BY <2>2, <2>3
  <1>3. Settle(p, handle, wh) /\ UNCHANGED <<vmState, data, heap, calls>>
    BY DEF Drop
  <1> HIDE DEF p
  <1> QED
    BY <1>1, <1>2, <1>3, OldStepOwnership

(* So do all the steps of Variable, Map and Method, *)
LEMMA SharedStepOwnership == Ownership /\ SharedStep => Ownership'
  <1> SUFFICES ASSUME Ownership, SharedStep PROVE Ownership'
    OBVIOUS
  <1>1. CASE \E v \in VM, x \in Variable, o \in Obj, h \in Shared, w \in WrenHandle :
               Find(v, x, o, h, w)
    BY <1>1, FindOwnership, ReportOutcome DEF Find
  <1>2. CASE \/ \E x, y \in Variable : CopyVariable(x, y)
             \/ \E m, n \in Method : CopyMethod(m, n)
    BY <1>2, CopyOwnership
  <1>3. CASE \E x \in Variable : ResetVariable(x)
    <2> PICK x \in Variable : ResetVariable(x)
      BY <1>3
    <2>1. \A m \in Method : MethodMembers(m) \cap {x} = {}
      BY HolderAssumption DEF Members
    <2> QED
      BY <2>1, DropOwnership, ReportOutcome DEF ResetVariable
  <1>4. CASE \E m \in Method : ResetMethod(m)
    <2> PICK m \in Method : ResetMethod(m)
      BY <1>4
    <2>1. \A n \in Method : \/ MethodMembers(n) \subseteq MethodMembers(m)
                            \/ MethodMembers(n) \cap MethodMembers(m) = {}
      BY DEF MethodMembers, Member
    <2> QED
      BY <2>1, DropOwnership, ReportOutcome DEF ResetMethod
  <1>5. CASE \E x \in Variable, m \in Method, o \in Obj, h \in Shared, w \in WrenHandle :
               Func(x, m, o, h, w)
    BY <1>5, FuncOwnership
  <1> QED
    BY <1>1, <1>2, <1>3, <1>4, <1>5 DEF SharedStep

(* the uses, which change nothing but the report, *)
LEMMA UseStepOwnership == Ownership /\ UseStep => Ownership'
  <1> SUFFICES ASSUME Ownership, UseStep PROVE Ownership'
    OBVIOUS
  <1>1. UNCHANGED <<vmState, data, handle, ptr, wh, heap, calls>>
    BY DEF UseStep, UseNull, UseExpired, QueryMap, AsValue, AsNull, IsBasic
  <1>2. outcome' \in Outcome
    <2>1. /\ {"variable", "method", "any"} \subseteq {"none", "variable", "method", "any"}
          /\ {"ok", "RuntimeError", "BadCast", "NotFound", "nullDereference"} \subseteq Results
      BY DEF Results
    <2> QED
      <3>1. CASE \E a \in ReturnValue : AsNull(a)
        BY <2>1, <3>1, ReportOutcome DEF AsNull
      <3> QED
        BY <2>1, <3>1, ReportOutcome
        DEF UseStep, UseNull, UseExpired, QueryMap, AsValue, IsBasic
  <1>3. TypeOK'
    BY <1>1, <1>2 DEF Ownership, TypeOK
  <1> QED
    BY <1>1, <1>3
    DEF Ownership, HandleMatches, SoleOwner, NoLeak, StrayEmpty, OriginBorn, RootsExist,
        MethodCoherent, CallsLive, Referenced

(* An Any that is overwritten or destroyed gives its WrenHandle back; then *)
(* it is empty, or has a WrenHandle w made before in the VM v.             *)
LEMMA AnyOwnership ==
  ASSUME Ownership, NEW a \in ReturnValue, NEW new,
         \/ /\ new = Empty
            /\ wh' = Release(wh, Released({a}))
         \/ \E w \in WrenHandle, v \in VM, o \in Obj :
              /\ wh[w] = NULL /\ vmState[v] = "live" /\ o \in heap[v]
              /\ new = [vm |-> v, wh |-> w]
              /\ wh' = Release(WithWren(w, v, o), Released({a})),
         handle' = [handle EXCEPT ![a] = new],
         UNCHANGED <<vmState, ptr, heap>>
  PROVE  /\ handle' \in [Handle -> [vm : VM \cup {NULL}, wh : WrenHandle \cup {NULL}]]
         /\ wh' \in [WrenHandle -> [vm : VM, obj : Obj] \cup {NULL}]
         /\ HandleMatches' /\ SoleOwner' /\ NoLeak' /\ StrayEmpty' /\ OriginBorn'
         /\ RootsExist' /\ MethodCoherent'
  <1> USE HolderAssumption
  <1>1. a \in Handle /\ a \notin Shared
    BY DEF Handle
  <1>2. \A u \in WrenHandle : u \in Released({a}) <=> Usable(a) /\ handle[a].wh = u
    BY ReleasedMember
  <1>3. \A g \in Handle : handle'[g] = IF g = a THEN new ELSE handle[g]
    BY <1>1 DEF Ownership, TypeOK
  <1>4. \A g \in Handle \ {a} : handle[g].wh \notin Released({a})
                                 \/ handle[g].wh = NULL
    <2> SUFFICES ASSUME NEW g \in Handle \ {a}, handle[g].wh \in Released({a})
                 PROVE  handle[g].wh = NULL
      OBVIOUS
    <2> QED
      BY <1>1, ReleasedMember DEF Ownership, SoleOwner
  <1>5. \A q \in Ptr : ptr[q] # NULL => ptr[q] \in Handle \ {a}
    BY <1>1 DEF Ownership, TypeOK, Handle
  <1>6. StrayEmpty' /\ MethodCoherent'
    <2>1. StrayEmpty'
      BY <1>1, <1>3 DEF Ownership, StrayEmpty, Referenced, Handle
    <2>2. MethodCoherent'
      BY <1>3, <1>5, MemberInPtr DEF Ownership, MethodCoherent
    <2> QED
      BY <2>1, <2>2
  <1>7. CASE new = Empty /\ wh' = Release(wh, Released({a}))
    <2>1. \A u \in WrenHandle :
            wh'[u] = IF Usable(a) /\ handle[a].wh = u THEN NULL ELSE wh[u]
      BY <1>2, <1>7 DEF Release
    <2>2. wh' \in [WrenHandle -> [vm : VM, obj : Obj] \cup {NULL}]
      BY <1>7, ReleaseType DEF Ownership, TypeOK
    <2>3. handle' \in [Handle -> [vm : VM \cup {NULL}, wh : WrenHandle \cup {NULL}]]
      BY <1>7 DEF Ownership, TypeOK, Empty
    <2>4. HandleMatches' /\ SoleOwner'
      <3>1. SoleOwner'
        BY <1>3, <1>7 DEF Ownership, SoleOwner, Empty
      <3> SUFFICES ASSUME NEW g \in Handle, handle'[g].wh # NULL
                   PROVE  /\ wh'[handle'[g].wh] # NULL
                          /\ wh'[handle'[g].wh].vm = handle'[g].vm
        BY <3>1 DEF HandleMatches
      <3>2. g # a /\ handle'[g] = handle[g] /\ handle[g].wh \in WrenHandle
        BY <1>3, <1>7 DEF Empty, Ownership, TypeOK
      <3>3. wh'[handle[g].wh] = wh[handle[g].wh]
        BY <3>2, <1>1, <2>1 DEF Ownership, SoleOwner
      <3> QED
        BY <3>2, <3>3 DEF Ownership, HandleMatches
    <2>5. NoLeak'
      <3> SUFFICES ASSUME NEW u \in WrenHandle, wh'[u] # NULL,
                          vmState[wh'[u].vm] = "live"
                   PROVE  \/ \E b \in ReturnValue : handle'[b].wh = u
                          \/ \E q \in Ptr : ptr[q] # NULL /\ handle'[ptr[q]].wh = u
        BY DEF NoLeak
      <3>1. wh'[u] = wh[u] /\ ~(Usable(a) /\ handle[a].wh = u)
        BY <2>1
      <3>2. handle[a].wh # u
        BY <3>1, <1>1 DEF Usable, Expired, Ownership, HandleMatches, TypeOK
      <3> QED
        BY <3>1, <3>2, <1>3, <1>5 DEF Ownership, NoLeak, Handle
    <2>6. OriginBorn' /\ RootsExist'
      BY <2>1 DEF Ownership, OriginBorn, RootsExist
    <2> QED
      BY <1>6, <2>2, <2>3, <2>4, <2>5, <2>6
  <1>8. CASE \E w \in WrenHandle, v \in VM, o \in Obj :
               /\ wh[w] = NULL /\ vmState[v] = "live" /\ o \in heap[v]
               /\ new = [vm |-> v, wh |-> w]
               /\ wh' = Release(WithWren(w, v, o), Released({a}))
    <2> PICK w \in WrenHandle, v \in VM, o \in Obj :
               /\ wh[w] = NULL /\ vmState[v] = "live" /\ o \in heap[v]
               /\ new = [vm |-> v, wh |-> w]
               /\ wh' = Release(WithWren(w, v, o), Released({a}))
      BY <1>8
    <2> DEFINE ref == [vm |-> v, obj |-> o]
    <2>0. o \in Obj /\ ref # NULL /\ \A g \in Handle : handle[g].wh # w
      BY DEF Ownership, TypeOK, HandleMatches
    <2>1. \A u \in WrenHandle :
            wh'[u] = IF Usable(a) /\ handle[a].wh = u THEN NULL
                     ELSE IF u = w THEN ref ELSE wh[u]
      BY <1>2 DEF Release, WithWren, Ownership, TypeOK
    <2>2. wh'[w] = ref
      BY <1>1, <2>0, <2>1
    <2>3. wh' \in [WrenHandle -> [vm : VM, obj : Obj] \cup {NULL}]
      <3>1. WithWren(w, v, o) \in [WrenHandle -> [vm : VM, obj : Obj] \cup {NULL}]
        BY <2>0 DEF Ownership, TypeOK, WithWren
      <3> QED
        BY <3>1, ReleaseType
    <2>4. handle' \in [Handle -> [vm : VM \cup {NULL}, wh : WrenHandle \cup {NULL}]]
      BY DEF Ownership, TypeOK
    <2>5. HandleMatches'
      <3> SUFFICES ASSUME NEW g \in Handle, handle'[g].wh # NULL
                   PROVE  /\ wh'[handle'[g].wh] # NULL
                          /\ wh'[handle'[g].wh].vm = handle'[g].vm
        BY DEF HandleMatches
      <3>1. CASE g = a
        BY <3>1, <1>3, <2>0, <2>2
      <3>2. CASE g # a
        <4>1. handle'[g] = handle[g] /\ handle[g].wh \in WrenHandle \ {w}
          BY <3>2, <1>3, <2>0 DEF Ownership, TypeOK
        <4>2. wh'[handle[g].wh] = wh[handle[g].wh]
          BY <3>2, <4>1, <1>1, <2>1 DEF Ownership, SoleOwner
        <4> QED
          BY <4>1, <4>2 DEF Ownership, HandleMatches
      <3> QED
        BY <3>1, <3>2
    <2>6. SoleOwner'
      BY <1>3, <2>0 DEF Ownership, SoleOwner
    <2>7. NoLeak'
      <3> SUFFICES ASSUME NEW u \in WrenHandle, wh'[u] # NULL,
                          vmState[wh'[u].vm] = "live"
                   PROVE  \/ \E b \in ReturnValue : handle'[b].wh = u
                          \/ \E q \in Ptr : ptr[q] # NULL /\ handle'[ptr[q]].wh = u
        BY DEF NoLeak
      <3>1. CASE u = w
        BY <3>1, <1>1, <1>3
      <3>2. CASE u # w
        <4>1. wh'[u] = wh[u] /\ ~(Usable(a) /\ handle[a].wh = u)
          BY <3>2, <2>1
        <4>2. handle[a].wh # u
          BY <4>1, <1>1 DEF Usable, Expired, Ownership, HandleMatches, TypeOK
        <4> QED
          BY <4>1, <4>2, <1>3, <1>5 DEF Ownership, NoLeak, Handle
      <3> QED
        BY <3>1, <3>2
    <2>8. OriginBorn' /\ RootsExist'
      <3> SUFFICES ASSUME NEW u \in WrenHandle, wh'[u] # NULL
                   PROVE  /\ vmState[wh'[u].vm] # "unborn"
                          /\ vmState[wh'[u].vm] = "live" =>
                               wh'[u].obj \in heap[wh'[u].vm]
        BY DEF OriginBorn, RootsExist
      <3>1. CASE u = w
        BY <3>1, <2>2
      <3>2. CASE u # w
        <4>1. wh'[u] = wh[u]
          BY <3>2, <2>1
        <4> QED
          BY <4>1 DEF Ownership, OriginBorn, RootsExist
      <3> QED
        BY <3>1, <3>2
    <2> QED
      BY <1>6, <2>3, <2>4, <2>5, <2>6, <2>7, <2>8
  <1> QED
    BY <1>7, <1>8

(* The call that returns leaves the calls under it as they were. *)
LEMMA TailLive ==
  ASSUME Ownership, calls # <<>>, calls' = Tail(calls), UNCHANGED vmState
  PROVE  /\ calls' \in Seq(VM) /\ CallsLive'
         /\ Head(calls) \in VM /\ vmState[Head(calls)] = "live"
  <1>1. calls \in Seq(VM) /\ Len(calls) \in Nat /\ Len(calls) >= 1
    BY DEF Ownership, TypeOK
  <1>2. Head(calls) = calls[1] /\ Head(calls) \in VM /\ Tail(calls) \in Seq(VM)
    BY <1>1
  <1>3. Len(Tail(calls)) = Len(calls) - 1
        /\ \A i \in 1 .. Len(Tail(calls)) : Tail(calls)[i] = calls[i + 1]
    BY <1>1
  <1>4. \A i \in 1 .. Len(calls) : vmState[calls[i]] = "live"
    BY DEF Ownership, CallsLive
  <1>5. \A i \in 1 .. Len(Tail(calls)) : i + 1 \in 1 .. Len(calls)
    BY <1>1, <1>3
  <1>6. CallsLive'
    BY <1>3, <1>4, <1>5 DEF CallsLive
  <1> QED
    BY <1>1, <1>2, <1>4, <1>6

(* The beginning and the failure of a call keep the invariant. *)
LEMMA CallOwnership ==
  ASSUME Ownership,
         \/ \E m \in Method : BeginCall(m)
         \/ FailCall
  PROVE  Ownership'
  <1>1. UNCHANGED <<vmState, data, handle, ptr, wh, heap>>
    BY DEF BeginCall, FailCall
  <1>2. calls' \in Seq(VM) /\ CallsLive'
    <2>1. CASE \E m \in Method : BeginCall(m)
      <3> PICK m \in Method : BeginCall(m)
        BY <2>1
      <3> DEFINE v == handle[ptr[Member("handle", m)]].vm
      <3>1. calls' = <<v>> \o calls /\ ~Expired(v)
        BY DEF BeginCall
      <3>2. v \in VM /\ vmState[v] = "live"
        <4>1. ptr[Member("handle", m)] \in Handle
          BY MemberInPtr DEF BeginCall, Ownership, TypeOK, Handle
        <4> QED
          BY <3>1, <4>1 DEF Expired, Ownership, TypeOK
      <3> HIDE DEF v
      <3>3. calls \in Seq(VM) /\ \A i \in 1 .. Len(calls) : vmState[calls[i]] = "live"
        BY DEF Ownership, TypeOK, CallsLive
      <3>4. calls' \in Seq(VM) /\ Len(calls') = Len(calls) + 1
            /\ \A i \in 1 .. Len(calls') : calls'[i] = IF i = 1 THEN v ELSE calls[i - 1]
        BY <3>1, <3>2, <3>3
      <3>5. \A i \in 1 .. Len(calls') : i = 1 \/ i - 1 \in 1 .. Len(calls)
        BY <3>3, <3>4
      <3> QED
        BY <1>1, <3>2, <3>3, <3>4, <3>5 DEF CallsLive
    <2>2. CASE FailCall
      BY <2>2, <1>1, TailLive DEF FailCall
    <2> QED
      BY <2>1, <2>2
  <1>3. outcome' \in Outcome
    BY ReportOutcome DEF BeginCall, FailCall, Results
  <1> QED
    BY <1>1, <1>2, <1>3
    DEF Ownership, TypeOK, HandleMatches, SoleOwner, NoLeak, StrayEmpty, OriginBorn,
        RootsExist, MethodCoherent, Referenced

(* The swap of two Anys keeps the invariant. *)
LEMMA MoveAnyOwnership ==
  ASSUME Ownership, NEW a \in ReturnValue, NEW b \in ReturnValue, MoveAny(a, b)
  PROVE  Ownership'
  <1> USE HolderAssumption
  <1>1. UNCHANGED <<vmState, data, ptr, wh, heap, calls>> /\ outcome' \in Outcome
    BY ReportOutcome DEF MoveAny
  <1>2. a \in Handle /\ b \in Handle /\ a \notin Shared /\ b \notin Shared
    BY DEF Handle
  <1>3. \A g \in Handle : handle'[g] = IF g = a THEN handle[b]
                                       ELSE IF g = b THEN handle[a] ELSE handle[g]
    BY <1>2 DEF MoveAny, Ownership, TypeOK
  <1>4. TypeOK'
    BY <1>1, <1>2 DEF MoveAny, Ownership, TypeOK
  <1>5. HandleMatches' /\ SoleOwner'
    BY <1>1, <1>2, <1>3 DEF Ownership, HandleMatches, SoleOwner
  <1>6. \A q \in Ptr : ptr[q] # NULL => ptr[q] \in Handle /\ handle'[ptr[q]] = handle[ptr[q]]
    BY <1>2, <1>3 DEF Ownership, TypeOK, Handle
  <1>7. \A w : (\E c \in ReturnValue : handle[c].wh = w) =>
                 \E c \in ReturnValue : handle'[c].wh = w
    BY <1>2, <1>3 DEF Handle
  <1>8. NoLeak'
    BY <1>1, <1>6, <1>7 DEF Ownership, NoLeak
  <1>9. StrayEmpty' /\ OriginBorn' /\ RootsExist' /\ CallsLive'
    BY <1>1, <1>2, <1>3
    DEF Ownership, StrayEmpty, OriginBorn, RootsExist, CallsLive, Referenced, Handle
  <1>10. MethodCoherent'
    BY <1>1, <1>6, MemberInPtr DEF Ownership, MethodCoherent
  <1> QED
    BY <1>4, <1>5, <1>8, <1>9, <1>10 DEF Ownership

(* and the calls and the steps of Any. *)
LEMMA AnyStepOwnership == Ownership /\ AnyStep => Ownership'
  <1> USE HolderAssumption
  <1> SUFFICES ASSUME Ownership, AnyStep PROVE Ownership'
    OBVIOUS
  <1>1. CASE (\E m \in Method : BeginCall(m)) \/ FailCall
    BY <1>1, CallOwnership
  <1>2. CASE \E a \in ReturnValue : ReturnNull(a)
    <2> PICK a \in ReturnValue : ReturnNull(a)
      BY <1>2
    <2>1. calls' \in Seq(VM) /\ CallsLive'
      BY TailLive DEF ReturnNull
    <2>2. outcome' \in Outcome /\ UNCHANGED <<vmState, data, ptr, heap>>
      BY ReportOutcome DEF ReturnNull, Results
    <2> QED
      BY <2>1, <2>2, AnyOwnership DEF ReturnNull, Ownership, TypeOK
  <1>3. CASE \E a \in ReturnValue, o \in Obj, w \in WrenHandle : ReturnObject(a, o, w)
    <2> PICK a \in ReturnValue, o \in Obj, w \in WrenHandle : ReturnObject(a, o, w)
      BY <1>3
    <2> DEFINE v == Head(calls)
    <2>1. calls' \in Seq(VM) /\ CallsLive' /\ v \in VM /\ vmState[v] = "live"
      BY TailLive DEF ReturnObject
    <2>2. outcome' \in Outcome /\ UNCHANGED <<vmState, data, ptr, heap>>
      BY ReportOutcome DEF ReturnObject, Results
    <2>3. /\ wh[w] = NULL /\ o \in heap[v]
          /\ handle' = [handle EXCEPT ![a] = [vm |-> v, wh |-> w]]
          /\ wh' = Release(WithWren(w, v, o), Released({a}))
      BY DEF ReturnObject
    <2> HIDE DEF v
    <2> QED
      BY <2>1, <2>2, <2>3, AnyOwnership DEF Ownership, TypeOK
  <1>4. CASE \E a, b \in ReturnValue : MoveAny(a, b)
    BY <1>4, MoveAnyOwnership
  <1>5. CASE \E a \in ReturnValue : DestroyAny(a)
    <2> PICK a \in ReturnValue : DestroyAny(a)
      BY <1>5
    <2>1. outcome' \in Outcome /\ UNCHANGED <<vmState, data, ptr, heap, calls>>
      BY ReportOutcome DEF DestroyAny
    <2> QED
      BY <2>1, AnyOwnership DEF DestroyAny, Ownership, TypeOK, CallsLive
  <1>6. CASE \E a \in ReturnValue, x \in Variable, h \in Shared, w \in WrenHandle :
               AsVariable(a, x, h, w)
    <2> PICK a \in ReturnValue, x \in Variable, h \in Shared, w \in WrenHandle :
               AsVariable(a, x, h, w)
      BY <1>6
    <2> DEFINE v == handle[a].vm
               o == wh[handle[a].wh].obj
    <2>1. a \in Handle /\ v \in VM /\ vmState[v] = "live" /\ handle[a].wh \in WrenHandle
      BY DEF AsVariable, Usable, Expired, Ownership, TypeOK, Handle
    <2>2. o \in Obj /\ o \in heap[v]
      BY <2>1 DEF Ownership, RootsExist, HandleMatches, TypeOK, AsVariable, Usable
    <2>3. /\ MakesHandle(h, w, v, o)
          /\ Settle([ptr EXCEPT ![x] = h], WithHandle(h, w, v), WithWren(w, v, o))
          /\ UNCHANGED <<vmState, data, heap, calls>>
          /\ outcome' \in Outcome
      BY ReportOutcome DEF AsVariable, Results
    <2> HIDE DEF v, o
    <2> QED
      BY <2>1, <2>2, <2>3, FindOwnership
  <1> QED
    BY <1>1, <1>2, <1>3, <1>4, <1>5, <1>6 DEF AnyStep

(* The invariant is inductive. *)
LEMMA NextOwnership == Ownership /\ [Next]_vars => Ownership'
  <1>1. Ownership /\ UNCHANGED vars => Ownership'
    BY DEF vars, Ownership, TypeOK, HandleMatches, SoleOwner, NoLeak, StrayEmpty,
           OriginBorn, RootsExist, MethodCoherent, CallsLive, Referenced
  <1> QED
    BY <1>1, VMStepOwnership, SharedStepOwnership, UseStepOwnership, AnyStepOwnership
    DEF Next
----------------------------------------------------------------------------
(* Only WrenHandles of live VMs are given back by dying Handles. *)
LEMMA ReleasedLive ==
  ASSUME Ownership, NEW H \in SUBSET Handle, NEW w \in Released(H)
  PROVE  w \in WrenHandle /\ wh[w] # NULL /\ vmState[wh[w].vm] = "live"
  <1>1. PICK h \in H : Usable(h) /\ handle[h].wh = w
    BY ReleasedMember
  <1> QED
    BY <1>1 DEF Usable, Expired, Ownership, HandleMatches, TypeOK

(* What a step of the shared holders does to the handle list of a VM that  *)
(* was freed: nothing, unless it makes a new WrenHandle there.             *)
LEMMA SettleFreed ==
  ASSUME Ownership, NEW p \in [Ptr -> Shared \cup {NULL}], NEW K, NEW L,
         Settle(p, K, L),
         NEW w \in WrenHandle, wh[w] # NULL, vmState[wh[w].vm] = "freed",
         L[w] = wh[w]
  PROVE  wh'[w] = wh[w]
  <1>1. Orphans(p) \in SUBSET Handle
    BY DEF Orphans, Referenced, Ownership, TypeOK, Handle
  <1>2. w \notin Released(Orphans(p))
    BY <1>1, ReleasedLive
  <1> QED
    BY <1>2 DEF Settle, Release

(* No step writes the handle list of a VM that was freed before it. *)
LEMMA FreedStep ==
  ASSUME Ownership, [Next]_vars,
         NEW w \in WrenHandle, wh[w] # NULL, vmState[wh[w].vm] = "freed"
  PROVE  wh'[w] = wh[w]
  <1> USE HolderAssumption
  <1>0. /\ ptr \in [Ptr -> Shared \cup {NULL}]
        /\ wh \in [WrenHandle -> [vm : VM, obj : Obj] \cup {NULL}]
    BY DEF Ownership, TypeOK
  <1>1. \A h, u, v, o : MakesHandle(h, u, v, o) => WithWren(u, v, o)[w] = wh[w]
    BY <1>0 DEF MakesHandle, WithWren
  <1>2. CASE VMStep \/ UseStep \/ UNCHANGED vars
    BY <1>2 DEF VMStep, NewVM, SwapVM, DestroyVM, Allocate, Collect, UseStep, UseNull,
                UseExpired, QueryMap, AsValue, AsNull, IsBasic, vars
  <1>3. CASE SharedStep
    <2>1. CASE \E v \in VM, x \in Variable, o \in Obj, h \in Shared, u \in WrenHandle :
                 Find(v, x, o, h, u)
      <3> PICK v \in VM, x \in Variable, o \in Obj, h \in Shared, u \in WrenHandle :
                 Find(v, x, o, h, u)
        BY <2>1
      <3> DEFINE p == [ptr EXCEPT ![x] = h]
      <3>1. p \in [Ptr -> Shared \cup {NULL}]
        BY <1>0
      <3>2. Settle(p, WithHandle(h, u, v), WithWren(u, v, o)) /\ WithWren(u, v, o)[w] = wh[w]
        BY <1>1 DEF Find
      <3> HIDE DEF p
      <3> QED
        BY <3>1, <3>2, SettleFreed
    <2>2. CASE \E x, y \in Variable : CopyVariable(x, y)
      <3> PICK x \in Variable, y \in Variable : CopyVariable(x, y)
        BY <2>2
      <3> DEFINE p == [ptr EXCEPT ![y] = ptr[x]]
      <3>1. p \in [Ptr -> Shared \cup {NULL}] /\ Settle(p, handle, wh)
        BY <1>0 DEF CopyVariable, Ptr
      <3> HIDE DEF p
      <3> QED
        BY <3>1, SettleFreed
    <2>3. CASE \E m, n \in Method : CopyMethod(m, n)
      <3> PICK m \in Method, n \in Method : CopyMethod(m, n)
        BY <2>3
      <3> DEFINE p == [ptr EXCEPT ![Member("variable", n)] = ptr[Member("variable", m)],
                                  ![Member("handle", n)] = ptr[Member("handle", m)]]
      <3>1. p \in [Ptr -> Shared \cup {NULL}] /\ Settle(p, handle, wh)
        BY <1>0, MemberInPtr DEF CopyMethod
      <3> HIDE DEF p
      <3> QED
        BY <3>1, SettleFreed
    <2>4. CASE (\E x \in Variable : ResetVariable(x)) \/ (\E m \in Method : ResetMethod(m))
      <3> PICK P : Drop(P)
        BY <2>4 DEF ResetVariable, ResetMethod
      <3> DEFINE p == [q \in Ptr |-> IF q \in P THEN NULL ELSE ptr[q]]
      <3>1. p \in [Ptr -> Shared \cup {NULL}] /\ Settle(p, handle, wh)
        BY <1>0 DEF Drop
      <3> HIDE DEF p
      <3> QED
        BY <3>1, SettleFreed
    <2>5. CASE \E x \in Variable, m \in Method, o \in Obj, h \in Shared, u \in WrenHandle :
                 Func(x, m, o, h, u)
      <3> PICK x \in Variable, m \in Method, o \in Obj, h \in Shared, u \in WrenHandle :
                 Func(x, m, o, h, u)
        BY <2>5
      <3> DEFINE v == handle[ptr[x]].vm
                 p == [ptr EXCEPT ![Member("variable", m)] = ptr[x],
                                  ![Member("handle", m)] = h]
      <3>1. p \in [Ptr -> Shared \cup {NULL}]
        BY <1>0, MemberInPtr DEF Ptr
      <3>2. Settle(p, WithHandle(h, u, v), WithWren(u, v, o)) /\ WithWren(u, v, o)[w] = wh[w]
        BY <1>1 DEF Func
      <3> HIDE DEF p
      <3> QED
        BY <3>1, <3>2, SettleFreed
    <2> QED
      BY <1>3, <2>1, <2>2, <2>3, <2>4, <2>5 DEF SharedStep
  <1>4. CASE AnyStep
    <2>0. \A a \in ReturnValue : w \notin Released({a})
      BY ReleasedLive DEF Handle
    <2>1. CASE (\E m \in Method : BeginCall(m)) \/ FailCall
               \/ (\E a, b \in ReturnValue : MoveAny(a, b))
      BY <2>1 DEF BeginCall, FailCall, MoveAny
    <2>2. CASE \E a \in ReturnValue : ReturnNull(a) \/ DestroyAny(a)
      BY <2>0, <2>2 DEF ReturnNull, DestroyAny, Release
    <2>3. CASE \E a \in ReturnValue, o \in Obj, u \in WrenHandle : ReturnObject(a, o, u)
      BY <1>0, <2>0, <2>3 DEF ReturnObject, Release, WithWren
    <2>4. CASE \E a \in ReturnValue, x \in Variable, h \in Shared, u \in WrenHandle :
                 AsVariable(a, x, h, u)
      <3> PICK a \in ReturnValue, x \in Variable, h \in Shared, u \in WrenHandle :
                 AsVariable(a, x, h, u)
        BY <2>4
      <3> DEFINE v == handle[a].vm
                 o == wh[handle[a].wh].obj
                 p == [ptr EXCEPT ![x] = h]
      <3>1. p \in [Ptr -> Shared \cup {NULL}]
        BY <1>0
      <3>2. Settle(p, WithHandle(h, u, v), WithWren(u, v, o)) /\ WithWren(u, v, o)[w] = wh[w]
        BY <1>1 DEF AsVariable
      <3> HIDE DEF p, v, o
      <3> QED
        BY <3>1, <3>2, SettleFreed
    <2> QED
      BY <1>4, <2>1, <2>2, <2>3, <2>4 DEF AnyStep
  <1> QED
    BY <1>2, <1>3, <1>4 DEF Next
----------------------------------------------------------------------------
(* The inductive invariant holds in every reachable state. *)
THEOREM OwnershipInvariant == Spec => []Ownership
  BY InitOwnership, NextOwnership, PTL DEF Spec

(* Every variable keeps to its type, for any instance. *)
THEOREM TypeCorrect == Spec => []TypeOK
  <1>1. Ownership => TypeOK
    BY DEF Ownership
  <1> QED
    BY <1>1, OwnershipInvariant, PTL

(* Each WrenHandle of a live VM has exactly one owner, of the same VM: it  *)
(* is never leaked, never released twice and never used after release.     *)
THEOREM HandlesOwned == Spec => [](HandleMatches /\ SoleOwner /\ NoLeak)
  <1>1. Ownership => HandleMatches /\ SoleOwner /\ NoLeak
    BY DEF Ownership
  <1> QED
    BY <1>1, OwnershipInvariant, PTL

(* No two Handles own one WrenHandle. *)
THEOREM SingleOwner == Spec => []SoleOwner
  BY HandlesOwned, PTL

(* Each WrenHandle of a live VM has an owner. *)
THEOREM NothingLeaked == Spec => []NoLeak
  BY HandlesOwned, PTL

(* What a holder of a live VM refers to is never collected. *)
THEOREM ObjectsRetained == Spec => []HeldObjectExists
  <1>1. Ownership => HeldObjectExists
    BY DEF Ownership, HeldObjectExists, Usable, Expired, HandleMatches, RootsExist, TypeOK
  <1> QED
    BY <1>1, OwnershipInvariant, PTL

(* A holder that outlives its VM leaves the handle list of the VM alone. *)
THEOREM FreedLeftAlone == Spec => FreedUntouched
  <1>1. Ownership /\ [Next]_vars =>
          \A w \in WrenHandle :
            wh[w] # NULL /\ vmState[wh[w].vm] = "freed" => wh'[w] = wh[w]
    BY FreedStep
  <1> QED
    BY <1>1, OwnershipInvariant, PTL DEF Spec, FreedUntouched
=============================================================================
