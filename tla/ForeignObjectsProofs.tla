------------------------ MODULE ForeignObjectsProofs ------------------------
(***************************************************************************)
(* Theorems on ForeignObjects, for any number of objects, cells and        *)
(* variables: owning pointers keep their objects alive, and an application *)
(* that passes copies and shared pointers uses nothing that is gone.       *)
(***************************************************************************)
EXTENDS ForeignObjects, TLAPS

(* All pointers there are. *)
AllPointers == Pointers(shared, cell, frame)

(* An owning pointer points to something. *)
OwnersPoint == \A p \in AllPointers : p.owning => p.obj \in Obj

(* What the application owns otherwise is alive, and no pointer owns it:   *)
(* the end of a local kills nothing a pointer relies on.                   *)
LocalsAlive == \A o \in local : life[o] = "alive"
LocalsUnshared == \A o \in local : Owning(o) \notin AllPointers

(* The inductive invariant of ownership. *)
Lifetimes ==
  /\ TypeOK
  /\ OwnersPoint
  /\ OwnedAlive
  /\ LocalsAlive
  /\ LocalsUnshared
----------------------------------------------------------------------------
(* Pointers of every kind are pointers. *)
LEMMA PointerTypes ==
  /\ Null \in Pointer
  /\ \A o \in Obj : Owning(o) \in Pointer /\ Borrowed(o) \in Pointer
  BY DEF Pointer, Null, Owning, Borrowed

(* The pointers there are, by the place where they are. *)
LEMMA PointerPlaces ==
  /\ \A s \in Shared : shared[s] \in AllPointers
  /\ \A c \in Cell : cell[c].ptr \in AllPointers
  /\ frame.ptr \in AllPointers
  BY DEF AllPointers, Pointers

(* In a well-typed state every pointer has its type. *)
LEMMA PointersTyped ==
  ASSUME TypeOK
  PROVE  AllPointers \subseteq Pointer
  BY DEF TypeOK, AllPointers, Pointers

(* A pointer is the owning pointer of its object if it owns. *)
LEMMA OwningShape ==
  ASSUME NEW p \in Pointer, p.owning
  PROVE  p = Owning(p.obj)
  BY DEF Pointer, Owning

(* A step may write a cell, a variable or the frame: what pointers there   *)
(* are then.                                                               *)
LEMMA CellWritten ==
  ASSUME TypeOK, NEW c \in Cell, NEW x, cell' = [cell EXCEPT ![c] = x],
         UNCHANGED <<shared, frame>>
  PROVE  AllPointers' \subseteq AllPointers \cup {x.ptr}
  BY DEF TypeOK, AllPointers, Pointers

(* The same when the frame of the call is written. *)
LEMMA FrameWritten ==
  ASSUME NEW x, frame' = x, UNCHANGED <<shared, cell>>
  PROVE  AllPointers' \subseteq AllPointers \cup {x.ptr}
  BY DEF AllPointers, Pointers

(* The same when a variable is written. *)
LEMMA SharedWritten ==
  ASSUME TypeOK, NEW s \in Shared, NEW x, shared' = [shared EXCEPT ![s] = x],
         UNCHANGED <<cell, frame>>
  PROVE  AllPointers' \subseteq AllPointers \cup {x}
  BY DEF TypeOK, AllPointers, Pointers
----------------------------------------------------------------------------
(* When objects of B come to life and the others keep or lose their        *)
(* owners, the invariant of ownership remains, if each owning pointer was  *)
(* there or is that of an object of B.                                     *)
LEMMA Settled ==
  ASSUME Lifetimes, TypeOK', NEW B \in SUBSET Obj,
         \A o \in B : life[o] = "unborn",
         \A p \in AllPointers' : p \in AllPointers \/ ~p.owning \/ \E o \in B : p = Owning(o),
         Settle(B), UNCHANGED local
  PROVE  Lifetimes'
  <1> DEFINE owned == {o \in Obj : Owning(o) \in AllPointers'} \cup local
  <1>1. life' = [o \in Obj |-> IF o \in B THEN "alive"
                               ELSE IF life[o] = "alive" /\ o \notin owned THEN "dead"
                               ELSE life[o]]
    BY DEF Settle, AllPointers
  <1>2. OwnersPoint'
    <2> SUFFICES ASSUME NEW p \in AllPointers', p.owning
                 PROVE  p.obj \in Obj
      BY DEF OwnersPoint
    <2>1. CASE p \in AllPointers
      BY <2>1 DEF Lifetimes, OwnersPoint
    <2>2. CASE \E o \in B : p = Owning(o)
      BY <2>2 DEF Owning
    <2> QED
      BY <2>1, <2>2
  <1>3. OwnedAlive'
    <2> SUFFICES ASSUME NEW p \in AllPointers', p.owning
                 PROVE  life'[p.obj] = "alive"
      BY DEF OwnedAlive, AllPointers
    <2>1. p.obj \in Obj
      BY <1>2 DEF OwnersPoint
    <2>2. p \in Pointer
      BY PointersTyped DEF TypeOK, AllPointers, Pointers
    <2>3. p.obj \in owned
      BY <2>1, <2>2, OwningShape
    <2>4. CASE p \in AllPointers
      <3>1. life[p.obj] = "alive"
        BY <2>4 DEF Lifetimes, OwnedAlive, AllPointers
      <3> QED
        BY <1>1, <2>1, <2>3, <3>1
    <2>5. CASE \E o \in B : p = Owning(o)
      <3>1. p.obj \in B
        BY <2>5 DEF Owning
      <3> QED
        BY <1>1, <3>1
    <2> QED
      BY <2>4, <2>5
  <1>4. LocalsAlive'
    <2> SUFFICES ASSUME NEW o \in local
                 PROVE  life'[o] = "alive"
      BY DEF LocalsAlive
    <2>1. o \in Obj /\ o \in owned /\ life[o] = "alive"
      BY DEF Lifetimes, LocalsAlive, TypeOK
    <2> QED
      BY <1>1, <2>1
  <1>5. LocalsUnshared'
    <2> SUFFICES ASSUME NEW o \in local, Owning(o) \in AllPointers'
                 PROVE  FALSE
      BY DEF LocalsUnshared
    <2>1. life[o] = "alive" /\ Owning(o) \notin AllPointers
      BY DEF Lifetimes, LocalsAlive, LocalsUnshared
    <2>2. \A b \in B : Owning(o) # Owning(b)
      BY <2>1 DEF Owning
    <2>3. Owning(o).owning
      BY DEF Owning
    <2> QED
      BY <2>1, <2>2, <2>3
  <1> QED
    BY <1>2, <1>3, <1>4, <1>5 DEF Lifetimes

(* Objects keep to the states there are. *)
LEMMA SettledLife ==
  ASSUME TypeOK, NEW B \in SUBSET Obj, Settle(B)
  PROVE  life' \in [Obj -> {"unborn", "alive", "dead"}]
  BY DEF TypeOK, Settle
----------------------------------------------------------------------------
(* The steps of the application. *)

(* make_shared brings an object to life in a variable. *)
LEMMA MakeSharedStep ==
  ASSUME Lifetimes, NEW s \in Shared, NEW o \in Obj, MakeShared(s, o),
         UNCHANGED <<passing, throwing>>
  PROVE  Lifetimes'
  <1>1. /\ life[o] = "unborn" /\ shared' = [shared EXCEPT ![s] = Owning(o)]
        /\ UNCHANGED <<local, cell, reached, any, frame, alive>> /\ Settle({o})
    BY DEF MakeShared
  <1>2. TypeOK'
    BY <1>1, SettledLife, PointerTypes DEF Lifetimes, TypeOK
  <1>3. AllPointers' \subseteq AllPointers \cup {Owning(o)}
    BY <1>1, SharedWritten DEF Lifetimes
  <1> QED
    BY <1>1, <1>2, <1>3, Settled

(* A variable gives up its share. *)
LEMMA DropSharedStep ==
  ASSUME Lifetimes, NEW s \in Shared, DropShared(s), UNCHANGED <<passing, throwing>>
  PROVE  Lifetimes'
  <1>1. /\ shared' = [shared EXCEPT ![s] = Null]
        /\ UNCHANGED <<local, cell, reached, any, frame, alive>> /\ Settle({})
    BY DEF DropShared
  <1>2. TypeOK'
    BY <1>1, SettledLife, PointerTypes DEF Lifetimes, TypeOK
  <1>3. AllPointers' \subseteq AllPointers \cup {Null} /\ ~Null.owning
    BY <1>1, SharedWritten DEF Lifetimes, Null
  <1> QED
    BY <1>1, <1>2, <1>3, Settled

(* A variable takes a share of the object of a cell. *)
LEMMA PopSharedStep ==
  ASSUME Lifetimes, NEW c \in Cell, NEW s \in Shared, PopShared(c, s),
         UNCHANGED <<passing, throwing>>
  PROVE  Lifetimes'
  <1>1. /\ shared' = [shared EXCEPT ![s] = cell[c].ptr]
        /\ UNCHANGED <<local, cell, reached, any, frame, alive>> /\ Settle({})
    BY DEF PopShared
  <1>2. cell[c].ptr \in Pointer
    BY DEF Lifetimes, TypeOK
  <1>3. TypeOK'
    BY <1>1, <1>2, SettledLife DEF Lifetimes, TypeOK
  <1>4. AllPointers' \subseteq AllPointers
    BY <1>1, SharedWritten, PointerPlaces DEF Lifetimes
  <1> QED
    BY <1>1, <1>3, <1>4, Settled

(* A local is a new object, which no pointer owns yet. *)
LEMMA MakeLocalStep ==
  ASSUME Lifetimes, NEW o \in Obj, MakeLocal(o), UNCHANGED <<passing, throwing>>
  PROVE  Lifetimes'
  <1>1. /\ life[o] = "unborn" /\ local' = local \cup {o}
        /\ UNCHANGED <<shared, cell, reached, any, frame, alive>> /\ Settle({o})
    BY DEF MakeLocal
  <1>2. TypeOK'
    BY <1>1, SettledLife DEF Lifetimes, TypeOK
  <1>3. AllPointers' = AllPointers
    BY <1>1 DEF AllPointers
  <1>4. \A p \in AllPointers : p.owning =>
          p \in Pointer /\ p = Owning(p.obj) /\ p.obj \in Obj /\ life[p.obj] = "alive"
    BY PointersTyped, OwningShape DEF Lifetimes, OwnersPoint, OwnedAlive, AllPointers
  <1>5. \A u \in Obj : life'[u] = "alive" <=>
          u = o \/ (life[u] = "alive" /\ (Owning(u) \in AllPointers \/ u \in local'))
    <2>1. life' = [u \in Obj |-> IF u \in {o} THEN "alive"
                    ELSE IF life[u] = "alive"
                            /\ u \notin {v \in Obj : Owning(v) \in AllPointers'} \cup local'
                         THEN "dead" ELSE life[u]]
      BY <1>1 DEF Settle, AllPointers
    <2> QED
      BY <1>3, <2>1
  <1>6. OwnersPoint'
    BY <1>3 DEF Lifetimes, OwnersPoint
  <1>7. OwnedAlive'
    <2>1. \A p \in AllPointers' : p.owning => life'[p.obj] = "alive"
      BY <1>3, <1>4, <1>5
    <2> QED
      BY <2>1 DEF OwnedAlive, AllPointers
  <1>8. LocalsAlive'
    BY <1>1, <1>5 DEF Lifetimes, LocalsAlive, TypeOK
  <1>9. LocalsUnshared'
    <2>1. Owning(o) \notin AllPointers
      BY <1>1, <1>4 DEF Owning
    <2> QED
      BY <1>1, <1>3, <2>1 DEF Lifetimes, LocalsUnshared
  <1> QED
    BY <1>2, <1>6, <1>7, <1>8, <1>9 DEF Lifetimes

(* No pointer that owns relied on the local that ends. *)
LEMMA EndLocalStep ==
  ASSUME Lifetimes, NEW o \in Obj, EndLocal(o), UNCHANGED <<passing, throwing>>
  PROVE  Lifetimes'
  <1>1. /\ o \in local /\ local' = local \ {o} /\ life' = [life EXCEPT ![o] = "dead"]
        /\ UNCHANGED <<shared, cell, reached, any, frame, alive>>
    BY DEF EndLocal
  <1>2. TypeOK'
    BY <1>1 DEF Lifetimes, TypeOK
  <1>3. AllPointers' = AllPointers
    BY <1>1 DEF AllPointers
  <1>4. \A p \in AllPointers : p.owning => p.obj \in Obj /\ p.obj # o /\ life[p.obj] = "alive"
    BY <1>1, PointersTyped, OwningShape
    DEF Lifetimes, OwnersPoint, OwnedAlive, LocalsUnshared, AllPointers
  <1>5. OwnersPoint' /\ LocalsUnshared'
    BY <1>1, <1>3 DEF Lifetimes, OwnersPoint, LocalsUnshared
  <1>6. OwnedAlive'
    <2>1. \A p \in AllPointers' : p.owning => life'[p.obj] = "alive"
      BY <1>1, <1>3, <1>4 DEF Lifetimes, TypeOK
    <2> QED
      BY <2>1 DEF OwnedAlive, AllPointers
  <1>7. LocalsAlive'
    BY <1>1 DEF Lifetimes, LocalsAlive, TypeOK
  <1> QED
    BY <1>2, <1>5, <1>6, <1>7 DEF Lifetimes
----------------------------------------------------------------------------
(* Objects into Wren: a free cell, which nothing refers to, is written. *)

(* Types are kept, if what is written is of its type. *)
LEMMA PushTyped ==
  ASSUME TypeOK, NEW c \in Cell, cell[c] = Free,
         NEW x \in [state : {"free", "raw", "built"}, ptr : Pointer],
         cell' = [cell EXCEPT ![c] = x],
         reached' = reached \/ (x.state = "built" /\ reached' = reached \cup {c}),
         UNCHANGED <<passing, throwing, local, shared, any, alive>>,
         life' \in [Obj -> {"unborn", "alive", "dead"}],
         frame' = frame \/ frame' = NoCall
  PROVE  TypeOK'
  <1>1. frame' \in [self : Cell \cup {NULL}, way : Ways \cup {"none"}, ptr : Pointer]
    BY PointerTypes DEF TypeOK, NoCall
  <1>2. c \notin reached \cup ({any[a] : a \in ReturnValue} \ {NULL})
    BY DEF TypeOK, Free
  <1>3. \A d \in reached' \cup ({any'[a] : a \in ReturnValue} \ {NULL}) : cell'[d].state = "built"
    BY <1>2 DEF TypeOK
  <1> QED
    BY <1>1, <1>3 DEF TypeOK

(* A new copy, in a wrapper of its own or lost to an exception. *)
LEMMA PushCopyStep ==
  ASSUME Lifetimes, NEW c \in Cell, NEW o \in Obj, cell[c] = Free, life[o] = "unborn",
         PushCopy(c, o),
         UNCHANGED <<passing, throwing, local, shared, any, alive>>,
         frame' = frame \/ frame' = NoCall
  PROVE  Lifetimes'
  <1>1. \/ /\ cell' = [cell EXCEPT ![c] = Wrapper(Owning(o))]
           /\ reached' = reached \cup {c} /\ Settle({o})
        \/ /\ cell' = [cell EXCEPT ![c] = Raw]
           /\ reached' = reached /\ Settle({})
    BY DEF PushCopy
  <1>2. AllPointers' \subseteq AllPointers \cup {cell'[c].ptr, Null}
    BY DEF AllPointers, Pointers, Lifetimes, TypeOK, NoCall, PushCopy
  <1>3. ~Null.owning
    BY DEF Null
  <1>4. CASE /\ cell' = [cell EXCEPT ![c] = Wrapper(Owning(o))]
             /\ reached' = reached \cup {c} /\ Settle({o})
    <2>1. Wrapper(Owning(o)) \in [state : {"free", "raw", "built"}, ptr : Pointer]
          /\ Wrapper(Owning(o)).state = "built" /\ Wrapper(Owning(o)).ptr = Owning(o)
      BY PointerTypes DEF Wrapper
    <2>2. TypeOK'
      BY <1>4, <2>1, PushTyped, SettledLife DEF Lifetimes
    <2>3. cell'[c].ptr = Owning(o)
      BY <1>4, <2>1 DEF Lifetimes, TypeOK
    <2> QED
      BY <1>2, <1>3, <1>4, <2>2, <2>3, Settled
  <1>5. CASE /\ cell' = [cell EXCEPT ![c] = Raw]
             /\ reached' = reached /\ Settle({})
    <2>1. Raw \in [state : {"free", "raw", "built"}, ptr : Pointer] /\ Raw.ptr = Null
      BY PointerTypes DEF Raw
    <2>2. TypeOK'
      BY <1>5, <2>1, PushTyped, SettledLife DEF Lifetimes
    <2>3. cell'[c].ptr = Null
      BY <1>5, <2>1 DEF Lifetimes, TypeOK
    <2> QED
      BY <1>2, <1>3, <1>5, <2>2, <2>3, Settled
  <1> QED
    BY <1>1, <1>4, <1>5

(* A pointer that is there, or that owns nothing. *)
LEMMA PushPointerStep ==
  ASSUME Lifetimes, NEW c \in Cell, NEW p \in Pointer, NEW way, cell[c] = Free,
         p \in AllPointers \/ ~p.owning,
         PushPointer(c, p, way),
         UNCHANGED <<passing, throwing, local, shared, any, alive>>,
         frame' = frame \/ frame' = NoCall
  PROVE  Lifetimes'
  <1>1. /\ cell' = [cell EXCEPT ![c] = Wrapper(p)]
        /\ reached' = reached \cup {c} /\ Settle({})
    BY DEF PushPointer
  <1>2. Wrapper(p) \in [state : {"free", "raw", "built"}, ptr : Pointer]
        /\ Wrapper(p).state = "built" /\ Wrapper(p).ptr = p
    BY DEF Wrapper
  <1>3. TypeOK'
    BY <1>1, <1>2, PushTyped, SettledLife DEF Lifetimes
  <1>4. cell'[c].ptr = p
    BY <1>1, <1>2 DEF Lifetimes, TypeOK
  <1>5. AllPointers' \subseteq AllPointers \cup {p, Null}
    BY <1>1, <1>4 DEF AllPointers, Pointers, Lifetimes, TypeOK, NoCall
  <1>6. ~Null.owning
    BY DEF Null
  <1> QED
    BY <1>1, <1>3, <1>5, <1>6, Settled

(* foreignAllocate: the constructor succeeds, or throws in raw memory. *)
LEMMA AllocateStep ==
  ASSUME Lifetimes, NEW c \in Cell, NEW o \in Obj, Allocate(c, o),
         UNCHANGED <<passing, throwing>>
  PROVE  Lifetimes'
  <1>1. cell[c] = Free /\ life[o] = "unborn" /\ UNCHANGED <<local, shared, any, frame, alive>>
    BY DEF Allocate
  <1>2. CASE /\ cell' = [cell EXCEPT ![c] = Wrapper(Owning(o))]
             /\ reached' = reached \cup {c} /\ Settle({o})
    <2>1. Wrapper(Owning(o)) \in [state : {"free", "raw", "built"}, ptr : Pointer]
          /\ Wrapper(Owning(o)).state = "built" /\ Wrapper(Owning(o)).ptr = Owning(o)
      BY PointerTypes DEF Wrapper
    <2>2. TypeOK'
      BY <1>1, <1>2, <2>1, PushTyped, SettledLife DEF Lifetimes
    <2>3. AllPointers' \subseteq AllPointers \cup {Owning(o)}
      BY <1>1, <1>2, <2>1, CellWritten DEF Lifetimes
    <2> QED
      BY <1>1, <1>2, <2>2, <2>3, Settled
  <1>3. CASE /\ cell' = [cell EXCEPT ![c] = Wrapper(Null)]
             /\ UNCHANGED <<life, reached>>
    <2>1. Wrapper(Null) \in [state : {"free", "raw", "built"}, ptr : Pointer]
          /\ Wrapper(Null).ptr = Null /\ ~Null.owning
      BY PointerTypes DEF Wrapper, Null
    <2>2. life' \in [Obj -> {"unborn", "alive", "dead"}]
      BY <1>3 DEF Lifetimes, TypeOK
    <2>3. TypeOK'
      BY <1>1, <1>3, <2>1, <2>2, PushTyped DEF Lifetimes
    <2>4. AllPointers' \subseteq AllPointers \cup {Null}
      BY <1>1, <1>3, <2>1, CellWritten DEF Lifetimes
    <2>5. \A p \in AllPointers' : p.owning => p \in AllPointers
      BY <2>1, <2>4
    <2>6. OwnedAlive'
      BY <1>3, <2>5 DEF Lifetimes, OwnedAlive, AllPointers
    <2>7. OwnersPoint' /\ LocalsAlive' /\ LocalsUnshared'
      BY <1>1, <1>3, <2>5 DEF Lifetimes, OwnersPoint, LocalsAlive, LocalsUnshared, Owning
    <2> QED
      BY <2>3, <2>6, <2>7 DEF Lifetimes
  <1> QED
    BY <1>2, <1>3 DEF Allocate

(* Every way of giving an object to Wren keeps the invariant. *)
LEMMA PassStep ==
  ASSUME Lifetimes, Pass, UNCHANGED <<passing, throwing>>
  PROVE  Lifetimes'
  <1>1. ASSUME NEW c \in Cell, NEW o \in Obj, PassPointer(c, o)
        PROVE  Lifetimes'
    <2>1. Borrowed(o) \in Pointer /\ ~Borrowed(o).owning
      BY PointerTypes DEF Borrowed
    <2> QED
      BY <1>1, <2>1, PushPointerStep DEF PassPointer
  <1>2. ASSUME NEW c \in Cell, NEW s \in Shared, PassShared(c, s)
        PROVE  Lifetimes'
    <2>1. shared[s] \in Pointer /\ shared[s] \in AllPointers
      BY PointerPlaces DEF Lifetimes, TypeOK
    <2> QED
      BY <1>2, <2>1, PushPointerStep DEF PassShared
  <1>3. ASSUME NEW c \in Cell, NEW o \in Obj, NEW p, PassCopy(c, p, o)
        PROVE  Lifetimes'
    BY <1>3, PushCopyStep DEF PassCopy
  <1> QED
    BY <1>1, <1>2, <1>3, AllocateStep DEF Pass
----------------------------------------------------------------------------
(* A step that leaves objects, pointers and locals alone. *)
LEMMA Untouched ==
  ASSUME Lifetimes, TypeOK', UNCHANGED <<life, local>>,
         \A p \in AllPointers' : p \in AllPointers \/ ~p.owning
  PROVE  Lifetimes'
  <1>1. OwnedAlive' /\ OwnersPoint' /\ LocalsAlive'
    BY DEF Lifetimes, OwnedAlive, OwnersPoint, LocalsAlive, AllPointers
  <1>2. LocalsUnshared'
    BY DEF Lifetimes, LocalsUnshared, Owning
  <1> QED
    BY <1>1, <1>2 DEF Lifetimes

(* So does every step of a call of a method. *)
LEMMA MethodStep ==
  ASSUME Lifetimes, Method, UNCHANGED <<passing, throwing>>
  PROVE  Lifetimes'
  <1> USE DEF Lifetimes
  <1>0. ~Null.owning /\ NoCall.ptr = Null
        /\ NoCall \in [self : Cell \cup {NULL}, way : Ways \cup {"none"}, ptr : Pointer]
    BY PointerTypes DEF Null, NoCall
  <1>1. ASSUME NEW c \in Cell, Invoke(c)
        PROVE  Lifetimes'
    <2>1. UNCHANGED <<life, local, shared, cell, reached, any, alive>>
          /\ (frame' = frame \/ frame' = [NoCall EXCEPT !.self = c])
      BY <1>1 DEF Invoke
    <2>2. [NoCall EXCEPT !.self = c].ptr = Null
          /\ [NoCall EXCEPT !.self = c] \in
               [self : Cell \cup {NULL}, way : Ways \cup {"none"}, ptr : Pointer]
      BY PointerTypes DEF NoCall
    <2>3. TypeOK'
      BY <2>1, <2>2 DEF TypeOK
    <2>4. AllPointers' \subseteq AllPointers \cup {Null}
      BY <2>1, <2>2, FrameWritten DEF AllPointers
    <2> QED
      BY <1>0, <2>1, <2>3, <2>4, Untouched
  <1>2. CASE Return
    <2>1. UNCHANGED <<life, local, shared, cell, reached, any, alive>> /\ frame' = NoCall
      BY <1>2 DEF Return
    <2>2. TypeOK'
      BY <1>0, <2>1 DEF TypeOK
    <2>3. AllPointers' \subseteq AllPointers \cup {Null}
      BY <1>0, <2>1, FrameWritten
    <2> QED
      BY <1>0, <2>1, <2>2, <2>3, Untouched
  <1>3. ASSUME NEW way \in Ways, NEW p \in Pointer, p \in AllPointers \/ ~p.owning,
               Returning(way, p)
        PROVE  Lifetimes'
    <2> DEFINE x == [self |-> NULL, way |-> way, ptr |-> p]
    <2>1. UNCHANGED <<local, shared, cell, reached, any, alive>> /\ frame' = x /\ Settle({})
      BY <1>3 DEF Returning
    <2>2. TypeOK'
      BY <2>1, SettledLife DEF TypeOK
    <2>3. AllPointers' \subseteq AllPointers \cup {p}
      BY <2>1, FrameWritten
    <2> QED
      BY <1>3, <2>1, <2>2, <2>3, Settled
  <1>4. CASE ReturnCopy
    BY <1>0, <1>3, <1>4, PointerTypes DEF ReturnCopy, Ways
  <1>5. ASSUME NEW s \in Shared, ReturnShared(s)
        PROVE  Lifetimes'
    BY <1>3, <1>5, PointerPlaces DEF ReturnShared, Ways, TypeOK
  <1>6. CASE ReturnReference
    <2>1. PICK way \in {"pointer", "reference", "const reference"} \cap passing :
            Returning(way, Borrowed(cell[frame.self].ptr.obj))
      BY <1>6 DEF ReturnReference
    <2>2. frame.self \in Cell
      BY <2>1 DEF Returning, InCall, TypeOK
    <2>3. Borrowed(cell[frame.self].ptr.obj) \in Pointer
          /\ ~Borrowed(cell[frame.self].ptr.obj).owning
      BY <2>2 DEF Borrowed, Pointer, TypeOK
    <2> QED
      BY <1>3, <2>1, <2>3 DEF Ways
  <1>7. ASSUME NEW c \in Cell, NEW o \in Obj, FinishReturn(c, o)
        PROVE  Lifetimes'
    <2>1. frame.ptr \in Pointer /\ frame.ptr \in AllPointers
      BY PointerPlaces DEF TypeOK
    <2>2. /\ cell[c] = Free /\ frame' = NoCall
          /\ UNCHANGED <<local, shared, any, alive>>
          /\ \/ life[o] = "unborn" /\ PushCopy(c, o)
             \/ PushPointer(c, frame.ptr, frame.way)
      BY <1>7 DEF FinishReturn
    <2> QED
      BY <2>1, <2>2, PushCopyStep, PushPointerStep
  <1> QED
    BY <1>1, <1>2, <1>4, <1>5, <1>6, <1>7 DEF Method
----------------------------------------------------------------------------
(* Any keeps a handle of a cell that Wren refers to. *)
LEMMA AnyStep ==
  ASSUME Lifetimes, NEW a \in ReturnValue,
         \/ DropAny(a) \/ UseAny(a)
         \/ \E c \in Cell : KeepAny(a, c),
         UNCHANGED <<passing, throwing>>
  PROVE  Lifetimes'
  <1>1. UNCHANGED <<life, local, shared, cell, reached, frame, alive>>
    BY DEF DropAny, UseAny, KeepAny
  <1>2. any' = any \/ \E x \in reached \cup {NULL} : any' = [any EXCEPT ![a] = x]
    BY DEF DropAny, UseAny, KeepAny
  <1>3. TypeOK'
    BY <1>1, <1>2 DEF Lifetimes, TypeOK
  <1>4. AllPointers' = AllPointers
    BY <1>1 DEF AllPointers
  <1> QED
    BY <1>1, <1>3, <1>4, Untouched

(* So does every step of the application of its own. *)
LEMMA ApplicationStep ==
  ASSUME Lifetimes, Application, UNCHANGED <<passing, throwing>>
  PROVE  Lifetimes'
  <1>1. ASSUME NEW s \in Shared, UseShared(s)
        PROVE  Lifetimes'
    <2>1. UNCHANGED <<life, local, shared, cell, reached, any, frame, alive>>
      BY <1>1 DEF UseShared
    <2>2. TypeOK'
      BY <2>1 DEF Lifetimes, TypeOK
    <2>3. AllPointers' = AllPointers
      BY <2>1 DEF AllPointers
    <2> QED
      BY <2>1, <2>2, <2>3, Untouched
  <1> QED
    BY <1>1, MakeSharedStep, DropSharedStep, PopSharedStep, MakeLocalStep, EndLocalStep, AnyStep
    DEF Application

(* Wren finalises cells that nothing refers to. *)
LEMMA FinalizeStep ==
  ASSUME Lifetimes, NEW D \in SUBSET Cell, Finalize(D), Settle({}),
         reached' \subseteq reached,
         any' \in [ReturnValue -> Cell \cup {NULL}],
         {any'[a] : a \in ReturnValue} \ {NULL} \subseteq {any[a] : a \in ReturnValue},
         D \cap (reached' \cup {any'[a] : a \in ReturnValue}) = {},
         alive' \in BOOLEAN,
         UNCHANGED <<passing, throwing, local, shared, frame>>
  PROVE  Lifetimes'
  <1>1. cell' = [c \in Cell |-> IF c \in D THEN Free ELSE cell[c]]
    BY DEF Finalize
  <1>2. Free \in [state : {"free", "raw", "built"}, ptr : Pointer] /\ Free.ptr = Null
        /\ ~Null.owning
    BY PointerTypes DEF Free, Null
  <1>3. \A c \in reached' \cup ({any'[a] : a \in ReturnValue} \ {NULL}) : cell'[c].state = "built"
    <2> DEFINE held == {any[a] : a \in ReturnValue}
               kept == {any'[a] : a \in ReturnValue}
    <2>1. \A c \in reached \cup (held \ {NULL}) : c \in Cell /\ cell[c].state = "built"
      BY DEF Lifetimes, TypeOK
    <2>2. kept \ {NULL} \subseteq held /\ D \cap (reached' \cup kept) = {}
      OBVIOUS
    <2> HIDE DEF held
    <2>3. \A c \in reached' \cup (kept \ {NULL}) : c \in Cell /\ c \notin D /\ cell[c].state = "built"
      BY <2>1, <2>2
    <2> QED
      BY <1>1, <2>3
  <1>4. cell' \in [Cell -> [state : {"free", "raw", "built"}, ptr : Pointer]]
    BY <1>1, <1>2 DEF Lifetimes, TypeOK
  <1>5. TypeOK'
    BY <1>3, <1>4, SettledLife DEF Lifetimes, TypeOK
  <1>6. AllPointers' \subseteq AllPointers \cup {Null}
    BY <1>1, <1>2 DEF AllPointers, Pointers
  <1> QED
    BY <1>2, <1>5, <1>6, Settled

(* So do collection, the end of the VM and the loss of a reference. *)
LEMMA WrenStep ==
  ASSUME Lifetimes, Wren, UNCHANGED <<passing, throwing>>
  PROVE  Lifetimes'
  <1>1. CASE Collect
    <2> DEFINE garbage == {c \in Cell : cell[c] # Free /\ c # frame.self}
                            \ (reached \cup {any[a] : a \in ReturnValue})
    <2>1. /\ Finalize(garbage) /\ Settle({})
          /\ UNCHANGED <<local, shared, reached, any, frame, alive>>
      BY <1>1 DEF Collect
    <2>2. garbage \in SUBSET Cell
          /\ garbage \cap (reached' \cup {any'[a] : a \in ReturnValue}) = {}
      BY <2>1
    <2> HIDE DEF garbage
    <2> QED
      BY <2>1, <2>2, FinalizeStep DEF Lifetimes, TypeOK
  <1>2. CASE FreeVM
    <2> DEFINE D == {c \in Cell : cell[c] # Free}
    <2>1. /\ Finalize(D) /\ Settle({}) /\ alive' = FALSE
          /\ reached' = {} /\ any' = [a \in ReturnValue |-> NULL]
          /\ UNCHANGED <<local, shared, frame>>
      BY <1>2 DEF FreeVM
    <2>2. D \in SUBSET Cell /\ {any'[a] : a \in ReturnValue} \subseteq {NULL} /\ NULL \notin Cell
      BY <2>1, HabitsAssumption
    <2>3. /\ any' \in [ReturnValue -> Cell \cup {NULL}]
          /\ {any'[a] : a \in ReturnValue} \ {NULL} \subseteq {any[a] : a \in ReturnValue}
          /\ D \cap (reached' \cup {any'[a] : a \in ReturnValue}) = {}
      BY <2>1, <2>2
    <2> HIDE DEF D
    <2> QED
      BY <2>1, <2>2, <2>3, FinalizeStep
  <1>3. ASSUME NEW c \in Cell, Unreach(c)
        PROVE  Lifetimes'
    <2>1. /\ UNCHANGED <<life, local, shared, cell, any, frame, alive>>
          /\ reached' = reached \ {c}
      BY <1>3 DEF Unreach
    <2>2. TypeOK'
      BY <2>1 DEF Lifetimes, TypeOK
    <2>3. AllPointers' = AllPointers
      BY <2>1 DEF AllPointers
    <2> QED
      BY <2>1, <2>2, <2>3, Untouched
  <1> QED
    BY <1>1, <1>2, <1>3 DEF Wren
----------------------------------------------------------------------------
(* At the start there is nothing to own. *)
LEMMA InitLifetimes == Init => Lifetimes
  <1> SUFFICES ASSUME Init PROVE Lifetimes
    OBVIOUS
  <1>1. AllPointers \subseteq {Null}
    BY DEF Init, AllPointers, Pointers, Free, NoCall
  <1>2. ~Null.owning
    BY DEF Null
  <1>3. TypeOK
    BY PointerTypes, HabitsAssumption DEF Init, TypeOK, Free, NoCall
  <1> QED
    BY <1>1, <1>2, <1>3
    DEF Init, Lifetimes, OwnersPoint, OwnedAlive, LocalsAlive, LocalsUnshared, AllPointers

(* The invariant is inductive. *)
LEMMA NextLifetimes == Lifetimes /\ [Next]_vars => Lifetimes'
  <1>1. Lifetimes /\ UNCHANGED vars => Lifetimes'
    BY DEF vars, Lifetimes, TypeOK, OwnersPoint, OwnedAlive, LocalsAlive, LocalsUnshared, AllPointers
  <1> QED
    BY <1>1, ApplicationStep, PassStep, MethodStep, WrenStep DEF Next

(* Every variable keeps to its type, and Wren refers to built cells alone. *)
THEOREM ForeignTyped == Spec => []TypeOK
  <1>1. Lifetimes => TypeOK
    BY DEF Lifetimes
  <1> QED
    BY <1>1, InitLifetimes, NextLifetimes, PTL DEF Spec

(* An owning pointer, wherever it is, keeps its object alive (push.hpp:75, *)
(* pop.hpp, object.hpp).                                                   *)
THEOREM OwnersKeepAlive == Spec => []OwnedAlive
  <1>1. Lifetimes => OwnedAlive
    BY DEF Lifetimes
  <1> QED
    BY <1>1, InitLifetimes, NextLifetimes, PTL DEF Spec
----------------------------------------------------------------------------
(* An application that passes copies and shared pointers, and whose copies *)
(* do not throw.                                                           *)
Safe == passing \subseteq {"copy", "shared"} /\ "copy" \notin throwing

(* In such an application every pointer that can be used owns: those of    *)
(* the cells something refers to, of the variables and of a result; and    *)
(* every cell that is taken has its wrapper.                               *)
Owned ==
  /\ \A c \in reached \cup ({any[a] : a \in ReturnValue} \ {NULL}) : cell[c].ptr.owning
  /\ \A s \in Shared : shared[s] # Null => shared[s].owning
  /\ frame.way \in {"none", "copy", "shared"}
  /\ frame.way = "shared" => frame.ptr.owning
  /\ \A c \in Cell : cell[c].state # "raw"
  /\ outcome.result # "undefined"

Defined == Lifetimes /\ (Safe => Owned)

(* A pointer that owns can be used. *)
LEMMA OwningValid ==
  ASSUME Lifetimes, NEW p \in AllPointers, p.owning
  PROVE  ~Invalid(p)
  BY HabitsAssumption DEF Lifetimes, OwnersPoint, OwnedAlive, AllPointers, Invalid

(* The last result is no undefined behaviour. *)
LEMMA DoneResult ==
  ASSUME NEW op, NEW result, NEW c, Done(op, result, c), result # "undefined"
  PROVE  outcome'.result # "undefined"
  BY DEF Done

(* What the application does with copies and shares keeps them owned. *)
LEMMA ApplicationOwned ==
  ASSUME Lifetimes, Safe, Owned, Application, UNCHANGED <<passing, throwing>>
  PROVE  Owned'
  <1> USE DEF Lifetimes
  <1>1. ASSUME NEW s \in Shared, DropShared(s)
        PROVE  Owned'
    <2>1. /\ shared' = [shared EXCEPT ![s] = Null]
          /\ UNCHANGED <<cell, reached, any, frame>> /\ outcome'.result # "undefined"
      BY <1>1, DoneResult DEF DropShared
    <2> QED
      BY <2>1 DEF Owned, TypeOK
  <1>2. ASSUME NEW s \in Shared, NEW o \in Obj, MakeShared(s, o)
        PROVE  Owned'
    <2>1. /\ shared' = [shared EXCEPT ![s] = Owning(o)] /\ Owning(o).owning
          /\ UNCHANGED <<cell, reached, any, frame>> /\ outcome'.result # "undefined"
      BY <1>2, DoneResult DEF MakeShared, Owning
    <2> QED
      BY <2>1 DEF Owned, TypeOK
  <1>3. ASSUME NEW s \in Shared, UseShared(s)
        PROVE  Owned'
    <2>1. ~Invalid(shared[s]) /\ UNCHANGED <<shared, cell, reached, any, frame>>
      BY <1>3, PointerPlaces, OwningValid DEF UseShared, Owned
    <2>2. outcome'.result # "undefined"
      BY <1>3, <2>1 DEF UseShared, Done
    <2> QED
      BY <2>1, <2>2 DEF Owned
  <1>4. ASSUME NEW o \in Obj, MakeLocal(o)
        PROVE  Owned'
    BY <1>4 DEF MakeLocal, Safe
  <1>5. ASSUME NEW o \in Obj, EndLocal(o)
        PROVE  Owned'
    <2>1. UNCHANGED <<shared, cell, reached, any, frame>> /\ outcome'.result # "undefined"
      BY <1>5, DoneResult DEF EndLocal
    <2> QED
      BY <2>1 DEF Owned
  <1>6. ASSUME NEW a \in ReturnValue, DropAny(a)
        PROVE  Owned'
    <2>1. /\ any' = [any EXCEPT ![a] = NULL]
          /\ UNCHANGED <<shared, cell, reached, frame>> /\ outcome'.result # "undefined"
      BY <1>6, DoneResult DEF DropAny
    <2> QED
      BY <2>1 DEF Owned, TypeOK
  <1>7. ASSUME NEW a \in ReturnValue, UseAny(a)
        PROVE  Owned'
    <2>1. any[a] # NULL /\ any[a] \in Cell
          /\ UNCHANGED <<shared, cell, reached, any, frame>>
      BY <1>7 DEF UseAny, TypeOK
    <2>2. ~Invalid(cell[any[a]].ptr)
      BY <2>1, PointerPlaces, OwningValid DEF Owned
    <2>3. outcome'.result # "undefined"
      BY <1>7, <2>2 DEF UseAny, Done
    <2> QED
      BY <2>1, <2>3 DEF Owned
  <1>8. ASSUME NEW a \in ReturnValue, NEW c \in Cell, KeepAny(a, c)
        PROVE  Owned'
    <2>1. /\ any' = [any EXCEPT ![a] = c] /\ c \in reached
          /\ UNCHANGED <<shared, cell, reached, frame>> /\ outcome'.result # "undefined"
      BY <1>8, DoneResult DEF KeepAny
    <2> QED
      BY <2>1 DEF Owned, TypeOK
  <1>9. ASSUME NEW c \in Cell, NEW s \in Shared, PopShared(c, s)
        PROVE  Owned'
    <2>1. /\ c \in reached \cup {any[a] : a \in ReturnValue}
          /\ shared' = [shared EXCEPT ![s] = cell[c].ptr]
          /\ UNCHANGED <<cell, reached, any, frame>> /\ outcome'.result # "undefined"
      BY <1>9, DoneResult DEF PopShared
    <2>2. cell[c].ptr.owning
      BY <2>1, HabitsAssumption DEF Owned
    <2> QED
      BY <2>1, <2>2 DEF Owned, TypeOK
  <1> QED
    BY <1>1, <1>2, <1>3, <1>4, <1>5, <1>6, <1>7, <1>8, <1>9 DEF Application

(* A cell that is taken gets a wrapper, which owns if Wren gets to see it. *)
LEMMA PushOwned ==
  ASSUME Lifetimes, Owned, NEW c \in Cell, cell[c] = Free, NEW p \in Pointer,
         cell' = [cell EXCEPT ![c] = Wrapper(p)],
         reached' = reached \/ (p.owning /\ reached' = reached \cup {c}),
         UNCHANGED <<shared, any>>, frame' = frame \/ frame' = NoCall,
         outcome'.result # "undefined"
  PROVE  Owned'
  <1>1. c \notin reached \cup ({any[a] : a \in ReturnValue} \ {NULL})
    BY DEF Lifetimes, TypeOK, Free
  <1>2. Wrapper(p).ptr = p /\ Wrapper(p).state = "built"
    BY DEF Wrapper
  <1>3. cell'[c] = Wrapper(p) /\ \A d \in Cell \ {c} : cell'[d] = cell[d]
    BY DEF Lifetimes, TypeOK
  <1>4. reached \cup ({any[a] : a \in ReturnValue} \ {NULL}) \subseteq Cell
    BY DEF Lifetimes, TypeOK
  <1>5. \A d \in reached' \cup ({any'[a] : a \in ReturnValue} \ {NULL}) : cell'[d].ptr.owning
    BY <1>1, <1>2, <1>3, <1>4 DEF Owned
  <1> QED
    BY <1>2, <1>3, <1>5 DEF Owned, NoCall

(* So does every way of passing such an application has. *)
LEMMA PassOwned ==
  ASSUME Lifetimes, Safe, Owned, Pass, UNCHANGED <<passing, throwing>>
  PROVE  Owned'
  <1>1. ASSUME NEW c \in Cell, NEW o \in Obj, Allocate(c, o)
        PROVE  Owned'
    <2>1. Owning(o) \in Pointer /\ Owning(o).owning /\ Null \in Pointer
      BY PointerTypes DEF Owning
    <2>2. /\ cell[c] = Free /\ UNCHANGED <<shared, any, frame>>
          /\ outcome'.result # "undefined"
          /\ \/ cell' = [cell EXCEPT ![c] = Wrapper(Owning(o))] /\ reached' = reached \cup {c}
             \/ cell' = [cell EXCEPT ![c] = Wrapper(Null)] /\ reached' = reached
      BY <1>1, DoneResult DEF Allocate
    <2> QED
      BY <2>1, <2>2, PushOwned
  <1>2. ASSUME NEW c \in Cell, NEW o \in Obj, PassPointer(c, o)
        PROVE  Owned'
    BY <1>2 DEF PassPointer, Safe
  <1>3. ASSUME NEW c \in Cell, NEW s \in Shared, PassShared(c, s)
        PROVE  Owned'
    <2>1. shared[s] \in Pointer /\ shared[s].owning
      BY <1>3 DEF PassShared, Safe, Owned, Lifetimes, TypeOK
    <2>2. /\ cell[c] = Free /\ cell' = [cell EXCEPT ![c] = Wrapper(shared[s])]
          /\ reached' = reached \cup {c} /\ UNCHANGED <<shared, any, frame>>
          /\ outcome'.result # "undefined"
      BY <1>3, DoneResult DEF PassShared, PushPointer
    <2> QED
      BY <2>1, <2>2, PushOwned
  <1>4. ASSUME NEW c \in Cell, NEW o \in Obj, NEW p, PassCopy(c, p, o)
        PROVE  Owned'
    <2>1. Owning(o) \in Pointer /\ Owning(o).owning
      BY PointerTypes DEF Owning
    <2>2. /\ cell[c] = Free /\ cell' = [cell EXCEPT ![c] = Wrapper(Owning(o))]
          /\ reached' = reached \cup {c} /\ UNCHANGED <<shared, any, frame>>
          /\ outcome'.result # "undefined"
      BY <1>4, DoneResult DEF PassCopy, PushCopy, Safe
    <2> QED
      BY <2>1, <2>2, PushOwned
  <1> QED
    BY <1>1, <1>2, <1>3, <1>4 DEF Pass

(* So does a method called on an object that is owned. *)
LEMMA MethodOwned ==
  ASSUME Lifetimes, Safe, Owned, Method, UNCHANGED <<passing, throwing>>
  PROVE  Owned'
  <1> USE DEF Lifetimes
  <1>1. ASSUME NEW c \in Cell, Invoke(c)
        PROVE  Owned'
    <2>1. ~Invalid(cell[c].ptr)
      BY <1>1, PointerPlaces, OwningValid DEF Invoke, Owned
    <2>2. /\ frame' = [NoCall EXCEPT !.self = c] /\ UNCHANGED <<shared, cell, reached, any>>
          /\ outcome'.result # "undefined"
      BY <1>1, <2>1, DoneResult DEF Invoke
    <2>3. frame'.way = "none"
      BY <2>2 DEF NoCall
    <2> QED
      BY <2>2, <2>3 DEF Owned
  <1>2. CASE Return
    <2>1. frame' = NoCall /\ UNCHANGED <<shared, cell, reached, any>>
          /\ outcome'.result # "undefined"
      BY <1>2, DoneResult DEF Return
    <2> QED
      BY <2>1 DEF Owned, NoCall
  <1>3. ASSUME NEW way \in {"copy", "shared"}, NEW p, way = "shared" => p.owning,
               Returning(way, p)
        PROVE  Owned'
    <2>1. frame'.way = way /\ frame'.ptr = p /\ UNCHANGED <<shared, cell, reached, any>>
          /\ outcome'.result # "undefined"
      BY <1>3, DoneResult DEF Returning
    <2> QED
      BY <1>3, <2>1 DEF Owned
  <1>4. CASE ReturnCopy
    BY <1>3, <1>4 DEF ReturnCopy
  <1>5. ASSUME NEW s \in Shared, ReturnShared(s)
        PROVE  Owned'
    BY <1>3, <1>5 DEF ReturnShared, Owned
  <1>6. CASE ReturnReference
    BY <1>6 DEF ReturnReference, Safe
  <1>7. ASSUME NEW c \in Cell, NEW o \in Obj, FinishReturn(c, o)
        PROVE  Owned'
    <2>1. /\ cell[c] = Free /\ frame.way # "none" /\ frame' = NoCall
          /\ UNCHANGED <<shared, any>>
      BY <1>7 DEF FinishReturn
    <2>2. CASE frame.way = "copy"
      <3>1. Owning(o) \in Pointer /\ Owning(o).owning
        BY PointerTypes DEF Owning
      <3>2. /\ cell' = [cell EXCEPT ![c] = Wrapper(Owning(o))] /\ reached' = reached \cup {c}
            /\ outcome'.result # "undefined"
        BY <1>7, <2>2, DoneResult DEF FinishReturn, PushCopy, Safe
      <3> QED
        BY <2>1, <3>1, <3>2, PushOwned
    <2>3. CASE frame.way = "shared"
      <3>1. frame.ptr \in Pointer /\ frame.ptr.owning
        BY <2>3 DEF Owned, TypeOK
      <3>2. /\ cell' = [cell EXCEPT ![c] = Wrapper(frame.ptr)] /\ reached' = reached \cup {c}
            /\ outcome'.result # "undefined"
        BY <1>7, <2>3, DoneResult DEF FinishReturn, PushPointer
      <3> QED
        BY <2>1, <3>1, <3>2, PushOwned
    <2> QED
      BY <2>1, <2>2, <2>3 DEF Owned
  <1> QED
    BY <1>1, <1>2, <1>4, <1>5, <1>6, <1>7 DEF Method

(* The collector and the end of the VM find wrappers in all cells.         *)
LEMMA FinalizeOwned ==
  ASSUME Lifetimes, Owned, NEW D \in SUBSET Cell, Finalize(D),
         reached' \subseteq reached,
         {any'[a] : a \in ReturnValue} \ {NULL} \subseteq {any[a] : a \in ReturnValue},
         D \cap (reached' \cup {any'[a] : a \in ReturnValue}) = {},
         UNCHANGED <<shared, frame>>
  PROVE  Owned'
  <1> DEFINE held == {any[a] : a \in ReturnValue}
             kept == {any'[a] : a \in ReturnValue}
  <1>1. cell' = [c \in Cell |-> IF c \in D THEN Free ELSE cell[c]]
    BY DEF Finalize
  <1>2. outcome'.result # "undefined"
    BY DEF Finalize, Done, Owned, Raw
  <1>3. \A c \in reached \cup (held \ {NULL}) : c \in Cell /\ cell[c].ptr.owning
    BY DEF Lifetimes, TypeOK, Owned
  <1>4. kept \ {NULL} \subseteq held /\ D \cap (reached' \cup kept) = {}
    OBVIOUS
  <1>5. \A c \in Cell : cell'[c].state # "raw"
    BY <1>1 DEF Owned, Free
  <1> HIDE DEF held
  <1>6. \A c \in reached' \cup (kept \ {NULL}) : c \in Cell /\ c \notin D /\ cell[c].ptr.owning
    BY <1>3, <1>4
  <1>7. \A c \in reached' \cup (kept \ {NULL}) : cell'[c].ptr.owning
    BY <1>1, <1>6
  <1> QED
    BY <1>2, <1>5, <1>7 DEF Owned

(* Collection takes the cells that nothing refers to. *)
LEMMA WrenOwned ==
  ASSUME Lifetimes, Owned, Wren, UNCHANGED <<passing, throwing>>
  PROVE  Owned'
  <1>1. CASE Collect
    <2> DEFINE garbage == {c \in Cell : cell[c] # Free /\ c # frame.self}
                            \ (reached \cup {any[a] : a \in ReturnValue})
    <2>1. Finalize(garbage) /\ UNCHANGED <<shared, reached, any, frame>>
      BY <1>1 DEF Collect
    <2>2. garbage \in SUBSET Cell
          /\ garbage \cap (reached' \cup {any'[a] : a \in ReturnValue}) = {}
      BY <2>1
    <2> HIDE DEF garbage
    <2> QED
      BY <2>1, <2>2, FinalizeOwned
  <1>2. CASE FreeVM
    <2> DEFINE D == {c \in Cell : cell[c] # Free}
    <2>1. /\ Finalize(D) /\ reached' = {} /\ any' = [a \in ReturnValue |-> NULL]
          /\ UNCHANGED <<shared, frame>>
      BY <1>2 DEF FreeVM
    <2>2. D \in SUBSET Cell /\ {any'[a] : a \in ReturnValue} \subseteq {NULL} /\ NULL \notin Cell
      BY <2>1, HabitsAssumption
    <2>3. /\ {any'[a] : a \in ReturnValue} \ {NULL} \subseteq {any[a] : a \in ReturnValue}
          /\ D \cap (reached' \cup {any'[a] : a \in ReturnValue}) = {}
      BY <2>1, <2>2
    <2> HIDE DEF D
    <2> QED
      BY <2>1, <2>2, <2>3, FinalizeOwned
  <1>3. ASSUME NEW c \in Cell, Unreach(c)
        PROVE  Owned'
    <2>1. /\ UNCHANGED <<shared, cell, any, frame>> /\ reached' = reached \ {c}
          /\ outcome'.result # "undefined"
      BY <1>3, DoneResult DEF Unreach
    <2> QED
      BY <2>1 DEF Owned
  <1> QED
    BY <1>1, <1>2, <1>3 DEF Wren

(* An application that passes copies and shared pointers, and whose copies *)
(* do not throw, meets no object that is gone and no cell without wrapper. *)
THEOREM NothingIsUndefined == Spec => []NothingUndefined
  <1>1. Init => Defined
    <2>1. Init => Owned
      BY DEF Init, Owned, Free, NoCall, Null
    <2> QED
      BY <2>1, InitLifetimes DEF Defined
  <1>2. Defined /\ [Next]_vars => Defined'
    <2> SUFFICES ASSUME Defined, [Next]_vars
                 PROVE  Defined'
      OBVIOUS
    <2>1. Lifetimes'
      BY NextLifetimes DEF Defined
    <2>2. ASSUME Safe', Next
          PROVE  Owned'
      <3>1. UNCHANGED <<passing, throwing>> /\ Safe
        BY <2>2 DEF Next, Safe
      <3> QED
        BY <2>2, <3>1, ApplicationOwned, PassOwned, MethodOwned, WrenOwned DEF Next, Defined
    <2>3. CASE UNCHANGED vars
      BY <2>1, <2>3 DEF vars, Defined, Safe, Owned
    <2> QED
      BY <2>1, <2>2, <2>3 DEF Defined
  <1>3. Defined => NothingUndefined
    BY DEF Defined, Safe, Owned, NothingUndefined
  <1> QED
    BY <1>1, <1>2, <1>3, PTL DEF Spec
=============================================================================
