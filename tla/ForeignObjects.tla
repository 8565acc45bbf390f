--------------------------- MODULE ForeignObjects ---------------------------
(***************************************************************************)
(* Lifetime of the C++ objects that cross into Wren (push.hpp, pop.hpp,    *)
(* allocator.hpp, object.hpp, caller.hpp).                                 *)
(*                                                                         *)
(* A foreign object of Wren is a cell of its heap that holds a             *)
(* ForeignObject<T>, a wrapper of one std::shared_ptr<T>.  The pointer     *)
(* owns the C++ object, or, made from a raw pointer or reference, has an   *)
(* empty deleter and owns nothing.  Types are the subject of Bindings.     *)
(***************************************************************************)
EXTENDS Naturals

CONSTANTS
  Obj,       \* C++ objects; a reference to a part of one counts as to it
  Cell,      \* cells of Wren's heap for foreign objects
  Shared,    \* the application's variables of type std::shared_ptr<T>
  ReturnValue, \* the application's Any objects
  Habits,    \* pairs of passing and throwing, see below
  NULL       \* null pointer

Ways == {"copy", "shared", "null", "pointer", "reference", "const reference"}

ASSUME HabitsAssumption ==
  /\ Habits \subseteq (SUBSET Ways) \X (SUBSET {"constructor", "copy"})
  /\ NULL \notin Obj \cup Cell

VARIABLES
  passing,   \* the ways in which the application passes objects
  throwing,  \* which of its "constructor" and "copy" may throw
  life,      \* of each C++ object
  local,     \* the objects the application owns other than by shared_ptr
  shared,    \* what each shared_ptr of the application points to
  cell,      \* what is in each cell
  reached,   \* the cells that Wren variables refer to
  any,       \* the cell each Any keeps a handle of
  frame,     \* the foreign method that runs: its receiver, its result
  alive,     \* whether the VM lives
  outcome    \* how the last operation ended

vars == <<passing, throwing, life, local, shared, cell, reached, any, frame, alive, outcome>>

Pointer == [obj : Obj \cup {NULL}, owning : BOOLEAN]
Null == [obj |-> NULL, owning |-> FALSE]
Owning(o) == [obj |-> o, owning |-> TRUE]
Borrowed(o) == [obj |-> o, owning |-> FALSE]  \* shared_ptr<T>(p, [](T*) {})

Free == [state |-> "free", ptr |-> Null]
Raw == [state |-> "raw", ptr |-> Null]         \* memory without a wrapper
Wrapper(p) == [state |-> "built", ptr |-> p]   \* ForeignObject<T>(p)

(* A frame's self roots the receiver until slot 0 is used for the result;  *)
(* way and ptr are those of a result on its way into a new cell.           *)
NoCall == [self |-> NULL, way |-> "none", ptr |-> Null]

TypeOK ==
  /\ <<passing, throwing>> \in Habits
  /\ life \in [Obj -> {"unborn", "alive", "dead"}]
  /\ local \subseteq Obj
  /\ shared \in [Shared -> Pointer]
  /\ cell \in [Cell -> [state : {"free", "raw", "built"}, ptr : Pointer]]
  /\ reached \subseteq Cell
  /\ any \in [ReturnValue -> Cell \cup {NULL}]
  /\ \A c \in reached \cup ({any[a] : a \in ReturnValue} \ {NULL}) : cell[c].state = "built"
  /\ frame \in [self : Cell \cup {NULL}, way : Ways \cup {"none"}, ptr : Pointer]
  /\ alive \in BOOLEAN

Init ==
  /\ \E h \in Habits : passing = h[1] /\ throwing = h[2]
  /\ life = [o \in Obj |-> "unborn"]
  /\ local = {}
  /\ shared = [s \in Shared |-> Null]
  /\ cell = [c \in Cell |-> Free]
  /\ reached = {}
  /\ any = [a \in ReturnValue |-> NULL]
  /\ frame = NoCall
  /\ alive = TRUE
  /\ outcome = [op |-> "none", result |-> "ok", cell |-> NULL]

Running == outcome.result # "undefined"
Done(op, result, c) == outcome' = [op |-> op, result |-> result, cell |-> c]

(* A pointer that nothing may be done with. *)
Invalid(p) == p.obj = NULL \/ life[p.obj] # "alive"

Pointers(sh, ce, fr) ==
  {sh[s] : s \in Shared} \cup {ce[c].ptr : c \in Cell} \cup {fr.ptr}

(* Objects come to life in B, and those whose last owner went die. *)
Settle(B) ==
  LET owned == {o \in Obj : Owning(o) \in Pointers(shared', cell', frame')} \cup local'
  IN life' = [o \in Obj |-> IF o \in B THEN "alive"
                            ELSE IF life[o] = "alive" /\ o \notin owned THEN "dead"
                            ELSE life[o]]
----------------------------------------------------------------------------
(* The application. *)

(* std::make_shared<T>() *)
MakeShared(s, o) ==
  /\ Running
  /\ shared[s] = Null /\ life[o] = "unborn"
  /\ shared' = [shared EXCEPT ![s] = Owning(o)]
  /\ UNCHANGED <<local, cell, reached, any, frame, alive>>
  /\ Settle({o}) /\ Done("make", "ok", NULL)

DropShared(s) ==
  /\ Running
  /\ shared[s] # Null
  /\ shared' = [shared EXCEPT ![s] = Null]
  /\ UNCHANGED <<local, cell, reached, any, frame, alive>>
  /\ Settle({}) /\ Done("drop", "ok", NULL)

(* An object in the application's own storage, where it uses any. *)
MakeLocal(o) ==
  /\ Running
  /\ "pointer" \in passing
  /\ life[o] = "unborn"
  /\ local' = local \cup {o}
  /\ UNCHANGED <<shared, cell, reached, any, frame, alive>>
  /\ Settle({o}) /\ Done("make", "ok", NULL)

EndLocal(o) ==
  /\ Running
  /\ o \in local
  /\ local' = local \ {o}
  /\ life' = [life EXCEPT ![o] = "dead"]
  /\ UNCHANGED <<shared, cell, reached, any, frame, alive>>
  /\ Done("end", "ok", NULL)
----------------------------------------------------------------------------
(* Objects into Wren. *)

(* Foo.new() in Wren: ForeignKlassAllocator::allocate.  When the           *)
(* constructor throws the wrapper stays, around a null pointer, and the    *)
(* fiber that would have received it is aborted.                           *)
Allocate(c, o) ==
  /\ Running /\ alive
  /\ cell[c] = Free /\ life[o] = "unborn"
  /\ UNCHANGED <<local, shared, any, frame, alive>>
  /\ \/ /\ cell' = [cell EXCEPT ![c] = Wrapper(Owning(o))]
        /\ reached' = reached \cup {c}
        /\ Settle({o}) /\ Done("construct", "ok", c)
     \/ /\ "constructor" \in throwing
        /\ cell' = [cell EXCEPT ![c] = Wrapper(Null)]
        /\ Done("construct", "aborted", NULL)
        /\ UNCHANGED <<life, reached>>

(* pushAsConstRef and pushAsMove: memory is taken first, then the object   *)
(* is copied into a shared_ptr of its own.  A copy constructor that throws *)
(* leaves memory without a wrapper to Wren's garbage collector.            *)
PushCopy(c, o) ==
  \/ /\ cell' = [cell EXCEPT ![c] = Wrapper(Owning(o))]
     /\ reached' = reached \cup {c}
     /\ Settle({o}) /\ Done("copy", "ok", c)
  \/ /\ "copy" \in throwing
     /\ cell' = [cell EXCEPT ![c] = Raw]
     /\ Settle({}) /\ Done("copy", "aborted", NULL)
     /\ UNCHANGED reached

(* Mutant: the shared_ptr is pushed as the pointer it holds. *)
PushBorrowed(c, p, way) ==
  /\ cell' = [cell EXCEPT ![c] = Wrapper(Borrowed(p.obj))]
  /\ reached' = reached \cup {c}
  /\ Settle({}) /\ Done(way, "ok", c)

(* PushHelper<std::shared_ptr<T>> and pushAsPtr: a wrapper of the pointer. *)
PushPointer(c, p, way) ==
  /\ cell' = [cell EXCEPT ![c] = Wrapper(p)]
  /\ reached' = reached \cup {c}
  /\ Settle({}) /\ Done(way, "ok", c)

(* An argument of a call into Wren. *)
PassCopy(c, p, o) ==
  /\ Running /\ alive
  /\ "copy" \in passing
  /\ cell[c] = Free /\ ~Invalid(p) /\ life[o] = "unborn"
  /\ UNCHANGED <<local, shared, any, frame, alive>>
  /\ PushCopy(c, o)

PassShared(c, s) ==
  /\ Running /\ alive
  /\ cell[c] = Free
  /\ shared[s] = Null => "null" \in passing
  /\ UNCHANGED <<local, shared, any, frame, alive>>
  /\ PushPointer(c, shared[s], IF shared[s] = Null THEN "null" ELSE "shared")

(* Mutant: the shared_ptr made of a raw pointer deletes it. *)
PassOwning(c, o) ==
  /\ Running /\ alive
  /\ "pointer" \in passing
  /\ cell[c] = Free /\ life[o] = "alive"
  /\ UNCHANGED <<local, shared, any, frame, alive>>
  /\ PushPointer(c, Owning(o), "pointer")

PassPointer(c, o) ==
  /\ Running /\ alive
  /\ "pointer" \in passing
  /\ cell[c] = Free /\ life[o] = "alive"
  /\ UNCHANGED <<local, shared, any, frame, alive>>
  /\ PushPointer(c, Borrowed(o), "pointer")
----------------------------------------------------------------------------
(* A foreign method called by Wren (ForeignMethodCaller). *)

(* self is popped from slot 0 as a raw pointer; a method on a null or dead *)
(* object is undefined behaviour.                                          *)
Invoke(c) ==
  /\ Running /\ alive
  /\ frame = NoCall
  /\ c \in reached
  /\ IF Invalid(cell[c].ptr)
     THEN Done("call", "undefined", c) /\ UNCHANGED frame
     ELSE frame' = [NoCall EXCEPT !.self = c] /\ Done("call", "ok", c)
  /\ UNCHANGED <<life, local, shared, cell, reached, any, alive>>

InCall == Running /\ frame.self # NULL

(* The method returns nothing or a value that is no object, or throws and  *)
(* aborts the fiber.                                                       *)
Return ==
  /\ InCall
  /\ frame' = NoCall
  /\ \E result \in {"ok", "aborted"} : Done("return", result, NULL)
  /\ UNCHANGED <<life, local, shared, cell, reached, any, alive>>

(* The method returns an object.  wrenGetVariable puts the class of the    *)
(* result in slot 0, over the receiver, before memory is taken.            *)
Returning(way, p) ==
  /\ InCall
  /\ frame' = [self |-> NULL, way |-> way, ptr |-> p]
  /\ UNCHANGED <<local, shared, cell, reached, any, alive>>
  /\ Settle({}) /\ Done("return", "ok", NULL)

(* By value; a shared_ptr; a pointer or reference to self or a part of it. *)
ReturnCopy == "copy" \in passing /\ Returning("copy", Null)
ReturnShared(s) == shared[s] # Null /\ Returning("shared", shared[s])
ReturnReference ==
  \E way \in {"pointer", "reference", "const reference"} \cap passing :
    Returning(way, Borrowed(cell[frame.self].ptr.obj))

(* The result goes into a cell. *)
FinishReturn(c, o) ==
  /\ Running
  /\ frame.way # "none" /\ cell[c] = Free
  /\ frame' = NoCall
  /\ UNCHANGED <<local, shared, any, alive>>
  /\ IF frame.way = "copy" THEN life[o] = "unborn" /\ PushCopy(c, o)
     ELSE PushPointer(c, frame.ptr, frame.way)
----------------------------------------------------------------------------
(* Objects out of Wren. *)

(* A foreign method's parameter, or Any::shared<T>(): the same pointer. *)
PopShared(c, s) ==
  /\ Running /\ alive
  /\ c \in reached \cup {any[a] : a \in ReturnValue} /\ shared[s] = Null
  /\ shared' = [shared EXCEPT ![s] = cell[c].ptr]
  /\ UNCHANGED <<local, cell, reached, any, frame, alive>>
  /\ Settle({}) /\ Done("pop", "ok", c)

(* A Wren method returns an object, which is kept as an Any. *)
KeepAny(a, c) ==
  /\ Running /\ alive
  /\ any[a] = NULL /\ c \in reached
  /\ any' = [any EXCEPT ![a] = c]
  /\ Done("keep", "ok", c)
  /\ UNCHANGED <<life, local, shared, cell, reached, frame, alive>>

DropAny(a) ==
  /\ Running
  /\ any[a] # NULL
  /\ any' = [any EXCEPT ![a] = NULL]
  /\ Done("drop", "ok", NULL)
  /\ UNCHANGED <<life, local, shared, cell, reached, frame, alive>>

(* Any::as<T*>() or as<T&>(), and a use of the object. *)
UseAny(a) ==
  /\ Running
  /\ any[a] # NULL
  /\ Done("use", IF Invalid(cell[any[a]].ptr) THEN "undefined" ELSE "ok", any[a])
  /\ UNCHANGED <<life, local, shared, cell, reached, any, frame, alive>>

(* A use of a shared_ptr the application holds. *)
UseShared(s) ==
  /\ Running
  /\ shared[s] # Null
  /\ Done("use", IF Invalid(shared[s]) THEN "undefined" ELSE "ok", NULL)
  /\ UNCHANGED <<life, local, shared, cell, reached, any, frame, alive>>
----------------------------------------------------------------------------
(* Wren. *)

(* The last Wren variable that refers to an object goes. *)
Unreach(c) ==
  /\ Running
  /\ c \in reached
  /\ reached' = reached \ {c}
  /\ Done("unreach", "ok", NULL)
  /\ UNCHANGED <<life, local, shared, cell, any, frame, alive>>

(* ForeignKlassAllocator::finalize on the cells of D: each must hold a     *)
(* wrapper.                                                                *)
Finalize(D) ==
  /\ cell' = [c \in Cell |-> IF c \in D THEN Free ELSE cell[c]]
  /\ Done("finalize", IF \E c \in D : cell[c] = Raw THEN "undefined" ELSE "ok", NULL)

(* wrenCollectGarbage, at any allocation. *)
Collect ==
  LET garbage == {c \in Cell : cell[c] # Free /\ c # frame.self}
                   \ (reached \cup {any[a] : a \in ReturnValue})
  IN /\ Running /\ alive
     /\ garbage # {}
     /\ Finalize(garbage)
     /\ UNCHANGED <<local, shared, reached, any, frame, alive>>
     /\ Settle({})

(* Mutant: handles outlive the VM. *)
FreeVMKeepsHandles ==
  /\ Running /\ alive
  /\ frame = NoCall
  /\ alive' = FALSE
  /\ reached' = {}
  /\ Finalize({c \in Cell : cell[c] # Free})
  /\ UNCHANGED <<local, shared, any, frame>>
  /\ Settle({})

(* wrenFreeVM: handles expire with the VM. *)
FreeVM ==
  /\ Running /\ alive
  /\ frame = NoCall
  /\ alive' = FALSE
  /\ reached' = {}
  /\ any' = [a \in ReturnValue |-> NULL]
  /\ Finalize({c \in Cell : cell[c] # Free})
  /\ UNCHANGED <<local, shared, frame>>
  /\ Settle({})

Application ==
  \/ \E s \in Shared : DropShared(s) \/ UseShared(s) \/ \E o \in Obj : MakeShared(s, o)
  \/ \E o \in Obj : MakeLocal(o) \/ EndLocal(o)
  \/ \E a \in ReturnValue : DropAny(a) \/ UseAny(a) \/ \E c \in Cell : KeepAny(a, c)
  \/ \E c \in Cell, s \in Shared : PopShared(c, s)

Pass ==
  \E c \in Cell :
    \/ \E o \in Obj : Allocate(c, o) \/ PassPointer(c, o)
    \/ \E s \in Shared : PassShared(c, s)
    \/ \E o \in Obj, p \in {shared[s] : s \in Shared} \cup {Borrowed(l) : l \in local} :
         PassCopy(c, p, o)

Method ==
  \/ \E c \in Cell : Invoke(c)
  \/ Return \/ ReturnCopy \/ ReturnReference
  \/ \E s \in Shared : ReturnShared(s)
  \/ \E c \in Cell, o \in Obj : FinishReturn(c, o)

Wren == Collect \/ FreeVM \/ \E c \in Cell : Unreach(c)

Next == (Application \/ Pass \/ Method \/ Wren) /\ UNCHANGED <<passing, throwing>>

Spec == Init /\ [][Next]_vars
----------------------------------------------------------------------------
(* An owning pointer in a cell, in the application or in a return keeps    *)
(* its object alive, whatever raw pointers are passed beside it            *)
(* (push.hpp:75: a raw pointer is wrapped with an empty deleter).          *)
OwnedAlive ==
  \A p \in Pointers(shared, cell, frame) : p.owning => life[p.obj] = "alive"

(* An application that passes copies and shared pointers, and whose copies *)
(* do not throw, never uses an object that is gone, nor a wrapper that is  *)
(* not there, wherever the garbage collector runs and whichever of Wren    *)
(* and C++ lets go last.                                                   *)
NothingUndefined ==
  passing \subseteq {"copy", "shared"} /\ "copy" \notin throwing
    => outcome.result # "undefined"

(* call_wren.md:246: the Any extends the lifetime of the object. *)
AnyExtendsLifetime ==
  \A a \in ReturnValue : any[a] # NULL => ~Invalid(cell[any[a]].ptr)
=============================================================================
