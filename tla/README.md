# Verification of wrenbind17

TLA+ models, TLC checks and TLAPS proofs for wrenbind17, a header-only C++17
library that binds C++ classes to the Wren scripting language and lets C++ call
Wren code. The code is in `src/include/wrenbind17`, its docs in
`src/docs/content/Tutorial`, its tests in `src/tests`. Wren itself is not part
of the repository; it is modelled from the calls wrenbind17 makes, and such
definitions are marked external in `PROJECT.json`.

## The system

| part | state | operations |
| --- | --- | --- |
| VM object (`vm.hpp`) | one `Data`: the `WrenVM`, modules, types, casts, error texts | create, move, destroy, run, find, module, gc; the callbacks Wren makes |
| Handle (`handle.hpp`) | weak pointer to the VM, one `WrenHandle` | construct, move, reset |
| Variable, Map, Method (`variable.hpp`, `map.hpp`, `method.hpp`) | one or two shared Handles | copy, reset, func, call, queries |
| Any / ReturnValue (`any.hpp`) | a type and an embedded Handle | move, is, as, shared |
| Modules and classes (`module.hpp`, `foreign.hpp`) | classes by name, members by signature | klass, ctor, func..., prop..., generate, find |
| Foreign objects (`object.hpp`, `allocator.hpp`, `push.hpp`, `pop.hpp`, `caller.hpp`) | a wrapped `shared_ptr` in a cell of Wren's heap | allocate, push, pop, call, finalise |
| Container bindings (`std.hpp`) | a C++ container and the iterators Wren code holds | iterate, iteratorValue, insert, removeAt, subscript, ... |
| Native containers (`stdvector.hpp`, ...) | slots of a Wren call | convert lists, maps, variants, optionals |

How the parts interact: C++ calls Wren through `Method`, Wren calls C++ through
`ForeignMethodCaller`, and the two nest. Objects go both ways as foreign
objects, and results come back as Any. Wren's garbage collector runs at any
allocation, frees what no handle, slot or variable keeps, and calls the
finalisers of the class an object is in. Registration fills tables that an
import reads once.

What is hard: holders may outlive their VM, be copied and swapped between VMs,
and be changed by a callback while they are in use; garbage is collected between
any two calls into Wren; C++ objects are owned from both sides; loops over a
bound container interleave with changes of it; registration, import and use may
come in any order; constructors and methods throw. The library starts no
threads, persists nothing and sends no messages, so there is no crash recovery
and no delivery to model.

## Modules

| module | models | state and actions |
| --- | --- | --- |
| `Holders` | `handle.hpp`, `variable.hpp`, `method.hpp`, `map.hpp`, `any.hpp`, VM lifetime | one action per operation that copies, makes, resets or uses a holder, and for VM creation, move and end, Wren's allocation and collection, and the start and end of a call |
| `Retention` | what holders promise: plain references that keep their objects | abstract specification |
| `HoldersRefinement` | that `Holders` implements `Retention` | the refinement mapping |
| `HoldersProofs` | theorems on `Holders` | |
| `RefinementProofs` | that the refinement holds | |
| `Traversal` | what loops promise: what stays is visited, once and in order | abstract specification |
| `ContainerLoops` | the iterator protocol of `std.hpp` | begin, advance, value, use of an invalid iterator; the refinement mapping to `Traversal` |
| `BoundSequence` | `StdVectorBindings`, `StdListBindings` | `EXTENDS ContainerLoops`; the operations of Wren code |
| `BoundMap` | `AbstractMapBindings` on `std::map` | `EXTENDS ContainerLoops` |
| `BoundSequenceProofs`, `BoundMapProofs` | theorems on these two and their loops | |
| `Signatures` | declarations, keys and lookup of members (`foreign.hpp`) | operators only |
| `Bindings` | registry, classes, import, push and pop as far as types go | `EXTENDS Signatures`; registration, import, construct, push, pop, call |
| `BindingsProofs` | lemmas on `Signatures`, theorems on `Bindings` | |
| `ForeignObjects` | lifetime of C++ objects in Wren | the application, pushes, a method call in steps, pops, collection and the end of the VM |
| `ForeignObjectsProofs` | theorems on `ForeignObjects` | |
| `Slots` | the slots of a call: `push.hpp`, `pop.hpp`, `caller.hpp`, `method.hpp`, `any.hpp`, `std*.hpp` of native containers | a call into Wren, argument by argument, its result and conversions of it; a call of a foreign method, arguments popped in any order, its return |
| `SlotsProofs` | theorems on `Slots` | |
| `Scripts` | running, importing and failing code, `lastError` and `nextError` (`vm.hpp`, `method.hpp`, `object.hpp`) | the run functions, `module`, calls; of scripts: imports, fibers that are tried, failures |
| `ScriptsProofs` | theorems on `Scripts` | |
| `MC...` | constants and symmetry for TLC | |

Correspondence. In `Holders` a Handle object is a record of a weak pointer and a
`WrenHandle`; the handle list of the VM is `wh`; a `shared_ptr` count is the
number of pointers with one target, and `Settle` destroys a Handle that the
change of a pointer left without any. A nested call is an element of `calls`:
between `BeginCall` and its end every other action may happen, as foreign
methods may do anything. `outcome` records how the last use ended, exceptions
included. Expiry of the weak pointers is `vmState`.

In `ContainerLoops` elements are identities, since values do not matter to
iterators: in a node-based container an iterator denotes an element, in a
vector an offset into a buffer, and growth of a full vector invalidates all of
them. A vector whose elements moved down leaves an iterator beyond the end, and
the use of one is undefined behaviour, which ends a run.

`Traversal` knows no iterators: a loop has elements it must still visit (`due`)
and those it has visited. The mapping takes the first from what was there when
the loop began and stayed, and the second from what `iteratorValue` returned; an
`iterate` that finds another element shows no change. A loop over a vector that
was changed is shown as `lost`, and nothing is promised to it.

In `Signatures` a signature is the sequence of its symbols and its parameter
list; the Wren compiler drops the names of parameters, and refuses a class that
declares a signature twice. The name of a method is such a sequence too, so
`func("x=")` is seen by `findSignature` as the code sees it. In `Bindings` a table is
a function that `Extend` extends the way `unordered_map::insert` does, keeping
what is there: after a second `klass()` of a name or a type, objects of one type
may be in two classes, or in one with the finaliser of another type. Objects are
pairs of a Wren class and a C++ type. `Application` is a set of applications, of which a behaviour has one: what it binds and what
it takes care of (names given once, classes complete before their import and
pushed after it, members of listed bases only). One that takes care of nothing
does everything in any order. A run ends with an import that aborts the process
or that Wren refuses.

In `ForeignObjects` a cell of Wren's heap is free, raw memory, or holds a
wrapper; a pointer owns its object or is borrowed. A method that returns an
object does so in two steps: the class of the result is put into slot 0, over
the receiver, and then memory is allocated; `Collect` may come between. An
object lives as long as an owning pointer or the application's own storage
keeps it (`Settle`). `passing` and `throwing` are the habits of the application,
fixed for a behaviour.

In `Slots` a slot holds a number, a text, an object, null, a list, a map or a
container in an object of a bound class; a C++ value is tagged by its type. A
call is a step per argument, since containers use the slots after their own, in
which other arguments may be. Arguments of a call into Wren are pushed from left
to right (`pushArgs`); those of a foreign method are evaluated as arguments of a
C++ call, hence in any order (`PopArgument(i)`). `getSlot<Any>` takes the type
of slot 0 and the value of its own slot, as the code does. `ensured` is how many
slots `wrenEnsureSlots` was asked for. A conversion that goes beyond them has
two outcomes, as what Wren does then is up to its build and to the room on its
stack: it works like any other, or the run ends there (`PushPast`, `PopPast`,
`ReturnPast`, `AsPast`). A result may be kept in an Any after its call, and be
asked for in a foreign method that Wren calls later, when the receiver and
arguments of that call are in the slots (`InHand`).

In `Scripts` an id is what `pathResolveFn` makes of a name: a path and the name,
or the bare name. `stack` is the run in progress: `Abort` unwinds it to the
innermost fiber that is tried or, if there is none, reports to `errorFn`,
empties the stack and throws. Errors are numbered, and a report is the number
of its error, its kind and the text of `nextError` that it used, so what
`lastError` holds and what was thrown can be compared with what happened. A
module that does not compile is reported first and then fails the import. What
scripts do is free, files may come and go at any time, and the C++ exceptions that
nothing catches end a behaviour (`Escape`).

## Runs

All bounds are the sets in the cfg files. Deadlock is not checked: a run ends
where the code has undefined behaviour, such as a null dereference, an invalid
iterator, a slot that was not ensured or an abort.

| run | shows | bounds |
| --- | --- | --- |
| `Holders` | WrenHandles have one owner, are released once and to their live VM; held objects exist; a freed VM is not touched; all of it implements `Retention` | 2 VMs and VM objects, 3 Handles, 2 Anys, 2 Variables, 2 Methods, 3 WrenHandles, 2 objects, 1 call |
| `BoundVector` | undisturbed loops are exact and defined; indexes mean what the docs say | 3 elements, 2 loops, indexes -3 to 3 |
| `BoundList`, `BoundMap` | changed under way, a loop that ends saw all that stayed, once and in order; loops end and implement `Traversal`; undisturbed loops over a map are exact, and defined unless it is empty | 3 elements or keys, 2 loops, indexes -2 to 2 |
| `EmptyMap` | a loop over an empty map is not defined (below) | 2 keys, 1 loop |
| `Bindings` | finalisers and receivers fit the objects of a class, all objects of a type are of one class, and every declaration but of a method named as a setter is found again, for an application that follows the docs; no object is read as another type, for any | 2 types, 2 class names; 19 operators, methods, getters and setters, 2 members in all; 1 member for the loose one |
| `BindingsInherited` | the example of the docs throws (below) | the same, bases not listed, 1 member |
| `Foreign` | copies and shared pointers never lead to the use of what is gone; owning pointers keep their objects with every way of passing | 3 objects, 2 cells, 2 shared pointers, 1 Any |
| `ForeignAny` | an Any does not keep a reference's object (below) | the same, 1 shared pointer |
| `Slots` | arguments are seen as passed by a call that gets to run; only a native container with nothing after it leaves the ensured slots; those popped arrive, but for the one after a list; a refusal is for an argument that does not fit; results other than null convert again and again, also within foreign methods | up to 3 arguments of 8 kinds, containers of up to 2 items, 2 numbers, 1 text, 1 object; lists of one number are kept |
| `SlotsList` | an argument after a list arrives as another (below) | 2 arguments, numbers and lists |
| `Scripts` | no report is lost or told twice, exceptions end with their cause, a text is used once, imports start no code again | 1 name on 2 paths, 3 errors, 1 text, a run with 2 imports or fibers within |

Why the bounds are enough. Two VMs with two VM objects allow every move between
them; the third Handle and WrenHandle let a new one be made while two are held,
which is the most one operation needs. Two Methods let a callback replace the
one that runs; deeper nesting is left to the proofs. Two loops over one container are
a loop and one that disturbs it, and three elements have a first, a middle and
a last. In `Bindings` one base with one derived type has all the casts there
are: none, the listed one and its reverse. Two cells are a receiver and its
result; three objects are an owner, a copy and one that the application keeps.
A container uses two slots after its own at most, so two neighbours are all an
argument can meet: any two kinds are tried side by side, and three of those that
use each other's slots. Of the results that are kept for a later call a list is
the one that uses another slot than 0 when it is converted; what was kept does
not matter to the rest of a call, so only such lists are. In `Scripts` one name
stands for three ids, which is all that resolution tells apart; the third error
of a behaviour can be one that follows a caught import (two errors).

Fairness is assumed for loops only: the body of a loop ends and its fiber is
resumed (`Continue`), which Wren does unless the script stops. It is not
assumed that anyone changes or collects anything.

### Where the code and its docs disagree

Each of these is shown by a run:

- `EmptyMap`: a loop over an empty bound map dereferences `end()`, though
  `stl.md:422` calls it the loop of C++, and vectors and lists test for it.
- `BindingsInherited`: the example of `custom_types.md:155-175` throws BadCast,
  because the inherited function's receiver is the base type and no cast to it
  was listed.
- `ForeignAny`: an Any does not extend the lifetime of an object that a method
  returned by reference (`call_wren.md:246`).
- `SlotsList`: `stl.md:106` offers functions that accept a list; when a compiler
  evaluates arguments from the left, the argument after a native list is
  replaced by the last item of that list.

These are in the models, and no run is made to show them:

- `IsBasic`, `AsNull` of `Holders`: basic `is<T>()` and `as<nullptr_t>()` of an
  Any answer after the VM has gone; `any.hpp:20` says RuntimeError.
- `UseNull` of `Holders`: using an empty Variable, Map or Method dereferences
  null; `variable.hpp:43` says RuntimeError.
- `Pop` of `Bindings`: a derived object is accepted, sliced, where a base is
  expected by value; `custom_types.md:522` says it is not.
- `ReturnReference` of `ForeignObjects`: a returned const reference is borrowed;
  `custom_types.md:25` says it is copied.
- `PassShared` of `ForeignObjects`: a null `shared_ptr` arrives as an object of
  the class; `types.md:27` says as null.
- `PopAny` of `Slots`: an Any parameter of a foreign method has the type of the
  receiver; `any.hpp:65` says that of what it holds. `as<T>()` tests it for null
  only.
- `PushPast`, `ReturnPast` of `Slots`: a native list or map that is passed as the
  last argument is converted through slots beyond the n + 1 that `method.hpp:30`
  ensures, and so is a list that a function without parameters returns;
  `stl.md:88` says that containers that are passed or returned become Wren lists.
  `OnlyLastPast` says that it is these cases and the next ones only.
- `PopPast`, `AsPast` of `Slots`: a list that is popped from the last argument, or
  asked of an Any, is read through a slot that was not ensured.
- `As` of `Slots`: `as<std::optional<T>>()` of a null result throws BadCast, as
  `as()` tests for null before it looks at the type; `types.md:54` says "T or
  null". `types.md:27` says the same of shared pointers, and `as<T*>()` and
  `shared<T>()` refuse null too. `ResultConverted` is about other results.
- `As` of `Slots`: `as<T>()` of a default-constructed Any throws BadCast;
  `any.hpp:101` says RuntimeError.
- `ShownVector` of `Slots`: `stl.md:99-102` has BadCast for a container of a class
  that was not bound, passed by reference; `PushHelper` of a reference, like that
  of a copy, makes a native list of it.
- `LooksLikeSetter`, `DeclaresTwice` of `Signatures`: a method bound as
  `func("x=")` is looked for among the properties. Without a property `x` it is
  not found and the process aborts, with one that cannot be set it is bound to a
  null function, and with one that can the module does not compile.
- `Resolve` and `RunFromSource` of `Scripts`: code given to `runFromSource` or
  `runFromFile` is not found by an import of its name once a file of that name is
  on a path; `vm.hpp:263-264` and `279-280` say that it can be imported.
- `Logged` of `Scripts`: the text of an exception begins with what was reported
  before and caught, such as an import that did not compile; the test at
  `exceptions.cpp:130` expects it to begin with the cause.

Outside the models: `PopHelper<std::deque<T>>` calls itself (`stddeque.hpp:66`),
and the helpers that pop a `std::set` or `std::unordered_set` do not compile when
they are used (`reserve`, and a return of the other type).

## Proofs

`HoldersProofs` proves for every number of VMs, holders, handles and objects,
and any depth of calls:

- `TypeCorrect`: the type invariant;
- `HandlesOwned`: a Handle names a live WrenHandle of its own VM, no WrenHandle
  has two owners, and none is lost;
- `ObjectsRetained`: what a usable holder refers to has not been collected;
- `SingleOwner`, `NothingLeaked`: the last two parts of it on their own;
- `FreedLeftAlone`: no step writes the handle list of a freed VM.

They follow from `OwnershipInvariant`. Its inductive invariant `Ownership` adds
to those properties what keeps them true:

- `StrayEmpty`: a shared Handle nothing points to is empty, so making one
  overwrites nothing. Without it `NoLeak` is not inductive;
- `OriginBorn`: a WrenHandle and a Handle name VMs that were created, so a new
  VM does not revive what looks expired;
- `RootsExist`: what a WrenHandle of a live VM names is in that VM's heap.
  `HeldObjectExists` follows from this one and `HandleMatches`;
- `MethodCoherent`: the two members of a Method come and go together and are of
  one VM;
- `CallsLive`: a VM that runs a call has not been freed.

Shared-pointer changes are handled once, in lemmas about `Settle`, and each
action's step cites them. The assumptions are those of `HolderAssumption`: the
kinds of holders are disjoint and NULL is none of them. The theorems rest on
the guard of `DestroyVM`, that an application does not destroy a VM from a
callback of that VM.

`RefinementProofs` proves, for the same numbers, that `Holders` implements
`Retention` (`HoldersImplementRetention`): the initial states are initial states
of plain references, and each action is one step of them or changes nothing they
show. Its invariant `Retained` adds to `Ownership` what the mapping needs:
`DataLive`, that a VM object owns a VM that lives and no other object owns, so
that the end of one object is the end of one VM; and `SharedFull`, that a Handle
with shared pointers to it was never emptied, so that a copy of a Variable or
Method is a reference to the same object. The mapping tells shared pointers from
Anys by their names, hence the conjunct of `HolderAssumption` that `Ptr` and
`ReturnValue` are disjoint.

`BindingsProofs` proves for any modules, classes, types, applications and
hierarchy of bases:

- `NeverMisread`: no object is read as a type it neither has nor derives from;
- `FinalisersFit`: where no name is given twice, an object's class has the
  finaliser of the object's type;
- `OneClassEach`: where no name is given twice, all objects of a type are of one
  class;
- `RegistryTyped`: the type invariant, repeated names included;
- `MembersFound`: each declaration an import generates is bound to the C++
  function it was written for, but that of a method named as a setter;
- `SelfIsAccepted`: where the bases that are used are listed, no member of a
  class refuses an object of that class.

`NeverMisread` needs that every cast in the table leads to a base
(`CastsKnown`), as what an object may be read as is looked up there. The next
three rest on `Registry`, which follows an object back to its `klass` call: the
class a type leads to was made for that type (`TypesFollow`, only where no name
is given twice), a class in scope has the type it has in its module
(`ScopeFollows`), and an object's class is in scope with the object's type
(`InstancesFit`). It is inductive because classes and what is in scope only
grow (`KlassesGrow`, `ScopeGrows`). `OneClassEach` adds the way back, that a
class is the one its type leads to (`ClassesFollow`), which holds since a class
comes into a module by `klass` only (`OnlyKlassRegisters`).

The last two rest on `Members`: a class of a module keeps each member under the
declaration that Wren makes of it, and functions that take the objects of the
class (`MembersDescribed`); a class in scope was bound to what it declared
(`MembersBound`). That a member is found where it is kept is a fact of
`Signatures` alone, and the first lemmas have it for every kind of member:
`OperatorsFound` and `MethodSought` for any number of parameters, `GetterFound`
and `SetterFound`. That a function takes its class's objects stays true since
casts are only added.

The assumption is `BindingAssumption`: the bases of a type are types, no name
begins with a symbol of an operator, as none in Wren does, and that of a method
is an identifier, or one with a `=` as a setter has it. `Registration` lists only bases in
`klass`, which is what they are for; a listed type that is no base, where it
compiles (`dynamic_pointer_cast`, `object.hpp:103`), is left out.

`ForeignObjectsProofs` proves for any numbers of objects, cells, shared pointers
and Anys:

- `ForeignTyped`: the type invariant;
- `OwnersKeepAlive`: a cell, shared pointer or result that owns an object has one
  that lives;
- `NothingIsUndefined`: an application that passes copies and shared pointers,
  and whose copies do not throw, uses nothing that is gone.

The first two rest on `Lifetimes`, which adds to them that what the application
stores otherwise is alive and that no pointer owns it: without the second part
the end of a local would destroy an object that a pointer relies on. `Settle` is
treated once, as in `Holders`: whatever pointers a step changes, if those that
own afterwards owned before or are of a new object, owners stay alive. The third
needs in addition that the pointers of the cells something refers to, of the
variables and of a result own, and that no cell is left as raw memory (`Owned`),
which is inductive only together with `Lifetimes` and for such an application. `HabitsAssumption` is that habits
are sets of ways to pass and of functions that may throw, and that NULL is
neither an object nor a cell of the heap.

`ScriptsProofs` proves for any numbers of modules, paths, errors and texts and
any depth of imports and fibers:

- `ScriptsTyped`: the type invariant;
- `NoReportLost`: reports are told once, all of them and in order;
- `CauseAlwaysTold`: an exception ends with the report of what caused it;
- `TextGivenOnce`: a text of `setNextError` goes into one report at most;
- `CodeImportedOnce`: no import starts code again.

They follow from `SoundInvariant`. `Sound` looks at what was told followed by
what `lastError` holds, as one log: it has every report, errors in it increase,
no text appears twice, and the text that waits is in none of them (`Faithful`).
`TextOnce` is inductive by the last part: else the next report could use a text
again. `Stacked` says that the lowest frame, and no other, is that
of C++, so that unwinding ends; `Modules` that what was started is known to Wren,
so that an import finds it. `ScriptsAssumption` bounds by numbers, and demands
that one frame is allowed, as a run needs one.

`BoundSequenceProofs` proves for any elements, loops, indexes and capacities:

- `SequenceTyped`: the type invariant: a vector has room for what it holds;
- `UndisturbedLoopsExact`, `UndisturbedLoopsDefined`: a loop whose container
  nobody changes sees everything once and in order, and uses valid iterators;
- `ListLoopsComplete`: a loop over a list that ends has seen what was there all
  the time, none twice and in order, whatever changed;
- `IndexesNamePositions`: `insert` and `removeAt` mean the position that the docs
  say, and keep the rest in order;
- `SequencesImplementTraversal`: the loops implement `Traversal` (`BoundList`
  checks it of a list; of a vector the theorem alone says it).

The first three and `IndexesNamePositions` rest on `Reliable`: an iterator of an undisturbed
loop is where the number of seen elements says (`Undisturbed`), in a list one
that is not stale names an element that is there (`Iterators`), and no element
is in the container twice or both in it and unused (`Elements`). `Complete` adds
for lists that what stayed is seen or still ahead of the iterator (`Followed`);
with the change of a container stated once, as what every operation does to the
order of elements (`Change`), each operation is shown to be such a change. It is
a theorem of node-based containers only: a vector's iterator is an offset, and
an insertion before it shows an element twice. `LoopAssumption` has the elements
finite in number, as those of a run of a program are. The refinement needs of a
vector only what `Reliable` says of undisturbed loops, of a list also
`Followed`, and of both that a loop which has not begun is as it was and that an
undisturbed one must see all that is there (`Started`).

`BoundMapProofs` proves for any keys and loops:

- `MapTyped`: the type invariant: the keys are in order;
- `MapLoopsExact`: a loop over a map that nobody changes sees each key, once and
  in order;
- `MapLoopsDefined`: such a loop uses valid iterators, unless the map is empty;
- `MapLoopsComplete`: a loop that ends has seen what was there all the time, none
  twice and in order, whatever was inserted and removed;
- `MapImplementsTraversal`: the loops implement `Traversal`.

They follow from `Visiting`. Here an iterator is at a key, and the order is that
of the keys: what a loop has seen is an increasing sequence (`Seen`), all of it
before the iterator, and what stayed and was not seen is at the iterator or
after it (`Between`). A key that comes back after it was removed is thus never
seen twice. That a set of keys has an order, and one only, would be an induction
over finite sets; the proof counts instead: the number of keys that are not
above a key is its `Rank`, ranks are an injection into the first numbers as many
as there are keys, so also a surjection (`Ranks`), and the key of each rank, put
at that position, gives the order (`AscendingOrder`). The rank of a key in an
increasing sequence is its position (`PositionIsRank`), so there is no other
(`OneOrder`). `MapAssumption` is that keys are integers, for their order.

`SlotsProofs` proves for calls with any number of parameters and containers of
any size:

- `SlotsTyped`: the type invariant: no argument is pushed or popped twice;
- `ArgumentsAreSeen`: Wren sees what C++ passed, in a call that gets to run;
- `OnlyContainersOverrun`: slots that were not ensured are used for a native
  container with nothing after it only (after a map, one argument at most);
- `OtherArgumentsArrive`: popped in any order, each argument arrives but the one
  after a native list;
- `OnlyMisfitsRefused`: a refusal is for an argument that does not fit, or for
  the one after a list;
- `ResultsConverted`: a result other than null converts to the types it fits,
  again and again, also within foreign methods.

They follow from `PassedInOrder`. `Passing` says what is in the slots between two
steps: of arguments pushed, what Wren will see of each (`Seen`), since an
argument uses the slots after its own only before those are filled; of arguments
still to be popped, the argument, or an element of the list before it if that
was popped (`Waiting`). What it says of a call from C++ is about one that did not
stop at a slot that was not ensured; that no other conversion does is its part
`Ensured`: a call has a slot ensured for each of its parameters and the receiver,
so a container with enough arguments after it stays within. `SlotsAssumption` keeps basic values apart from
containers, as Wren's types are.

Only model-checked: the liveness property `LoopsEnd`, as it rests on fairness,
which the provers do not treat. The runs `EmptyMap`, `BindingsInherited`,
`ForeignAny` and `SlotsList` are counterexamples and need no proof.

## Not modelled

- What a Map holds, and the values of a bound container: no code here depends
  on them.
- Containers within containers, which use more slots in the same way, and
  Variables, Maps and Methods as arguments.
- A foreign function that calls Wren again while a script runs: `Holders` has it
  for holders, `Slots` and `Scripts` do not.
- `std::unordered_map` bindings, whose rehashing changes the order of a loop.
- Conversion between numbers of different widths and of strings; printing; the
  setters of callbacks and paths; `append()`.
- Tests and examples, which are a reference for what the code is meant to do.

## Plan

1. Calls of Wren within foreign functions, in `Slots` and `Scripts`: what the
   inner call leaves in the slots and in `lastError`.
2. Composition of `Holders` and `ForeignObjects`: an Any as a root of a cell, in
   several VMs; an abstract specification of shared ownership.
3. `std::unordered_map` in `BoundMap`.
4. Lemmas about `ContainerLoops` alone, from which those of `BoundSequenceProofs`
   and `BoundMapProofs` on loops that changes disturb would both follow.
