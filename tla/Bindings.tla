------------------------------ MODULE Bindings ------------------------------
(***************************************************************************)
(* What a VM knows of the C++ classes of an application (vm.hpp,           *)
(* module.hpp, foreign.hpp): the classes of each module, the module and    *)
(* name of each C++ type, the casts to base types, and what the Wren code  *)
(* of a module was bound to when it was imported.                          *)
(***************************************************************************)
EXTENDS Signatures

CONSTANTS
  Module,      \* names of foreign modules
  Name,        \* names of classes in a module
  Type,        \* C++ types
  Base,        \* pairs <<derived type, base type>>, transitively closed
  Application  \* applications: what they bind and what they take care of

(* An application has these fields:                                        *)
(*   methods: names of methods, sequences of symbols                       *)
(*   operators: operators                                                  *)
(*   props:   names of properties                                          *)
(*   params:  bound on the parameters of a method                          *)
(*   members: bound on the members of the classes of a module              *)
(*   careful: what it takes care of, any of                                *)
(* "one name":     no module has two classes of one name, no type two      *)
(*                 names;                                                  *)
(* "import last":  a class is complete before its module is imported, and  *)
(*                 a value is pushed only after that;                      *)
(* "listed bases": a member of a base type is bound only in a class whose  *)
(*                 klass<T, Base...>() listed that base.                   *)
(* Names are those of Wren: none begins with a symbol of an operator, and  *)
(* only that of a setter ends with one.                                    *)
ASSUME BindingAssumption ==
  /\ Base \subseteq Type \X Type /\ \A t \in Type : <<t, t>> \notin Base
  /\ \A a \in Application :
       /\ a.props \cap OperatorLead = {} /\ a.operators \subseteq Operator
       /\ \A name \in a.methods :
            Head(name) \notin OperatorLead /\ name \in {<<Head(name)>>, <<Head(name), "=">>}
       /\ a.careful \subseteq {"one name", "import last", "listed bases"}
       /\ a.params \in Nat /\ a.members \in Nat

VARIABLES
  app,       \* the application
  klasses,   \* ForeignModule::klasses of each module
  types,     \* Data::classToModule and classToName: <<module, name>> of a type
  casts,     \* keys of Data::classCasting
  scope,     \* what each imported module's classes were bound to
  instances, \* Wren objects: the Wren class and the C++ type of each
  outcome    \* how the last operation ended

vars == <<app, klasses, types, casts, scope, instances, outcome>>

None == <<>>       \* the empty map
Careful(about) == about \in app.careful

(* unordered_map::insert *)
Extend(f, k, v) == [x \in DOMAIN f \cup {k} |-> IF x \in DOMAIN f THEN f[x] ELSE v]

ClassAt == Module \X Name
Instance == [class : ClassAt, type : Type]

Registered(c) == c[1] \in DOMAIN klasses /\ c[2] \in DOMAIN klasses[c[1]]
InScope(c) == c[1] \in DOMAIN scope /\ c[2] \in DOMAIN scope[c[1]]

TypeOK ==
  /\ app \in Application
  /\ DOMAIN klasses \subseteq Module
  /\ \A m \in DOMAIN klasses :
       /\ DOMAIN klasses[m] \subseteq Name
       /\ \A n \in DOMAIN klasses[m] : klasses[m][n].type \in Type
  /\ DOMAIN types \subseteq Type /\ \A t \in DOMAIN types : types[t] \in ClassAt /\ Registered(types[t])
  /\ casts \subseteq Type \X Type
  /\ DOMAIN scope \subseteq Module
  /\ instances \subseteq Instance /\ \A i \in instances : InScope(i.class)

Init ==
  /\ app \in Application
  /\ klasses = None
  /\ types = None
  /\ casts = {}
  /\ scope = None
  /\ instances = {}
  /\ outcome = [op |-> "none", result |-> "none"]

(* An abort of the process, undefined behaviour and an import that Wren    *)
(* refuses end a run.                                                      *)
Running == outcome.result \notin {"abort", "undefined", "error"}

Done(op, result) == outcome' = [op |-> op, result |-> result]
----------------------------------------------------------------------------
(* Description of the application's classes. *)

(* VM::module: an existing module is returned. *)
GetModule(m) ==
  /\ Running
  /\ klasses' = Extend(klasses, m, None)
  /\ Done("module", "ok")
  /\ UNCHANGED <<types, casts, scope, instances>>

NewKlass(t) == [type |-> t, ctor |-> FALSE, methods |-> None, props |-> None]

(* ForeignModule::insertKlassCast<t, bases...>: one cast per listed base. *)
ListedCasts(t, bases) == {t} \X bases

(* Mutant: the module and the class trade places. *)
KlassSwapsNames(m, n, t, bases) ==
  /\ Running
  /\ m \in DOMAIN klasses
  /\ Careful("one name") => n \notin DOMAIN klasses[m] /\ t \notin DOMAIN types
  /\ Careful("import last") => m \notin DOMAIN scope
  /\ casts' = casts \cup ListedCasts(t, bases)
  /\ types' = Extend(types, t, <<n, m>>)
  /\ klasses' = [klasses EXCEPT ![m] = Extend(@, n, NewKlass(t))]
  /\ Done("klass", "ok")
  /\ UNCHANGED <<scope, instances>>

(* Mutant: the class takes the place of those of its bases. *)
KlassTakesBases(m, n, t, bases) ==
  /\ Running
  /\ m \in DOMAIN klasses
  /\ Careful("one name") => n \notin DOMAIN klasses[m] /\ t \notin DOMAIN types
  /\ Careful("import last") => m \notin DOMAIN scope
  /\ casts' = casts \cup ListedCasts(t, bases)
  /\ types' = [u \in DOMAIN types \cup {t} |->
                IF u \in bases \/ u \notin DOMAIN types THEN <<m, n>> ELSE types[u]]
  /\ klasses' = [klasses EXCEPT ![m] = Extend(@, n, NewKlass(t))]
  /\ Done("klass", "ok")
  /\ UNCHANGED <<scope, instances>>

(* Mutant: the bases that are listed are entered as types of the class. *)
KlassTypesBases(m, n, t, bases) ==
  /\ Running
  /\ m \in DOMAIN klasses
  /\ Careful("one name") => n \notin DOMAIN klasses[m] /\ t \notin DOMAIN types
  /\ Careful("import last") => m \notin DOMAIN scope
  /\ casts' = casts \cup ListedCasts(t, bases)
  /\ types' = [u \in DOMAIN types \cup {t} \cup bases |->
                IF u \in DOMAIN types THEN types[u] ELSE <<m, n>>]
  /\ klasses' = [klasses EXCEPT ![m] = Extend(@, n, NewKlass(t))]
  /\ Done("klass", "ok")
  /\ UNCHANGED <<scope, instances>>

(* ForeignModule::klass<t, bases...>(n).  Every insertion keeps an entry   *)
(* that is there; the class of a repeated name is destroyed at once, and   *)
(* the reference that is returned to it dangles.                           *)
Klass(m, n, t, bases) ==
  /\ Running
  /\ m \in DOMAIN klasses
  /\ Careful("one name") => n \notin DOMAIN klasses[m] /\ t \notin DOMAIN types
  /\ Careful("import last") => m \notin DOMAIN scope
  /\ casts' = casts \cup ListedCasts(t, bases)
  /\ types' = Extend(types, t, <<m, n>>)
  /\ klasses' = [klasses EXCEPT ![m] = Extend(@, n, NewKlass(t))]
  /\ Done("klass", IF n \in DOMAIN klasses[m] THEN "dangling" ELSE "ok")
  /\ UNCHANGED <<scope, instances>>

(* The reference returned by klass() is used to describe the class n of m. *)
Describe(m, n, k) ==
  /\ Running
  /\ Careful("import last") => m \notin DOMAIN scope
  /\ klasses' = [klasses EXCEPT ![m][n] = k]
  /\ Done("describe", "ok")
  /\ UNCHANGED <<types, casts, scope, instances>>

(* Types whose members can be bound in a class for t: t and its bases. *)
Receiver(t) == {b \in Type : b = t \/ <<t, b>> \in (IF Careful("listed bases") THEN casts ELSE Base)}

(* Whether the bound on members leaves room for another member. *)
Room(m) ==
  Cardinality(UNION {{n} \X DOMAIN klasses[m][n].methods : n \in DOMAIN klasses[m]})
    + Cardinality(UNION {{n} \X DOMAIN klasses[m][n].props : n \in DOMAIN klasses[m]})
    < app.members

(* ctor<Args...>() *)
Ctor(m, n) == Describe(m, n, [klasses[m][n] EXCEPT !.ctor = TRUE])

(* The method a class keeps under a key: the first one. *)
WithMethod(k, key, declaration, function) ==
  [k EXCEPT !.methods = Extend(@, key,
     [declaration |-> declaration, static |-> function.receiver = "static",
      function |-> function])]

(* A name that ends as a setter's, with which Wren takes one parameter. *)
SetterNamed(name) == Last(name) = "="

(* func, funcExt, funcStatic and funcStaticExt of a name *)
Func(m, n, name, params, receiver) ==
  LET f == [receiver |-> receiver, member |-> name, part |-> "method"]
      key == MethodKey(name, params)
  IN /\ Room(m) /\ (SetterNamed(name) => params = 1)
     /\ Describe(m, n, WithMethod(klasses[m][n], key, key, f))

(* func and funcExt of an operator *)
FuncOperator(m, n, op, receiver) ==
  LET f == [receiver |-> receiver, member |-> <<op>>, part |-> "operator"]
  IN /\ Room(m)
     /\ Describe(m, n, WithMethod(klasses[m][n], OperatorKey[op],
                                  OperatorDeclaration[op], f))

(* var, varReadonly, prop, propReadonly, propExt and propReadonlyExt *)
Prop(m, n, name, readonly, receiver) ==
  LET part(p) == [receiver |-> receiver, member |-> <<name>>, part |-> p]
      prop == [getter |-> part("getter"),
               setter |-> IF readonly THEN NullFunction ELSE part("setter")]
      k == klasses[m][n]
  IN /\ Room(m)
     /\ Describe(m, n, [k EXCEPT !.props = Extend(@, name, prop)])
----------------------------------------------------------------------------
(* A class of a module in Wren: bindForeignClassFn gives it the allocator  *)
(* and finaliser of its C++ type, and its declarations are bound.          *)
BoundClass(k) == [type |-> k.type, ctor |-> k.ctor, bound |-> Bound(k)]

(* Wren imports a module: loadModuleFn generates its code, which Wren      *)
(* compiles, and every class in it is bound, one declaration after the     *)
(* other.  One for which no function is found aborts the process, one for  *)
(* which a null function is found is refused by Wren.                      *)
Import(m) ==
  /\ Running
  /\ m \in DOMAIN klasses \ DOMAIN scope
  /\ IF \E n \in DOMAIN klasses[m] : DeclaresTwice(klasses[m][n])
     THEN Done("import", "error") /\ UNCHANGED scope
     ELSE LET classes == [n \in DOMAIN klasses[m] |-> BoundClass(klasses[m][n])]
              found == UNION {{b.found : b \in classes[n].bound} : n \in DOMAIN classes}
          IN /\ scope' = Extend(scope, m, classes)
             /\ \/ NotFound \in found /\ Done("import", "abort")
                \/ NullFunction \in found /\ Done("import", "error")
                \/ found \cap {NotFound, NullFunction} = {} /\ Done("import", "ok")
  /\ UNCHANGED <<klasses, types, casts, instances>>

(* Name.new(...) in Wren: ForeignKlassAllocator<T>::allocate *)
Construct(c) ==
  /\ Running
  /\ InScope(c) /\ scope[c[1]][c[2]].ctor
  /\ instances' = instances \cup {[class |-> c, type |-> scope[c[1]][c[2]].type]}
  /\ Done("construct", "ok")
  /\ UNCHANGED <<klasses, types, casts, scope>>

(* pushAsConstRef, pushAsMove, pushAsPtr and the push of a shared_ptr.  A  *)
(* variable is looked up in a module that must have been imported.         *)
Push(t) ==
  /\ Running
  /\ Careful("import last") /\ t \in DOMAIN types => InScope(types[t])
  /\ IF t \notin DOMAIN types
     THEN Done("push", "BadCast") /\ UNCHANGED instances
     ELSE IF InScope(types[t])
     THEN /\ instances' = instances \cup {[class |-> types[t], type |-> t]}
          /\ Done("push", "ok")
     ELSE Done("push", "undefined") /\ UNCHANGED instances
  /\ UNCHANGED <<klasses, types, casts, scope>>

(* Mutant: the base is looked up as the derived type. *)
CastAgainst(t, u) == u = t \/ <<u, t>> \in casts

(* getSlotForeign<u> of an object of type t *)
CanCast(t, u) == u = t \/ <<t, u>> \in casts

(* An object reaches C++ as a u: by pointer, reference or shared_ptr, or   *)
(* by a copy of the u in it.                                               *)
Pop(i, u) ==
  /\ Running
  /\ i \in instances
  /\ outcome' = [op |-> "pop", result |-> IF CanCast(i.type, u) THEN "ok" ELSE "BadCast",
                 type |-> i.type, as |-> u]
  /\ UNCHANGED <<klasses, types, casts, scope, instances>>

(* A bound member is called on an object of its class: self is popped as a *)
(* pointer to the receiver.                                                *)
Call(i, f) ==
  /\ Running
  /\ i \in instances
  /\ f.receiver # "static"
  /\ \E b \in scope[i.class[1]][i.class[2]].bound : b.found = f
  /\ outcome' = [op |-> "call", result |-> IF CanCast(i.type, f.receiver) THEN "ok" ELSE "BadCast",
                 type |-> i.type, as |-> f.receiver]
  /\ UNCHANGED <<klasses, types, casts, scope, instances>>

Registration ==
  \/ \E m \in Module : GetModule(m)
  \/ \E m \in Module, n \in Name, t \in Type :
       \E bases \in SUBSET {b \in Type : <<t, b>> \in Base} : Klass(m, n, t, bases)
  \/ \E m \in DOMAIN klasses : \E n \in DOMAIN klasses[m] :
       LET t == klasses[m][n].type
       IN \/ Ctor(m, n)
          \/ \E name \in app.methods, p \in 0 .. app.params :
               \E r \in Receiver(t) \cup {"static"} : Func(m, n, name, p, r)
          \/ \E op \in app.operators, r \in Receiver(t) : FuncOperator(m, n, op, r)
          \/ \E name \in app.props, readonly \in BOOLEAN, r \in Receiver(t) :
               Prop(m, n, name, readonly, r)

Use ==
  \/ \E m \in Module : Import(m)
  \/ \E c \in ClassAt : Construct(c)
  \/ \E t \in Type : Push(t)
  \/ \E i \in instances :
       \/ \E u \in Type : Pop(i, u)
       \/ \E b \in scope[i.class[1]][i.class[2]].bound :
            b.found \notin {NotFound, NullFunction} /\ Call(i, b.found)

Next == (Registration \/ Use) /\ UNCHANGED app

Spec == Init /\ [][Next]_vars
----------------------------------------------------------------------------
(* An application that follows the docs in everything. *)
FollowsDocs == app.careful = {"one name", "import last", "listed bases"}

(* A method that was given the name of a setter is looked for among the    *)
(* properties.                                                             *)
NamedAsSetter(f) == f.part = "method" /\ SetterNamed(f.member)

(* Each declaration the generator writes is bound to the C++ function it   *)
(* was written for: keys, declarations and findSignature agree, for every  *)
(* operator, getter and setter, and every method but one that is named as  *)
(* a setter (foreign.hpp:187-221, vm.hpp:184-196).                         *)
DeclarationsBound ==
  \A m \in DOMAIN scope : \A n \in DOMAIN scope[m] :
    \A b \in scope[m][n].bound : b.found = b.declared \/ NamedAsSetter(b.declared)

(* An object is never read as a type that it is not: an attempt throws     *)
(* BadCast, however classes were registered (pop.hpp:165-191).             *)
TypeSafe ==
  outcome.op \in {"pop", "call"} /\ outcome.result = "ok"
    => outcome.as = outcome.type \/ <<outcome.type, outcome.as>> \in Base

(* The finaliser Wren calls for an object is that of the object's type,    *)
(* whichever way the object was made (foreign.hpp:429-432): in a module    *)
(* without a repeated name the type's entry and the class it names agree.  *)
FinalizerFits ==
  Careful("one name") =>
    \A i \in instances : scope[i.class[1]][i.class[2]].type = i.type

(* Every member a class was bound with accepts the objects of that class:  *)
(* self is never refused, if bases are listed (caller.hpp:86-149).         *)
SelfAccepted == FollowsDocs /\ outcome.op = "call" => outcome.result = "ok"

(* Objects of a type are in one Wren class, whichever way they were made,  *)
(* by Wren's new or by a push, and whichever bases were listed: is Foo in  *)
(* Wren code does not depend on it (module.hpp:48-68, push.hpp:21-77).     *)
OneClassPerType ==
  Careful("one name") => \A i, j \in instances : i.type = j.type => i.class = j.class

(* custom_types.md:155-175: a function of a base class is bound "as long   *)
(* as" it is a base class, so a call of it is not refused.                 *)
InheritedAccepted ==
  outcome.op = "call" /\ <<outcome.type, outcome.as>> \in Base => outcome.result = "ok"
=============================================================================
