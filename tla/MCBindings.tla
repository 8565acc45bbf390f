----------------------------- MODULE MCBindings -----------------------------
(* Small instances of Bindings for TLC: a base type with a derived one.    *)
EXTENDS Bindings

CONSTANTS base, derived

DerivedFromBase == {<<derived, base>>}

(* All operators, methods and properties, as the docs show them. *)
Complete ==
  [methods |-> {<<"foo">>}, operators |-> Operator, props |-> {"x"}, params |-> 1, members |-> 2,
   careful |-> {"one name", "import last", "listed bases"}]

(* A method that is named as the setter of a property. *)
Setting ==
  [methods |-> {<<"x", "=">>}, operators |-> {"EQUAL"}, props |-> {"x"}, params |-> 1,
   members |-> 2, careful |-> {"one name", "import last", "listed bases"}]

(* Registration, import and use in any order. *)
Loose ==
  [methods |-> {<<"foo">>}, operators |-> {}, props |-> {}, params |-> 0, members |-> 1,
   careful |-> {}]

(* Bases are not listed. *)
Inheriting ==
  [methods |-> {<<"foo">>}, operators |-> {}, props |-> {"x"}, params |-> 0, members |-> 1,
   careful |-> {"one name", "import last"}]

Applications == {Complete, Setting, Loose}
OnlyInheriting == {Inheriting}
=============================================================================
