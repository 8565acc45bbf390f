----------------------------- MODULE Signatures -----------------------------
(***************************************************************************)
(* Members of a foreign class (foreign.hpp): the Wren declaration that is  *)
(* generated for a member, the key it is stored under, and the search for  *)
(* it when the Wren compiler meets the declaration.                        *)
(*                                                                         *)
(* A signature is a text, a sequence of symbols of which an identifier is  *)
(* one, followed by a list of parameters or by no list at all.  So is the  *)
(* name of a method: an identifier, or one with a "=" as a setter has it.  *)
(***************************************************************************)
EXTENDS Naturals, Sequences, SequencesExt

NoList == <<>>
List(n) == <<n>>
Signature(text, params) == [text |-> text, params |-> params]

(* A method of n parameters, a getter and a setter of a name. *)
MethodKey(name, n) == Signature(name, List(n))
Getter(name) == Signature(<<name>>, NoList)
Setter(name) == Signature(<<name, "=">>, List(1))

(* ForeignMethodImpl::generateSignature: the declared operator. *)
OperatorDeclaration ==
  [GET_INDEX   |-> Signature(<<"[", "arg", "]">>, NoList),
   SET_INDEX   |-> Signature(<<"[", "arg", "]", "=">>, List(1)),
   ADD         |-> Signature(<<"+">>, List(1)),
   SUB         |-> Signature(<<"-">>, List(1)),
   DIV         |-> Signature(<<"/">>, List(1)),
   MUL         |-> Signature(<<"*">>, List(1)),
   MOD         |-> Signature(<<"%">>, List(1)),
   EQUAL       |-> Signature(<<"=", "=">>, List(1)),
   NOT_EQUAL   |-> Signature(<<"!", "=">>, List(1)),
   NEG         |-> Signature(<<"-">>, NoList),
   GT          |-> Signature(<<">">>, List(1)),
   LT          |-> Signature(<<"<">>, List(1)),
   GT_EQUAL    |-> Signature(<<">", "=">>, List(1)),
   LT_EQUAL    |-> Signature(<<"<", "=">>, List(1)),
   SHIFT_LEFT  |-> Signature(<<"<", "<">>, List(1)),
   SHIFT_RIGHT |-> Signature(<<">", ">">>, List(1)),
   AND         |-> Signature(<<"&">>, List(1)),
   XOR         |-> Signature(<<"^">>, List(1)),
   OR          |-> Signature(<<"|">>, List(1))]

Operator == DOMAIN OperatorDeclaration

(* ForeignMethodImpl::generateName: the key of an operator. *)
OperatorKey ==
  [op \in Operator |->
     CASE op = "GET_INDEX" -> Signature(<<"[", "_", "]">>, NoList)
       [] op = "SET_INDEX" -> Signature(<<"[", "_", "]", "=">>, List(1))
       [] op = "NEG" -> Signature(<<"-">>, NoList)
       [] op \in {"ADD", "SUB", "MUL", "DIV"} ->
            Signature(<<[ADD |-> "+", SUB |-> "-", MUL |-> "*", DIV |-> "/"][op]>>, List(1))
       [] op \in {"MOD", "AND", "XOR", "OR"} ->
            Signature(<<[MOD |-> "%", AND |-> "&", XOR |-> "^", OR |-> "|"][op]>>, List(1))
       [] op \in {"GT", "SHIFT_RIGHT", "GT_EQUAL"} ->
            Signature([GT |-> <<">">>, SHIFT_RIGHT |-> <<">", ">">>,
                       GT_EQUAL |-> <<">", "=">>][op], List(1))
       [] op \in {"LT", "SHIFT_LEFT", "LT_EQUAL"} ->
            Signature([LT |-> <<"<">>, SHIFT_LEFT |-> <<"<", "<">>,
                       LT_EQUAL |-> <<"<", "=">>][op], List(1))
       [] op = "EQUAL" -> Signature(<<"=", "=">>, List(1))
       [] op = "NOT_EQUAL" -> Signature(<<"!", "=">>, List(1))]

(* The signature the Wren compiler derives from a declaration: the name of *)
(* a parameter, which comes after a bracket, is dropped.                   *)
Compiled(d) ==
  Signature([i \in DOMAIN d.text |-> IF i > 1 /\ d.text[i] = "arg" THEN "_" ELSE d.text[i]],
            d.params)
----------------------------------------------------------------------------
(* A class as the application has described it: methods maps a key to a    *)
(* ForeignMethod and props a name to a ForeignProp.  A null setter is that *)
(* of a read-only property.                                                *)
NoFunction(why) == [receiver |-> "none", member |-> <<>>, part |-> why]
NotFound == NoFunction("NotFound")
NullFunction == NoFunction("null")

(* ForeignKlass::findFunc and findProp *)
FindFunc(klass, key, static) ==
  IF key \in DOMAIN klass.methods /\ klass.methods[key].static = static
  THEN klass.methods[key].function ELSE NotFound

FindProp(klass, name, static, part) ==
  IF name \in DOMAIN klass.props /\ ~static
  THEN klass.props[name][part] ELSE NotFound

OperatorLead == {"[", "-", "+", "/", "*", "=", "!", "%", "<", ">", "&", "^", "|"}

(* signature.find("=(_)"): also a method whose name ends so *)
LooksLikeSetter(s) == Last(s.text) = "=" /\ s.params = List(1)

(* Mutant: != is not among the operators. *)
FindWithoutBang(klass, s, static) ==
  IF Head(s.text) \in OperatorLead \ {"!"} THEN FindFunc(klass, s, static)
  ELSE IF s.params = NoList THEN FindProp(klass, Head(s.text), static, "getter")
  ELSE IF LooksLikeSetter(s) THEN FindProp(klass, Head(s.text), static, "setter")
  ELSE FindFunc(klass, s, static)

(* ForeignKlass::findSignature *)
FindSignature(klass, s, static) ==
  IF Head(s.text) \in OperatorLead THEN FindFunc(klass, s, static)
  ELSE IF s.params = NoList THEN FindProp(klass, Head(s.text), static, "getter")
  ELSE IF LooksLikeSetter(s) THEN FindProp(klass, Head(s.text), static, "setter")
  ELSE FindFunc(klass, s, static)

(* ForeignKlassImpl::generate: what is declared, and for which function. *)
Declared(klass) ==
  LET declared(d, m) == [declaration |-> d, static |-> m.static, function |-> m.function]
      property(d, f) == [declaration |-> d, static |-> FALSE, function |-> f]
      settable == {n \in DOMAIN klass.props : klass.props[n].setter # NullFunction}
  IN {declared(klass.methods[k].declaration, klass.methods[k]) : k \in DOMAIN klass.methods}
     \cup {property(Getter(n), klass.props[n].getter) : n \in DOMAIN klass.props}
     \cup {property(Setter(n), klass.props[n].setter) : n \in settable}

(* The Wren compiler refuses a class with two members of one signature: a  *)
(* property that can be set and a method that is named as its setter.      *)
DeclaresTwice(klass) ==
  \E d, e \in Declared(klass) :
    d # e /\ d.static = e.static /\ Compiled(d.declaration) = Compiled(e.declaration)

(* VM's bindForeignMethodFn for each declaration of a class: what is bound *)
(* to what was declared.                                                   *)
Bound(klass) ==
  {[declared |-> d.function, found |-> FindSignature(klass, Compiled(d.declaration), d.static)]
     : d \in Declared(klass)}
=============================================================================
