--------------------------- MODULE BindingsProofs ---------------------------
(***************************************************************************)
(* Theorems on Bindings: objects are never read as a type they are not;    *)
(* where no name is given twice they get the finaliser of their type and   *)
(* are in one class with all others of it; every declaration but that of a *)
(* method named as a setter is bound to the function it was written for;   *)
(* and no member refuses its own objects.                                  *)
(***************************************************************************)
EXTENDS Bindings, SequenceTheorems, TLAPS
----------------------------------------------------------------------------
(* Declarations, keys and the search for members. *)

(* A declaration without a parameter in brackets is its own signature. *)
LEMMA PlainCompiled ==
  ASSUME NEW S, NEW t \in Seq(S), NEW ps, \A i \in DOMAIN t : i > 1 => t[i] # "arg"
  PROVE  Compiled(Signature(t, ps)) = Signature(t, ps)
  <1>1. t = [i \in DOMAIN t |-> t[i]]
    BY LenProperties
  <1>2. [i \in DOMAIN t |-> IF i > 1 /\ t[i] = "arg" THEN "_" ELSE t[i]] = [i \in DOMAIN t |-> t[i]]
    OBVIOUS
  <1> QED
    BY <1>1, <1>2 DEF Compiled, Signature

(* So is a text of one symbol, even if it is the name arg.                *)
LEMMA OneSymbol ==
  ASSUME NEW x, NEW ps
  PROVE  Compiled(Signature(<<x>>, ps)) = Signature(<<x>>, ps)
  <1>1. <<x>> \in Seq({x})
    OBVIOUS
  <1>2. \A i \in DOMAIN <<x>> : ~(i > 1)
    OBVIOUS
  <1> QED
    BY <1>1, <1>2, PlainCompiled

(* So is a text of two symbols of which the second is not a parameter.     *)
LEMMA TwoSymbols ==
  ASSUME NEW x, NEW y, y # "arg", NEW ps
  PROVE  Compiled(Signature(<<x, y>>, ps)) = Signature(<<x, y>>, ps)
  <1>1. <<x, y>> \in Seq({x, y})
    OBVIOUS
  <1>2. \A i \in DOMAIN <<x, y>> : i > 1 => <<x, y>>[i] # "arg"
    OBVIOUS
  <1> QED
    BY <1>1, <1>2, PlainCompiled

(* A parameter in brackets is compiled to its place. *)
LEMMA Bracketed ==
  ASSUME NEW S, NEW s \in Seq(S), NEW t \in Seq(S), Len(s) = Len(t), NEW ps,
         \A i \in 1 .. Len(s) : i > 1 /\ s[i] = "arg" => t[i] = "_",
         \A i \in 1 .. Len(s) : ~(i > 1 /\ s[i] = "arg") => t[i] = s[i]
  PROVE  Compiled(Signature(s, ps)) = Signature(t, ps)
  <1>1. DOMAIN s = 1 .. Len(s) /\ t = [i \in 1 .. Len(s) |-> t[i]]
    BY LenProperties
  <1>2. [i \in DOMAIN s |-> IF i > 1 /\ s[i] = "arg" THEN "_" ELSE s[i]] = t
    BY <1>1
  <1> QED
    BY <1>2 DEF Compiled, Signature

(* The facts about a text of three symbols that the provers need.          *)
LEMMA Triple ==
  ASSUME NEW a, NEW b, NEW c
  PROVE  /\ Len(<<a, b, c>>) = 3
         /\ <<a, b, c>>[1] = a
         /\ <<a, b, c>>[2] = b
         /\ <<a, b, c>>[3] = c
         /\ Head(<<a, b, c>>) = a
         /\ \A S : {a, b, c} \subseteq S => <<a, b, c>> \in Seq(S)
  OBVIOUS

(* The same of four symbols.                                              *)
LEMMA Quadruple ==
  ASSUME NEW a, NEW b, NEW c, NEW d
  PROVE  /\ Len(<<a, b, c, d>>) = 4
         /\ <<a, b, c, d>>[1] = a
         /\ <<a, b, c, d>>[2] = b
         /\ <<a, b, c, d>>[3] = c
         /\ <<a, b, c, d>>[4] = d
         /\ Head(<<a, b, c, d>>) = a
         /\ \A S : {a, b, c, d} \subseteq S => <<a, b, c, d>> \in Seq(S)
  OBVIOUS

(* The compiled signature of [arg].                                        *)
LEMMA ThreeSymbols ==
  ASSUME NEW a, NEW c, c # "arg", NEW ps
  PROVE  /\ Compiled(Signature(<<a, "arg", c>>, ps)) = Signature(<<a, "_", c>>, ps)
         /\ Head(<<a, "_", c>>) = a
  <1>1. PICK b, u : b = "arg" /\ u = "_"
    OBVIOUS
  <1>2. PICK s, t, S : s = <<a, b, c>> /\ t = <<a, u, c>> /\ S = {a, b, c, u}
    OBVIOUS
  <1>3. /\ Len(s) = 3 /\ s \in Seq(S)
        /\ s[1] = a /\ s[2] = b /\ s[3] = c
    BY <1>2, Triple
  <1>4. /\ Len(t) = 3 /\ t \in Seq(S) /\ Head(t) = a
        /\ t[1] = a /\ t[2] = u /\ t[3] = c
    BY <1>2, Triple
  <1>5. ASSUME NEW i \in 1 .. Len(s)
        PROVE  /\ i > 1 /\ s[i] = "arg" => t[i] = "_"
               /\ ~(i > 1 /\ s[i] = "arg") => t[i] = s[i]
    <2>1. i = 1 \/ i = 2 \/ i = 3
      BY <1>3
    <2>2. CASE i = 1
      <3>1. ~(i > 1) /\ t[i] = s[i]
        BY <2>2, <1>3, <1>4
      <3> QED
        BY <3>1
    <2>3. CASE i = 2
      <3>1. i > 1 /\ s[i] = b /\ t[i] = u
        BY <2>3, <1>3, <1>4
      <3> QED
        BY <3>1, <1>1
    <2>4. CASE i = 3
      <3>1. s[i] = c /\ t[i] = c
        BY <2>4, <1>3, <1>4
      <3> QED
        BY <3>1
    <2> QED
      BY <2>1, <2>2, <2>3, <2>4
  <1>6. Compiled(Signature(s, ps)) = Signature(t, ps)
    <2>1. Len(s) = Len(t)
      BY <1>3, <1>4
    <2>2. \A i \in 1 .. Len(s) : i > 1 /\ s[i] = "arg" => t[i] = "_"
      BY <1>5
    <2>3. \A i \in 1 .. Len(s) : ~(i > 1 /\ s[i] = "arg") => t[i] = s[i]
      BY <1>5
    <2>4. s \in Seq(S) /\ t \in Seq(S)
      BY <1>3, <1>4
    <2> QED
      BY <2>1, <2>2, <2>3, <2>4, Bracketed
  <1>7. s = <<a, "arg", c>> /\ t = <<a, "_", c>>
    BY <1>1, <1>2
  <1> QED
    BY <1>4, <1>6, <1>7

(* The compiled signature of [arg]=(_).                                    *)
LEMMA FourSymbols ==
  /\ Compiled(Signature(<<"[", "arg", "]", "=">>, List(1))) = Signature(<<"[", "_", "]", "=">>, List(1))
  /\ Head(<<"[", "_", "]", "=">>) = "["
  <1>1. PICK a, b, u, c, d, ps :
          a = "[" /\ b = "arg" /\ u = "_" /\ c = "]" /\ d = "=" /\ ps = List(1)
    OBVIOUS
  <1>2. PICK s, t, S : s = <<a, b, c, d>> /\ t = <<a, u, c, d>> /\ S = {a, b, c, d, u}
    OBVIOUS
  <1>3. /\ Len(s) = 4 /\ s \in Seq(S)
        /\ s[1] = a /\ s[2] = b /\ s[3] = c /\ s[4] = d
    BY <1>2, Quadruple
  <1>4. /\ Len(t) = 4 /\ t \in Seq(S) /\ Head(t) = a
        /\ t[1] = a /\ t[2] = u /\ t[3] = c /\ t[4] = d
    BY <1>2, Quadruple
  <1>5. ASSUME NEW i \in 1 .. Len(s)
        PROVE  /\ i > 1 /\ s[i] = "arg" => t[i] = "_"
               /\ ~(i > 1 /\ s[i] = "arg") => t[i] = s[i]
    <2>1. i = 1 \/ i = 2 \/ i = 3 \/ i = 4
      BY <1>3
    <2>2. CASE i = 1
      <3>1. ~(i > 1) /\ t[i] = s[i]
        BY <2>2, <1>3, <1>4
      <3> QED
        BY <3>1, <1>1
    <2>3. CASE i = 2
      <3>1. i > 1 /\ s[i] = b /\ t[i] = u
        BY <2>3, <1>3, <1>4
      <3> QED
        BY <3>1, <1>1
    <2>4. CASE i = 3
      <3>1. s[i] = c /\ t[i] = c
        BY <2>4, <1>3, <1>4
      <3> QED
        BY <3>1, <1>1
    <2>5. CASE i = 4
      <3>1. s[i] = d /\ t[i] = d
        BY <2>5, <1>3, <1>4
      <3> QED
        BY <3>1, <1>1
    <2> QED
      BY <2>1, <2>2, <2>3, <2>4, <2>5
  <1>6. Compiled(Signature(s, ps)) = Signature(t, ps)
    <2>1. Len(s) = Len(t)
      BY <1>3, <1>4
    <2>2. \A i \in 1 .. Len(s) : i > 1 /\ s[i] = "arg" => t[i] = "_"
      BY <1>5
    <2>3. \A i \in 1 .. Len(s) : ~(i > 1 /\ s[i] = "arg") => t[i] = s[i]
      BY <1>5
    <2>4. s \in Seq(S) /\ t \in Seq(S)
      BY <1>3, <1>4
    <2> QED
      BY <2>1, <2>2, <2>3, <2>4, Bracketed
  <1>7. s = <<"[", "arg", "]", "=">> /\ t = <<"[", "_", "]", "=">>
    BY <1>1, <1>2
  <1> QED
    BY <1>1, <1>4, <1>6, <1>7

(* An operator is declared so that Wren compiles it to the key it is kept  *)
(* under, and the key begins like an operator (foreign.hpp:274-362).       *)
LEMMA OperatorsFound ==
  ASSUME NEW op \in Operator
  PROVE  /\ Compiled(OperatorDeclaration[op]) = OperatorKey[op]
         /\ Head(OperatorKey[op].text) \in OperatorLead
  <1>0. /\ "[" \in OperatorLead
        /\ "]" # "arg"
        /\ "=" # "arg"
    BY DEF OperatorLead
  <1>1. CASE op = "GET_INDEX"
    <2>1. OperatorDeclaration[op] = Signature(<<"[", "arg", "]">>, NoList)
      BY <1>1 DEF OperatorDeclaration
    <2>2. OperatorKey[op] = Signature(<<"[", "_", "]">>, NoList)
      BY <1>1 DEF OperatorKey
    <2>3. /\ Compiled(Signature(<<"[", "arg", "]">>, NoList)) = Signature(<<"[", "_", "]">>, NoList)
          /\ Head(<<"[", "_", "]">>) = "["
      BY <1>0, ThreeSymbols
    <2>4. Signature(<<"[", "_", "]">>, NoList).text = <<"[", "_", "]">>
      BY DEF Signature
    <2> QED
      BY <2>1, <2>2, <2>3, <2>4, <1>0
  <1>2. CASE op = "SET_INDEX"
    <2>1. OperatorDeclaration[op] = Signature(<<"[", "arg", "]", "=">>, List(1))
      BY <1>2 DEF OperatorDeclaration
    <2>2. OperatorKey[op] = Signature(<<"[", "_", "]", "=">>, List(1))
      BY <1>2 DEF OperatorKey
    <2>3. /\ Compiled(Signature(<<"[", "arg", "]", "=">>, List(1))) = Signature(<<"[", "_", "]", "=">>, List(1))
          /\ Head(<<"[", "_", "]", "=">>) = "["
      BY FourSymbols
    <2>4. Signature(<<"[", "_", "]", "=">>, List(1)).text = <<"[", "_", "]", "=">>
      BY DEF Signature
    <2> QED
      BY <2>1, <2>2, <2>3, <2>4, <1>0
  <1>3. ASSUME NEW x \in OperatorLead, NEW ps,
               OperatorDeclaration[op] = Signature(<<x>>, ps),
               OperatorKey[op] = Signature(<<x>>, ps)
        PROVE  /\ Compiled(OperatorDeclaration[op]) = OperatorKey[op]
               /\ Head(OperatorKey[op].text) \in OperatorLead
    BY <1>3, OneSymbol DEF Signature
  <1>4. ASSUME NEW x \in OperatorLead, NEW y, y # "arg", NEW ps,
               OperatorDeclaration[op] = Signature(<<x, y>>, ps),
               OperatorKey[op] = Signature(<<x, y>>, ps)
        PROVE  /\ Compiled(OperatorDeclaration[op]) = OperatorKey[op]
               /\ Head(OperatorKey[op].text) \in OperatorLead
    BY <1>4, TwoSymbols DEF Signature
  <1>5. CASE op = "ADD"
    <2>1. "+" \in OperatorLead
      BY DEF OperatorLead
    <2>2. OperatorDeclaration[op] = Signature(<<"+">>, List(1))
      BY <1>5 DEF OperatorDeclaration
    <2>3. OperatorKey[op] = Signature(<<"+">>, List(1))
      BY <1>5 DEF OperatorKey
    <2> QED
      BY <2>1, <2>2, <2>3, <1>3
  <1>6. CASE op = "SUB"
    <2>1. "-" \in OperatorLead
      BY DEF OperatorLead
    <2>2. OperatorDeclaration[op] = Signature(<<"-">>, List(1))
      BY <1>6 DEF OperatorDeclaration
    <2>3. OperatorKey[op] = Signature(<<"-">>, List(1))
      BY <1>6 DEF OperatorKey
    <2> QED
      BY <2>1, <2>2, <2>3, <1>3
  <1>7. CASE op = "DIV"
    <2>1. "/" \in OperatorLead
      BY DEF OperatorLead
    <2>2. OperatorDeclaration[op] = Signature(<<"/">>, List(1))
      BY <1>7 DEF OperatorDeclaration
    <2>3. OperatorKey[op] = Signature(<<"/">>, List(1))
      BY <1>7 DEF OperatorKey
    <2> QED
      BY <2>1, <2>2, <2>3, <1>3
  <1>8. CASE op = "MUL"
    <2>1. "*" \in OperatorLead
      BY DEF OperatorLead
    <2>2. OperatorDeclaration[op] = Signature(<<"*">>, List(1))
      BY <1>8 DEF OperatorDeclaration
    <2>3. OperatorKey[op] = Signature(<<"*">>, List(1))
      BY <1>8 DEF OperatorKey
    <2> QED
      BY <2>1, <2>2, <2>3, <1>3
  <1>9. CASE op = "MOD"
    <2>1. "%" \in OperatorLead
      BY DEF OperatorLead
    <2>2. OperatorDeclaration[op] = Signature(<<"%">>, List(1))
      BY <1>9 DEF OperatorDeclaration
    <2>3. OperatorKey[op] = Signature(<<"%">>, List(1))
      BY <1>9 DEF OperatorKey
    <2> QED
      BY <2>1, <2>2, <2>3, <1>3
  <1>10. CASE op = "NEG"
    <2>1. "-" \in OperatorLead
      BY DEF OperatorLead
    <2>2. OperatorDeclaration[op] = Signature(<<"-">>, NoList)
      BY <1>10 DEF OperatorDeclaration
    <2>3. OperatorKey[op] = Signature(<<"-">>, NoList)
      BY <1>10 DEF OperatorKey
    <2> QED
      BY <2>1, <2>2, <2>3, <1>3
  <1>11. CASE op = "GT"
    <2>1. ">" \in OperatorLead
      BY DEF OperatorLead
    <2>2. OperatorDeclaration[op] = Signature(<<">">>, List(1))
      BY <1>11 DEF OperatorDeclaration
    <2>3. OperatorKey[op] = Signature(<<">">>, List(1))
      BY <1>11 DEF OperatorKey
    <2> QED
      BY <2>1, <2>2, <2>3, <1>3
  <1>12. CASE op = "LT"
    <2>1. "<" \in OperatorLead
      BY DEF OperatorLead
    <2>2. OperatorDeclaration[op] = Signature(<<"<">>, List(1))
      BY <1>12 DEF OperatorDeclaration
    <2>3. OperatorKey[op] = Signature(<<"<">>, List(1))
      BY <1>12 DEF OperatorKey
    <2> QED
      BY <2>1, <2>2, <2>3, <1>3
  <1>13. CASE op = "AND"
    <2>1. "&" \in OperatorLead
      BY DEF OperatorLead
    <2>2. OperatorDeclaration[op] = Signature(<<"&">>, List(1))
      BY <1>13 DEF OperatorDeclaration
    <2>3. OperatorKey[op] = Signature(<<"&">>, List(1))
      BY <1>13 DEF OperatorKey
    <2> QED
      BY <2>1, <2>2, <2>3, <1>3
  <1>14. CASE op = "XOR"
    <2>1. "^" \in OperatorLead
      BY DEF OperatorLead
    <2>2. OperatorDeclaration[op] = Signature(<<"^">>, List(1))
      BY <1>14 DEF OperatorDeclaration
    <2>3. OperatorKey[op] = Signature(<<"^">>, List(1))
      BY <1>14 DEF OperatorKey
    <2> QED
      BY <2>1, <2>2, <2>3, <1>3
  <1>15. CASE op = "OR"
    <2>1. "|" \in OperatorLead
      BY DEF OperatorLead
    <2>2. OperatorDeclaration[op] = Signature(<<"|">>, List(1))
      BY <1>15 DEF OperatorDeclaration
    <2>3. OperatorKey[op] = Signature(<<"|">>, List(1))
      BY <1>15 DEF OperatorKey
    <2> QED
      BY <2>1, <2>2, <2>3, <1>3
  <1>16. CASE op = "EQUAL"
    <2>1. "=" \in OperatorLead /\ "=" # "arg"
      BY DEF OperatorLead
    <2>2. OperatorDeclaration[op] = Signature(<<"=", "=">>, List(1))
      BY <1>16 DEF OperatorDeclaration
    <2>3. OperatorKey[op] = Signature(<<"=", "=">>, List(1))
      BY <1>16 DEF OperatorKey
    <2> QED
      BY <2>1, <2>2, <2>3, <1>4
  <1>17. CASE op = "NOT_EQUAL"
    <2>1. "!" \in OperatorLead /\ "=" # "arg"
      BY DEF OperatorLead
    <2>2. OperatorDeclaration[op] = Signature(<<"!", "=">>, List(1))
      BY <1>17 DEF OperatorDeclaration
    <2>3. OperatorKey[op] = Signature(<<"!", "=">>, List(1))
      BY <1>17 DEF OperatorKey
    <2> QED
      BY <2>1, <2>2, <2>3, <1>4
  <1>18. CASE op = "GT_EQUAL"
    <2>1. ">" \in OperatorLead /\ "=" # "arg"
      BY DEF OperatorLead
    <2>2. OperatorDeclaration[op] = Signature(<<">", "=">>, List(1))
      BY <1>18 DEF OperatorDeclaration
    <2>3. OperatorKey[op] = Signature(<<">", "=">>, List(1))
      BY <1>18 DEF OperatorKey
    <2> QED
      BY <2>1, <2>2, <2>3, <1>4
  <1>19. CASE op = "LT_EQUAL"
    <2>1. "<" \in OperatorLead /\ "=" # "arg"
      BY DEF OperatorLead
    <2>2. OperatorDeclaration[op] = Signature(<<"<", "=">>, List(1))
      BY <1>19 DEF OperatorDeclaration
    <2>3. OperatorKey[op] = Signature(<<"<", "=">>, List(1))
      BY <1>19 DEF OperatorKey
    <2> QED
      BY <2>1, <2>2, <2>3, <1>4
  <1>20. CASE op = "SHIFT_LEFT"
    <2>1. "<" \in OperatorLead /\ "<" # "arg"
      BY DEF OperatorLead
    <2>2. OperatorDeclaration[op] = Signature(<<"<", "<">>, List(1))
      BY <1>20 DEF OperatorDeclaration
    <2>3. OperatorKey[op] = Signature(<<"<", "<">>, List(1))
      BY <1>20 DEF OperatorKey
    <2> QED
      BY <2>1, <2>2, <2>3, <1>4
  <1>21. CASE op = "SHIFT_RIGHT"
    <2>1. ">" \in OperatorLead /\ ">" # "arg"
      BY DEF OperatorLead
    <2>2. OperatorDeclaration[op] = Signature(<<">", ">">>, List(1))
      BY <1>21 DEF OperatorDeclaration
    <2>3. OperatorKey[op] = Signature(<<">", ">">>, List(1))
      BY <1>21 DEF OperatorKey
    <2> QED
      BY <2>1, <2>2, <2>3, <1>4
  <1> QED
    BY <1>1, <1>2, <1>5, <1>6, <1>7, <1>8, <1>9, <1>10, <1>11, <1>12, <1>13, <1>14, <1>15, <1>16, <1>17, <1>18, <1>19, <1>20, <1>21 DEF Operator, OperatorDeclaration
----------------------------------------------------------------------------
(* The search takes a signature for that of a method, by its first symbol  *)
(* or because it has a list of parameters and is not that of a setter.     *)
SoughtAsMethod(s) ==
  \/ Head(s.text) \in OperatorLead
  \/ s.params # NoList /\ ~LooksLikeSetter(s)

(* What a class has to keep for its members to be found: methods under the *)
(* compiled form of their declaration, and properties with names that do   *)
(* not begin like an operator.  Methods named as setters are not sought as *)
(* methods.                                                                *)
MethodsFit(k) ==
  \A key \in DOMAIN k.methods :
    /\ Compiled(k.methods[key].declaration) = key
    /\ SoughtAsMethod(key) \/ NamedAsSetter(k.methods[key].function)

PropsFit(k) == \A n \in DOMAIN k.props : n \notin OperatorLead

(* The declaration of a method is its key, and is sought as one unless its *)
(* name is that of a setter, even if the name is arg.                      *)
LEMMA MethodSought ==
  ASSUME NEW x, x \notin OperatorLead, NEW name \in {<<x>>, <<x, "=">>}, NEW n
  PROVE  /\ Compiled(MethodKey(name, n)) = MethodKey(name, n)
         /\ SoughtAsMethod(MethodKey(name, n)) \/ SetterNamed(name)
  <1>1. CASE name = <<x>>
    <2>1. Compiled(MethodKey(name, n)) = MethodKey(name, n)
      BY <1>1, OneSymbol DEF MethodKey
    <2>2. MethodKey(name, n).text = <<x>> /\ MethodKey(name, n).params = <<n>>
      BY <1>1 DEF MethodKey, Signature, List
    <2>3. Last(<<x>>) = x
      BY DEF Last
    <2>4. <<n>> # NoList
      BY DEF NoList
    <2>5. "=" \in OperatorLead
      BY DEF OperatorLead
    <2> QED
      BY <2>1, <2>2, <2>3, <2>4, <2>5 DEF SoughtAsMethod, LooksLikeSetter
  <1>2. CASE name = <<x, "=">>
    <2>1. PICK e : e = "="
      OBVIOUS
    <2>2. e # "arg"
      BY <2>1
    <2>3. Compiled(Signature(<<x, e>>, List(n))) = Signature(<<x, e>>, List(n))
      BY <2>2, TwoSymbols
    <2>4. Last(<<x, e>>) = e
      BY DEF Last
    <2> QED
      BY <1>2, <2>1, <2>3, <2>4 DEF MethodKey, SetterNamed
  <1> QED
    BY <1>1, <1>2

(* So is the key of an operator. *)
LEMMA OperatorSought ==
  ASSUME NEW op \in Operator
  PROVE  /\ Compiled(OperatorDeclaration[op]) = OperatorKey[op]
         /\ SoughtAsMethod(OperatorKey[op])
  BY OperatorsFound DEF SoughtAsMethod

(* A getter is found as the getter of its property. *)
LEMMA GetterFound ==
  ASSUME NEW k, NEW n \in DOMAIN k.props, n \notin OperatorLead
  PROVE  FindSignature(k, Compiled(Getter(n)), FALSE) = k.props[n].getter
  <1>1. Compiled(Getter(n)) = Getter(n)
    BY OneSymbol DEF Getter
  <1>2. Getter(n).text = <<n>> /\ Getter(n).params = NoList
    BY DEF Getter, Signature
  <1>3. Head(<<n>>) = n
    OBVIOUS
  <1> QED
    BY <1>1, <1>2, <1>3 DEF FindSignature, FindProp

(* A setter is found as the setter of its property. *)
LEMMA SetterFound ==
  ASSUME NEW k, NEW n \in DOMAIN k.props, n \notin OperatorLead
  PROVE  FindSignature(k, Compiled(Setter(n)), FALSE) = k.props[n].setter
  <1>1. PICK e : e = "="
    OBVIOUS
  <1>2. e # "arg"
    BY <1>1
  <1>3. Compiled(Signature(<<n, e>>, List(1))) = Signature(<<n, e>>, List(1))
    BY <1>2, TwoSymbols
  <1>4. Compiled(Setter(n)) = Setter(n)
    BY <1>1, <1>3 DEF Setter
  <1>5. Setter(n).text = <<n, e>> /\ Setter(n).params = List(1)
    BY <1>1 DEF Setter, Signature
  <1>6. Head(<<n, e>>) = n /\ Last(<<n, e>>) = e
    BY DEF Last
  <1>7. List(1) # NoList
    BY DEF List, NoList
  <1>8. LooksLikeSetter(Setter(n))
    BY <1>1, <1>5, <1>6 DEF LooksLikeSetter
  <1> QED
    BY <1>4, <1>5, <1>6, <1>7, <1>8 DEF FindSignature, FindProp

(* Everything that is declared for a class which keeps its members so is   *)
(* bound to the function it was declared for, if it is not named as a      *)
(* setter.                                                                 *)
LEMMA BoundAsDeclared ==
  ASSUME NEW k, MethodsFit(k), PropsFit(k)
  PROVE  \A d \in Declared(k) :
           \/ FindSignature(k, Compiled(d.declaration), d.static) = d.function
           \/ NamedAsSetter(d.function)
  <1> TAKE d \in Declared(k)
  <1>1. ASSUME NEW key \in DOMAIN k.methods,
               d = [declaration |-> k.methods[key].declaration,
                    static |-> k.methods[key].static, function |-> k.methods[key].function]
        PROVE  \/ FindSignature(k, Compiled(d.declaration), d.static) = d.function
               \/ NamedAsSetter(d.function)
    <2>1. Compiled(d.declaration) = key /\ (SoughtAsMethod(key) \/ NamedAsSetter(d.function))
      BY <1>1 DEF MethodsFit
    <2>2. SoughtAsMethod(key) => FindSignature(k, key, d.static) = FindFunc(k, key, d.static)
      BY <2>1 DEF FindSignature, SoughtAsMethod
    <2>3. FindFunc(k, key, d.static) = d.function
      BY <1>1 DEF FindFunc
    <2> QED
      BY <2>1, <2>2, <2>3
  <1>2. ASSUME NEW n \in DOMAIN k.props,
               d = [declaration |-> Getter(n), static |-> FALSE,
                    function |-> k.props[n].getter]
        PROVE  FindSignature(k, Compiled(d.declaration), d.static) = d.function
    <2>1. n \notin OperatorLead
      BY DEF PropsFit
    <2>2. d.declaration = Getter(n) /\ d.static = FALSE /\ d.function = k.props[n].getter
      BY <1>2
    <2> QED
      BY <2>1, <2>2, GetterFound
  <1>3. ASSUME NEW n \in DOMAIN k.props,
               d = [declaration |-> Setter(n), static |-> FALSE,
                    function |-> k.props[n].setter]
        PROVE  FindSignature(k, Compiled(d.declaration), d.static) = d.function
    <2>1. n \notin OperatorLead
      BY DEF PropsFit
    <2>2. d.declaration = Setter(n) /\ d.static = FALSE /\ d.function = k.props[n].setter
      BY <1>3
    <2> QED
      BY <2>1, <2>2, SetterFound
  <1> QED
    BY <1>1, <1>2, <1>3 DEF Declared
----------------------------------------------------------------------------
(* Classes, objects and members. *)

(* Only klass() touches the types and casts of a VM. *)
LEMMA OtherSteps ==
  ASSUME Next
  PROVE  \/ UNCHANGED <<types, casts>>
         \/ \E m \in Module, n \in Name, t \in Type :
              \E bases \in SUBSET {b \in Type : <<t, b>> \in Base} : Klass(m, n, t, bases)
  <1> SUFFICES ASSUME ~ \E m \in Module, n \in Name, t \in Type :
                          \E bases \in SUBSET {b \in Type : <<t, b>> \in Base} :
                            Klass(m, n, t, bases)
               PROVE  UNCHANGED <<types, casts>>
    OBVIOUS
  <1>1. CASE Registration
    <2>1. CASE \E m \in Module : GetModule(m)
      BY <2>1 DEF GetModule
    <2>2. ASSUME NEW m, NEW n, NEW k, Describe(m, n, k)
          PROVE  UNCHANGED <<types, casts>>
      BY <2>2 DEF Describe
    <2>3. CASE \E m \in DOMAIN klasses : \E n \in DOMAIN klasses[m] : Ctor(m, n)
      BY <2>3, <2>2 DEF Ctor
    <2>4. CASE \E m, n, name, p, r : Func(m, n, name, p, r)
      BY <2>4, <2>2 DEF Func
    <2>5. CASE \E m, n, op, r : FuncOperator(m, n, op, r)
      BY <2>5, <2>2 DEF FuncOperator
    <2>6. CASE \E m, n, name, readonly, r : Prop(m, n, name, readonly, r)
      BY <2>6, <2>2 DEF Prop
    <2> QED
      BY <1>1, <2>1, <2>3, <2>4, <2>5, <2>6 DEF Registration
  <1>2. CASE Use
    BY <1>2 DEF Use, Import, Construct, Push, Pop, Call
  <1> QED
    BY <1>1, <1>2 DEF Next
----------------------------------------------------------------------------
(* The casts there are lead from a type to a base of it: this makes        *)
(* TypeSafe inductive.                                                     *)
CastsKnown == casts \subseteq Base

CastsSafe == CastsKnown /\ TypeSafe

(* The casts of a klass call are of a listed base each. *)
LEMMA CastsStep ==
  ASSUME CastsKnown, [Next]_vars
  PROVE  CastsKnown'
  <1>1. CASE Next
    <2>1. CASE UNCHANGED <<types, casts>>
      BY <2>1 DEF CastsKnown
    <2>2. ASSUME NEW m \in Module, NEW n \in Name, NEW t \in Type,
                 NEW bases \in SUBSET {b \in Type : <<t, b>> \in Base},
                 Klass(m, n, t, bases)
          PROVE  CastsKnown'
      <3>1. casts' = casts \cup {t} \X bases
        BY <2>2 DEF Klass, ListedCasts
      <3>2. {t} \X bases \subseteq Base
        OBVIOUS
      <3> QED
        BY <3>1, <3>2 DEF CastsKnown
    <2> QED
      BY <1>1, <2>1, <2>2, OtherSteps
  <1>2. CASE UNCHANGED vars
    BY <1>2 DEF vars, CastsKnown
  <1> QED
    BY <1>1, <1>2

(* Only a pop or a call reads an object, and where a cast leads. *)
LEMMA OutcomeStep ==
  ASSUME CastsKnown, Next
  PROVE  TypeSafe'
  <1>1. ASSUME NEW op, NEW result, Done(op, result), op \notin {"pop", "call"}
        PROVE  TypeSafe'
    BY <1>1 DEF Done, TypeSafe
  <1>2. ASSUME NEW m, NEW n, NEW k, Describe(m, n, k)
        PROVE  TypeSafe'
    BY <1>2, <1>1 DEF Describe
  <1>3. CASE Registration
    <2>1. CASE \E m \in Module : GetModule(m)
      BY <2>1, <1>1 DEF GetModule
    <2>2. CASE \E m, n, t, bases : Klass(m, n, t, bases)
      BY <2>2, <1>1 DEF Klass
    <2>3. CASE \E m, n : Ctor(m, n)
      BY <2>3, <1>2 DEF Ctor
    <2>4. CASE \E m, n, name, p, r : Func(m, n, name, p, r)
      BY <2>4, <1>2 DEF Func
    <2>5. CASE \E m, n, op, r : FuncOperator(m, n, op, r)
      BY <2>5, <1>2 DEF FuncOperator
    <2>6. CASE \E m, n, name, readonly, r : Prop(m, n, name, readonly, r)
      BY <2>6, <1>2 DEF Prop
    <2> QED
      BY <1>3, <2>1, <2>2, <2>3, <2>4, <2>5, <2>6 DEF Registration
  <1>4. CASE \E m \in Module : Import(m)
    BY <1>4, <1>1 DEF Import
  <1>5. CASE \E c \in ClassAt : Construct(c)
    BY <1>5, <1>1 DEF Construct
  <1>6. CASE \E t \in Type : Push(t)
    BY <1>6, <1>1 DEF Push
  <1>7. ASSUME NEW i, NEW u, Pop(i, u)
        PROVE  TypeSafe'
    BY <1>7 DEF Pop, CanCast, TypeSafe, CastsKnown
  <1>8. ASSUME NEW i, NEW f, Call(i, f)
        PROVE  TypeSafe'
    BY <1>8 DEF Call, CanCast, TypeSafe, CastsKnown
  <1> QED
    BY <1>3, <1>4, <1>5, <1>6, <1>7, <1>8 DEF Next, Use

(* No object is read as a type that it is not, in whatever order an        *)
(* application registers, imports and uses its classes (pop.hpp:165-191).  *)
THEOREM NeverMisread == Spec => []TypeSafe
  <1>1. Init => CastsSafe
    BY DEF Init, CastsSafe, CastsKnown, TypeSafe
  <1>2. CastsSafe /\ [Next]_vars => CastsSafe'
    <2> SUFFICES ASSUME CastsSafe, [Next]_vars
                 PROVE  CastsSafe'
      OBVIOUS
    <2>1. CastsKnown'
      BY CastsStep DEF CastsSafe
    <2>2. CASE Next
      BY <2>1, <2>2, OutcomeStep DEF CastsSafe
    <2>3. CASE UNCHANGED vars
      BY <2>1, <2>3 DEF vars, CastsSafe, TypeSafe
    <2> QED
      BY <2>2, <2>3
  <1>3. CastsSafe => TypeSafe
    BY DEF CastsSafe
  <1> QED
    BY <1>1, <1>2, <1>3, PTL DEF Spec
----------------------------------------------------------------------------
(* What ties an object to the class its finaliser is taken from: a class   *)
(* keeps its type from klass() on, an import copies it, and where no name  *)
(* is given twice the entry of a type leads to the class of that type.     *)
KlassShape ==
  /\ DOMAIN klasses \subseteq Module
  /\ \A m \in DOMAIN klasses :
       /\ DOMAIN klasses[m] \subseteq Name
       /\ \A n \in DOMAIN klasses[m] :
            "type" \in DOMAIN klasses[m][n] /\ klasses[m][n].type \in Type

TypesFollow ==
  \A t \in DOMAIN types :
    /\ Registered(types[t])
    /\ klasses[types[t][1]][types[t][2]].type = t

(* And that of a class's type leads to the class. *)
ClassesFollow ==
  \A c \in ClassAt :
    Registered(c) =>
      LET t == klasses[c[1]][c[2]].type IN t \in DOMAIN types /\ types[t] = c

(* Types lead to names of classes, whether or not one is given twice. *)
TypesNamed == \A t \in DOMAIN types : types[t] \in ClassAt

ScopeFollows ==
  \A c \in ClassAt :
    InScope(c) => Registered(c) /\ scope[c[1]][c[2]].type = klasses[c[1]][c[2]].type

InstancesFit ==
  \A i \in instances :
    /\ i.class \in ClassAt /\ InScope(i.class)
    /\ Careful("one name") => scope[i.class[1]][i.class[2]].type = i.type

Registry ==
  /\ KlassShape
  /\ TypesNamed
  /\ Careful("one name") => TypesFollow /\ ClassesFollow
  /\ ScopeFollows
  /\ InstancesFit

(* No step takes a class from a module or gives it another type, and a new *)
(* one has a type.                                                         *)
LEMMA KlassesGrow ==
  ASSUME KlassShape, Next
  PROVE  /\ KlassShape'
         /\ \A c : Registered(c) => /\ Registered(c)'
                                    /\ klasses'[c[1]][c[2]].type = klasses[c[1]][c[2]].type
  <1> DEFINE Goal == /\ KlassShape'
                     /\ \A c : Registered(c) =>
                          /\ Registered(c)'
                          /\ klasses'[c[1]][c[2]].type = klasses[c[1]][c[2]].type
  <1>1. CASE UNCHANGED klasses
    BY <1>1 DEF KlassShape, Registered
  <1>2. ASSUME NEW m \in Module, klasses' = Extend(klasses, m, None)
        PROVE  Goal
    BY <1>2 DEF Extend, KlassShape, Registered, None
  <1>3. ASSUME NEW m \in DOMAIN klasses, NEW n \in Name, NEW t \in Type,
               klasses' = [klasses EXCEPT ![m] = Extend(@, n, NewKlass(t))]
        PROVE  Goal
    <2>1. "type" \in DOMAIN NewKlass(t) /\ NewKlass(t).type = t
      BY DEF NewKlass
    <2>2. /\ DOMAIN klasses' = DOMAIN klasses
          /\ \A k \in DOMAIN klasses \ {m} : klasses'[k] = klasses[k]
          /\ DOMAIN klasses'[m] = DOMAIN klasses[m] \cup {n}
          /\ \A k \in DOMAIN klasses[m] : klasses'[m][k] = klasses[m][k]
          /\ n \notin DOMAIN klasses[m] => klasses'[m][n] = NewKlass(t)
      BY <1>3 DEF Extend
    <2>3. KlassShape'
      BY <2>1, <2>2 DEF KlassShape
    <2>4. ASSUME NEW c, Registered(c)
          PROVE  Registered(c)' /\ klasses'[c[1]][c[2]].type = klasses[c[1]][c[2]].type
      BY <2>2, <2>4 DEF Registered
    <2> QED
      BY <2>3, <2>4
  <1>4. ASSUME NEW m \in DOMAIN klasses, NEW n \in DOMAIN klasses[m], NEW k,
               Describe(m, n, k), "type" \in DOMAIN k, k.type = klasses[m][n].type
        PROVE  Goal
    <2>1. klasses' = [klasses EXCEPT ![m][n] = k]
      BY <1>4 DEF Describe
    <2> QED
      BY <1>4, <2>1 DEF KlassShape, Registered
  <1>5. CASE Registration
    <2>1. CASE \E m \in Module : GetModule(m)
      BY <1>2, <2>1 DEF GetModule
    <2>2. CASE \E n \in Name, t \in Type : \E m, bases : Klass(m, n, t, bases)
      BY <1>3, <2>2 DEF Klass
    <2>3. ASSUME NEW m \in DOMAIN klasses, NEW n \in DOMAIN klasses[m], Ctor(m, n)
          PROVE  Goal
      <3> DEFINE k == [klasses[m][n] EXCEPT !.ctor = TRUE]
      <3>1. "type" \in DOMAIN k /\ k.type = klasses[m][n].type
        BY DEF KlassShape
      <3>2. Describe(m, n, k)
        BY <2>3 DEF Ctor
      <3> HIDE DEF k
      <3> QED
        BY <1>4, <3>1, <3>2
    <2>4. ASSUME NEW m \in DOMAIN klasses, NEW n \in DOMAIN klasses[m],
                 NEW key, NEW d, NEW f, Describe(m, n, WithMethod(klasses[m][n], key, d, f))
          PROVE  Goal
      <3> DEFINE k == WithMethod(klasses[m][n], key, d, f)
      <3>1. "type" \in DOMAIN k /\ k.type = klasses[m][n].type
        BY DEF KlassShape, WithMethod
      <3> HIDE DEF k
      <3> QED
        BY <1>4, <2>4, <3>1 DEF k
    <2>5. ASSUME NEW m \in DOMAIN klasses, NEW n \in DOMAIN klasses[m],
                 NEW name, NEW readonly, NEW r, Prop(m, n, name, readonly, r)
          PROVE  Goal
      <3>1. PICK p : Describe(m, n, [klasses[m][n] EXCEPT !.props = p])
        BY <2>5 DEF Prop
      <3> DEFINE k == [klasses[m][n] EXCEPT !.props = p]
      <3>2. "type" \in DOMAIN k /\ k.type = klasses[m][n].type
        BY DEF KlassShape
      <3> HIDE DEF k
      <3> QED
        BY <1>4, <3>1, <3>2 DEF k
    <2> QED
      BY <1>5, <2>1, <2>2, <2>3, <2>4, <2>5 DEF Registration, Func, FuncOperator
  <1>6. CASE Use
    BY <1>1, <1>6 DEF Use, Import, Construct, Push, Pop, Call
  <1> QED
    BY <1>5, <1>6 DEF Next

(* Describing the classes of an application binds and makes nothing. *)
LEMMA DescribingBindsNothing ==
  ASSUME Registration
  PROVE  UNCHANGED <<scope, instances>>
  <1>1. CASE \E m \in Module : GetModule(m)
    BY <1>1 DEF GetModule
  <1>2. CASE \E m, n, t, bases : Klass(m, n, t, bases)
    BY <1>2 DEF Klass
  <1>3. ASSUME NEW m, NEW n, NEW k, Describe(m, n, k)
        PROVE  UNCHANGED <<scope, instances>>
    BY <1>3 DEF Describe
  <1>4. CASE \E m, n : Ctor(m, n)
    BY <1>4, <1>3 DEF Ctor
  <1>5. CASE \E m, n, name, p, r : Func(m, n, name, p, r)
    BY <1>5, <1>3 DEF Func
  <1>6. CASE \E m, n, op, r : FuncOperator(m, n, op, r)
    BY <1>6, <1>3 DEF FuncOperator
  <1>7. CASE \E m, n, name, readonly, r : Prop(m, n, name, readonly, r)
    BY <1>7, <1>3 DEF Prop
  <1> QED
    BY <1>1, <1>2, <1>4, <1>5, <1>6, <1>7 DEF Registration

(* Only an import touches what classes were bound to: unless Wren refuses  *)
(* its code, every class of the module is bound.                           *)
LEMMA OnlyImportsBind ==
  ASSUME Next
  PROVE  \/ UNCHANGED scope
         \/ \E m \in Module :
              /\ m \in DOMAIN klasses \ DOMAIN scope /\ UNCHANGED klasses
              /\ scope' = Extend(scope, m, [n \in DOMAIN klasses[m] |-> BoundClass(klasses[m][n])])
  <1>1. CASE Registration
    BY <1>1, DescribingBindsNothing
  <1>2. ASSUME NEW m \in Module, Import(m)
        PROVE  \/ UNCHANGED scope
               \/ /\ m \in DOMAIN klasses \ DOMAIN scope /\ UNCHANGED klasses
                  /\ scope' = Extend(scope, m, [n \in DOMAIN klasses[m] |-> BoundClass(klasses[m][n])])
    BY <1>2 DEF Import
  <1>3. CASE Use
    BY <1>2, <1>3 DEF Use, Construct, Push, Pop, Call
  <1> QED
    BY <1>1, <1>3 DEF Next

(* An import adds a module, and nothing that was bound is bound anew. *)
LEMMA ScopeGrows ==
  ASSUME Next
  PROVE  \A c : InScope(c) => InScope(c)' /\ scope'[c[1]][c[2]] = scope[c[1]][c[2]]
  <1>1. CASE UNCHANGED scope
    BY <1>1 DEF InScope
  <1>2. ASSUME NEW m, NEW v, scope' = Extend(scope, m, v)
        PROVE  \A c : InScope(c) => InScope(c)' /\ scope'[c[1]][c[2]] = scope[c[1]][c[2]]
    BY <1>2 DEF Extend, InScope
  <1> QED
    BY <1>1, <1>2, OnlyImportsBind

(* A class that an import brings into scope has the type it was given. *)
LEMMA ScopeStep ==
  ASSUME Registry, Next
  PROVE  ScopeFollows'
  <1>1. CASE UNCHANGED scope
    BY <1>1, KlassesGrow DEF Registry, ScopeFollows, InScope
  <1>2. ASSUME NEW m \in Module, m \in DOMAIN klasses \ DOMAIN scope, UNCHANGED klasses, NEW classes,
               classes = [n \in DOMAIN klasses[m] |-> BoundClass(klasses[m][n])],
               scope' = Extend(scope, m, classes)
        PROVE  ScopeFollows'
    <2>1. ASSUME NEW n \in DOMAIN classes
          PROVE  Registered(<<m, n>>) /\ classes[n].type = klasses[m][n].type
      BY <1>2, <2>1 DEF Registered, BoundClass
    <2>2. SUFFICES ASSUME NEW c \in ClassAt, InScope(c)'
                   PROVE  (Registered(c) /\ scope[c[1]][c[2]].type = klasses[c[1]][c[2]].type)'
      BY DEF ScopeFollows
    <2>3. CASE c[1] = m
      <3>1. scope'[m] = classes /\ c[2] \in DOMAIN classes
        BY <1>2, <2>2, <2>3 DEF Extend, InScope
      <3>2. Registered(c)
        BY <2>1, <2>3, <3>1 DEF Registered
      <3>3. Registered(c)'
        BY <1>2, <3>2 DEF Registered
      <3> QED
        BY <1>2, <2>1, <2>3, <3>1, <3>3
    <2>4. CASE c[1] # m
      <3>1. InScope(c) /\ scope'[c[1]] = scope[c[1]]
        BY <1>2, <2>2, <2>4 DEF Extend, InScope
      <3> QED
        BY <1>2, <3>1 DEF Registry, ScopeFollows, Registered
    <2> QED
      BY <2>3, <2>4
  <1> QED
    BY <1>1, <1>2, OnlyImportsBind

(* No class comes into a module but by klass(). *)
LEMMA OnlyKlassRegisters ==
  ASSUME Next
  PROVE  \/ \E m \in Module, n \in Name, t \in Type :
              \E bases \in SUBSET {b \in Type : <<t, b>> \in Base} : Klass(m, n, t, bases)
         \/ UNCHANGED types /\ \A c : Registered(c)' => Registered(c)
  <1> DEFINE Goal == \A c : Registered(c)' => Registered(c)
  <1>1. ASSUME UNCHANGED klasses
        PROVE  Goal
    BY <1>1 DEF Registered
  <1>2. ASSUME NEW m, GetModule(m)
        PROVE  Goal
    <2>1. klasses' = Extend(klasses, m, None) /\ DOMAIN None = {}
      BY <1>2 DEF GetModule, None
    <2> QED
      BY <2>1 DEF Extend, Registered
  <1>3. ASSUME NEW m \in DOMAIN klasses, NEW n \in DOMAIN klasses[m], NEW k, Describe(m, n, k)
        PROVE  Goal
    <2>1. klasses' = [klasses EXCEPT ![m][n] = k]
      BY <1>3 DEF Describe
    <2> QED
      BY <2>1 DEF Registered
  <1> HIDE DEF Goal
  <1>4. ASSUME NEW m \in DOMAIN klasses, NEW n \in DOMAIN klasses[m], Ctor(m, n)
        PROVE  Goal
    BY <1>3, <1>4 DEF Ctor
  <1>5. ASSUME NEW m \in DOMAIN klasses, NEW n \in DOMAIN klasses[m],
               NEW name, NEW p, NEW r, Func(m, n, name, p, r)
        PROVE  Goal
    BY <1>3, <1>5 DEF Func
  <1>6. ASSUME NEW m \in DOMAIN klasses, NEW n \in DOMAIN klasses[m],
               NEW op, NEW r, FuncOperator(m, n, op, r)
        PROVE  Goal
    BY <1>3, <1>6 DEF FuncOperator
  <1>7. ASSUME NEW m \in DOMAIN klasses, NEW n \in DOMAIN klasses[m],
               NEW name, NEW readonly, NEW r, Prop(m, n, name, readonly, r)
        PROVE  Goal
    BY <1>3, <1>7 DEF Prop
  <1>8. ASSUME ~ \E m \in Module, n \in Name, t \in Type :
                   \E bases \in SUBSET {b \in Type : <<t, b>> \in Base} : Klass(m, n, t, bases)
        PROVE  UNCHANGED types /\ Goal
    <2>1. UNCHANGED types
      BY <1>8, OtherSteps
    <2>2. CASE Registration
      <3>1. Goal
        BY <1>2, <1>4, <1>5, <1>6, <1>7, <1>8, <2>2 DEF Registration
      <3> QED
        BY <2>1, <3>1
    <2>3. CASE Use
      <3>1. UNCHANGED klasses
        BY <2>3 DEF Use, Import, Construct, Push, Pop, Call
      <3>2. Goal
        BY <1>1, <3>1
      <3> QED
        BY <2>1, <3>2
    <2> QED
      BY <2>2, <2>3 DEF Next
  <1> QED
    BY <1>8 DEF Goal

(* A class is where it is: a module and a name. *)
LEMMA ClassIsPair ==
  ASSUME NEW c \in ClassAt
  PROVE  c = <<c[1], c[2]>>
  BY DEF ClassAt

(* The class of a type that klass() enters is the only one of that type.   *)
LEMMA ClassesStep ==
  ASSUME Registry, Next, Careful("one name")
  PROVE  ClassesFollow'
  <1>1. CASE UNCHANGED types /\ \A c : Registered(c)' => Registered(c)
    BY <1>1, KlassesGrow DEF Registry, ClassesFollow
  <1>2. ASSUME NEW m \in Module, NEW n \in Name, NEW t \in Type, NEW bases,
               Klass(m, n, t, bases)
        PROVE  ClassesFollow'
    <2>1. types' = Extend(types, t, <<m, n>>) /\ t \notin DOMAIN types
      BY <1>2 DEF Klass
    <2>2. klasses' = [klasses EXCEPT ![m] = Extend(@, n, NewKlass(t))]
      BY <1>2 DEF Klass
    <2>3. m \in DOMAIN klasses /\ n \notin DOMAIN klasses[m]
      BY <1>2 DEF Klass
    <2>4. klasses'[m][n].type = t /\ t \in DOMAIN types' /\ types'[t] = <<m, n>>
      BY <2>1, <2>2, <2>3 DEF Extend, NewKlass
    <2>5. SUFFICES ASSUME NEW c \in ClassAt, Registered(c)', NEW u, u = klasses'[c[1]][c[2]].type
                   PROVE  u \in DOMAIN types' /\ types'[u] = c
      BY DEF ClassesFollow
    <2>6. CASE c[1] = m /\ c[2] = n
      <3>1. c = <<m, n>>
        BY <2>6, ClassIsPair
      <3> QED
        BY <2>4, <2>5, <2>6, <3>1
    <2>7. CASE ~(c[1] = m /\ c[2] = n)
      <3>1. Registered(c)
        BY <2>2, <2>3, <2>5, <2>7 DEF Registered, Extend
      <3>2. u = klasses[c[1]][c[2]].type
        BY <2>5, <3>1, KlassesGrow DEF Registry
      <3>3. u \in DOMAIN types /\ types[u] = c
        BY <3>1, <3>2 DEF Registry, ClassesFollow
      <3> QED
        BY <2>1, <3>3 DEF Extend
    <2> QED
      BY <2>6, <2>7
  <1> QED
    BY <1>1, <1>2, OnlyKlassRegisters

(* klass() enters a type together with its class, and nothing else does. *)
LEMMA TypesStep ==
  ASSUME Registry, Next, Careful("one name")
  PROVE  TypesFollow'
  <1>1. CASE UNCHANGED types
    BY <1>1, KlassesGrow DEF Registry, TypesFollow
  <1>2. ASSUME NEW m \in Module, NEW n \in Name, NEW t \in Type, NEW bases,
               Klass(m, n, t, bases)
        PROVE  TypesFollow'
    <2>1. types' = Extend(types, t, <<m, n>>)
      BY <1>2 DEF Klass
    <2>2. klasses' = [klasses EXCEPT ![m] = Extend(@, n, NewKlass(t))]
      BY <1>2 DEF Klass
    <2>3. m \in DOMAIN klasses /\ n \notin DOMAIN klasses[m]
      BY <1>2 DEF Klass
    <2>4. m \in DOMAIN klasses' /\ n \in DOMAIN klasses'[m] /\ klasses'[m][n].type = t
      BY <2>2, <2>3 DEF Extend, NewKlass
    <2>5. SUFFICES ASSUME NEW u \in DOMAIN types'
                   PROVE  (Registered(types[u]) /\ klasses[types[u][1]][types[u][2]].type = u)'
      BY DEF TypesFollow
    <2>6. CASE u \in DOMAIN types
      <3>1. types'[u] = types[u]
        BY <2>1, <2>6 DEF Extend
      <3> QED
        BY <2>6, <3>1, KlassesGrow DEF Registry, TypesFollow
    <2>7. CASE u \notin DOMAIN types
      <3>1. u = t /\ types'[u][1] = m /\ types'[u][2] = n
        BY <2>1, <2>5, <2>7 DEF Extend
      <3> QED
        BY <2>4, <3>1 DEF Registered
    <2> QED
      BY <2>6, <2>7
  <1> QED
    BY <1>1, <1>2, OtherSteps

(* The class of a type is one that can be named. *)
LEMMA NamesStep ==
  ASSUME TypesNamed, Next
  PROVE  TypesNamed'
  <1>1. CASE UNCHANGED types
    BY <1>1 DEF TypesNamed
  <1>2. ASSUME NEW m \in Module, NEW n \in Name, NEW t \in Type, NEW bases,
               Klass(m, n, t, bases)
        PROVE  TypesNamed'
    <2>1. types' = Extend(types, t, <<m, n>>)
      BY <1>2 DEF Klass
    <2> QED
      BY <2>1 DEF Extend, TypesNamed, ClassAt
  <1> QED
    BY <1>1, <1>2, OtherSteps

(* An object is made in a class that is in scope, of the type of the class *)
(* if it is made by Wren and of the type that led to the class if by C++.  *)
LEMMA InstancesStep ==
  ASSUME Registry, Next
  PROVE  InstancesFit'
  <1> DEFINE Fits(i) == /\ i.class \in ClassAt /\ InScope(i.class)
                        /\ Careful("one name") => scope[i.class[1]][i.class[2]].type = i.type
  <1>1. app' = app
    BY DEF Next
  <1>2. ASSUME NEW i, Fits(i)
        PROVE  Fits(i)'
    BY <1>1, <1>2, ScopeGrows DEF Careful
  <1>3. \A i \in instances : Fits(i)
    BY DEF Registry, InstancesFit
  <1>4. \A i \in instances' \ instances : Fits(i)
    <2>1. CASE UNCHANGED instances
      BY <2>1
    <2>2. ASSUME NEW c \in ClassAt, Construct(c)
          PROVE  \A i \in instances' \ instances : Fits(i)
      <3> DEFINE made == [class |-> c, type |-> scope[c[1]][c[2]].type]
      <3>1. instances' = instances \cup {made} /\ InScope(c)
        BY <2>2 DEF Construct
      <3>2. Fits(made)
        BY <2>2, <3>1
      <3> QED
        BY <3>1, <3>2
    <2>3. ASSUME NEW t \in Type, Push(t)
          PROVE  \A i \in instances' \ instances : Fits(i)
      <3>1. CASE UNCHANGED instances
        BY <3>1
      <3>2. CASE /\ t \in DOMAIN types /\ InScope(types[t])
                 /\ instances' = instances \cup {[class |-> types[t], type |-> t]}
        <4>1. types[t] \in ClassAt
          BY <3>2 DEF Registry, TypesNamed
        <4>2. ASSUME Careful("one name")
              PROVE  scope[types[t][1]][types[t][2]].type = t
          BY <3>2, <4>1, <4>2 DEF Registry, TypesFollow, ScopeFollows
        <4>3. Fits([class |-> types[t], type |-> t])
          BY <3>2, <4>1, <4>2
        <4> QED
          BY <3>2, <4>3
      <3> QED
        BY <2>3, <3>1, <3>2 DEF Push
    <2>4. CASE Registration
      BY <2>1, <2>4, DescribingBindsNothing
    <2>5. CASE Use
      BY <2>1, <2>2, <2>3, <2>5 DEF Use, Import, Pop, Call
    <2> QED
      BY <2>4, <2>5 DEF Next
  <1>5. \A i \in instances' : Fits(i)'
    BY <1>2, <1>3, <1>4
  <1> QED
    BY <1>5 DEF InstancesFit

(* The registry is as described before anything is registered. *)
LEMMA RegistryInit == Init => Registry
  BY DEF Init, None, Registry, KlassShape, TypesNamed, TypesFollow, ClassesFollow,
         ScopeFollows, InstancesFit, InScope, Registered

(* Every step of an application keeps the registry as described. *)
LEMMA RegistryStep == Registry /\ [Next]_vars => Registry'
  <1> SUFFICES ASSUME Registry, [Next]_vars
               PROVE  Registry'
    OBVIOUS
  <1>1. CASE Next
    <2>1. KlassShape'
      BY <1>1, KlassesGrow DEF Registry
    <2>2. Careful("one name")' => TypesFollow' /\ ClassesFollow'
      BY <1>1, TypesStep, ClassesStep DEF Next, Careful
    <2> QED
      BY <1>1, <2>1, <2>2, NamesStep, ScopeStep, InstancesStep DEF Registry
  <1>2. CASE UNCHANGED vars
    BY <1>2 DEF vars, Registry, KlassShape, TypesNamed, TypesFollow, ClassesFollow,
                ScopeFollows, InstancesFit, InScope, Registered, Careful
  <1> QED
    BY <1>1, <1>2

(* The finaliser of an object is that of its type, however it was made     *)
(* (foreign.hpp:429-432).                                                  *)
THEOREM FinalisersFit == Spec => []FinalizerFits
  <1>1. Registry => FinalizerFits
    BY DEF Registry, InstancesFit, FinalizerFits
  <1> QED
    BY <1>1, RegistryInit, RegistryStep, PTL DEF Spec

(* Where no name is given twice, all objects of a type are in one class,   *)
(* whether Wren made them or C++ pushed them (module.hpp:48-68,            *)
(* push.hpp:21-77).                                                        *)
THEOREM OneClassEach == Spec => []OneClassPerType
  <1>1. Registry => OneClassPerType
    <2> SUFFICES ASSUME Registry, Careful("one name")
                 PROVE  \A i, j \in instances : i.type = j.type => i.class = j.class
      BY DEF OneClassPerType
    <2>1. ASSUME NEW i \in instances
          PROVE  types[i.type] = i.class
      <3>1. /\ i.class \in ClassAt /\ InScope(i.class)
            /\ scope[i.class[1]][i.class[2]].type = i.type
        BY DEF Registry, InstancesFit
      <3>2. Registered(i.class) /\ klasses[i.class[1]][i.class[2]].type = i.type
        BY <3>1 DEF Registry, ScopeFollows
      <3> QED
        BY <3>1, <3>2 DEF Registry, ClassesFollow
    <2>2. ASSUME NEW i \in instances, NEW j \in instances, i.type = j.type
          PROVE  i.class = j.class
      BY <2>1, <2>2
    <2> QED
      BY <2>2
  <1> QED
    BY <1>1, RegistryInit, RegistryStep, PTL DEF Spec
----------------------------------------------------------------------------
TypedRegistry == Registry /\ TypeOK

(* The class of a type is in its module, whether or not its name was given *)
(* twice, and the casts are between types.                                 *)
LEMMA TypesTyped ==
  ASSUME TypedRegistry, Next
  PROVE  /\ DOMAIN types' \subseteq Type
         /\ \A t \in DOMAIN types' : types'[t] \in ClassAt /\ Registered(types[t])'
         /\ casts' \subseteq Type \X Type
  <1>1. CASE UNCHANGED <<types, casts>>
    BY <1>1, KlassesGrow DEF TypedRegistry, Registry, TypeOK
  <1>2. ASSUME NEW m \in Module, NEW n \in Name, NEW t \in Type,
               NEW bases \in SUBSET Type, Klass(m, n, t, bases)
        PROVE  /\ DOMAIN types' \subseteq Type
               /\ \A u \in DOMAIN types' : types'[u] \in ClassAt /\ Registered(types[u])'
               /\ casts' \subseteq Type \X Type
    <2>1. types' = Extend(types, t, <<m, n>>) /\ casts' = casts \cup ListedCasts(t, bases)
      BY <1>2 DEF Klass
    <2>2. {t} \X bases \subseteq Type \X Type
      OBVIOUS
    <2>3. casts' \subseteq Type \X Type
      BY <2>1, <2>2 DEF ListedCasts, TypedRegistry, TypeOK
    <2>4. m \in DOMAIN klasses' /\ n \in DOMAIN klasses'[m]
      BY <1>2 DEF Klass, Extend
    <2>5. DOMAIN types' = DOMAIN types \cup {t}
      BY <2>1 DEF Extend
    <2>6. ASSUME NEW u \in DOMAIN types
          PROVE  types'[u] \in ClassAt /\ Registered(types[u])'
      <3>1. types'[u] = types[u]
        BY <2>1 DEF Extend
      <3> QED
        BY <3>1, KlassesGrow DEF TypedRegistry, Registry, TypeOK
    <2>7. t \notin DOMAIN types => types'[t] \in ClassAt /\ Registered(types[t])'
      <3> SUFFICES ASSUME t \notin DOMAIN types
                   PROVE  types'[t] \in ClassAt /\ Registered(types[t])'
        OBVIOUS
      <3>1. types'[t] = <<m, n>>
        BY <2>1 DEF Extend
      <3>2. types'[t][1] = m /\ types'[t][2] = n
        BY <3>1
      <3> QED
        BY <2>4, <3>1, <3>2 DEF ClassAt, Registered
    <2>8. DOMAIN types' \subseteq Type
      BY <2>5 DEF TypedRegistry, TypeOK
    <2> QED
      BY <2>3, <2>5, <2>6, <2>7, <2>8
  <1> QED
    BY <1>1, <1>2, OtherSteps

(* An object is in a class that is in scope and has the type of a class. *)
LEMMA InstancesTyped ==
  ASSUME TypedRegistry, Next
  PROVE  instances' \subseteq Instance /\ \A i \in instances' : InScope(i.class)'
  <1>1. \A i \in instances' : InScope(i.class)'
    BY InstancesStep DEF TypedRegistry, InstancesFit
  <1>2. CASE UNCHANGED instances
    BY <1>1, <1>2 DEF TypedRegistry, TypeOK
  <1>3. ASSUME NEW c \in ClassAt, Construct(c)
        PROVE  instances' \subseteq Instance
    <2>1. Registered(c) /\ scope[c[1]][c[2]].type = klasses[c[1]][c[2]].type
      BY <1>3 DEF Construct, TypedRegistry, Registry, ScopeFollows
    <2>2. scope[c[1]][c[2]].type \in Type
      BY <2>1 DEF TypedRegistry, Registry, KlassShape, Registered
    <2> QED
      BY <1>3, <2>2 DEF Construct, Instance, TypedRegistry, TypeOK
  <1>4. ASSUME NEW t \in Type, Push(t)
        PROVE  instances' \subseteq Instance
    <2>1. CASE UNCHANGED instances
      BY <2>1 DEF TypedRegistry, TypeOK
    <2>2. CASE /\ t \in DOMAIN types
               /\ instances' = instances \cup {[class |-> types[t], type |-> t]}
      BY <2>2 DEF Instance, TypedRegistry, TypeOK
    <2> QED
      BY <1>4, <2>1, <2>2 DEF Push
  <1>5. CASE Registration
    BY <1>2, <1>5, DescribingBindsNothing
  <1>6. CASE Use
    BY <1>1, <1>2, <1>3, <1>4, <1>6 DEF Use, Import, Pop, Call
  <1> QED
    BY <1>5, <1>6 DEF Next

(* What a VM knows of its classes is well formed for any modules, names    *)
(* and types, and for applications that repeat names: a registered type    *)
(* leads to a class that is there.                                         *)
THEOREM RegistryTyped == Spec => []TypeOK
  <1>1. Init => TypedRegistry
    BY RegistryInit DEF Init, None, TypedRegistry, TypeOK
  <1>2. TypedRegistry /\ [Next]_vars => TypedRegistry'
    <2> SUFFICES ASSUME TypedRegistry, [Next]_vars
                 PROVE  TypedRegistry'
      OBVIOUS
    <2>1. Registry'
      BY RegistryStep DEF TypedRegistry
    <2>2. CASE Next
      <3>1. app' \in Application
        BY <2>2 DEF Next, TypedRegistry, TypeOK
      <3>2. DOMAIN scope' \subseteq Module
        <4>1. ASSUME NEW m \in Module, NEW v, scope' = Extend(scope, m, v)
              PROVE  DOMAIN scope' = DOMAIN scope \cup {m}
          BY <4>1 DEF Extend
        <4> QED
          BY <2>2, <4>1, OnlyImportsBind DEF TypedRegistry, TypeOK
      <3>3. TypeOK'
        BY <2>1, <2>2, <3>1, <3>2, TypesTyped, InstancesTyped DEF TypeOK, Registry, KlassShape
      <3> QED
        BY <2>1, <3>3 DEF TypedRegistry
    <2>3. CASE UNCHANGED vars
      BY <2>1, <2>3 DEF vars, TypedRegistry, TypeOK, InScope, Registered
    <2> QED
      BY <2>2, <2>3
  <1>3. TypedRegistry => TypeOK
    BY DEF TypedRegistry
  <1> QED
    BY <1>1, <1>2, <1>3, PTL DEF Spec
-------------------------------------------------------------------------
(* A function that takes the objects of a type, if bases are listed: a     *)
(* static one, one of the type, or one of a type that it is cast to.       *)
Listed(f, t) ==
  Careful("listed bases") =>
    f.receiver = "static" \/ f.receiver = t \/ <<t, f.receiver>> \in casts

(* A class as it can be described: its members are kept where they will be *)
(* found, and the functions of them take its objects.                      *)
Described(k) ==
  /\ k = [type |-> k.type, ctor |-> k.ctor, methods |-> k.methods, props |-> k.props]
  /\ MethodsFit(k) /\ PropsFit(k)
  /\ \A key \in DOMAIN k.methods : Listed(k.methods[key].function, k.type)
  /\ \A n \in DOMAIN k.props :
       /\ Listed(k.props[n].getter, k.type)
       /\ k.props[n].setter # NullFunction => Listed(k.props[n].setter, k.type)

MembersDescribed ==
  \A m \in DOMAIN klasses : \A n \in DOMAIN klasses[m] : Described(klasses[m][n])

(* No function, or one that takes the objects of the type. *)
Takes(f, t) == f \in {NotFound, NullFunction} \/ Listed(f, t)

(* What the classes of imported modules were bound to. *)
MembersBound ==
  \A m \in DOMAIN scope : \A n \in DOMAIN scope[m] :
    \A b \in scope[m][n].bound :
      /\ b.found = b.declared \/ NamedAsSetter(b.declared)
      /\ Takes(b.found, scope[m][n].type)

Members == MembersDescribed /\ MembersBound

(* No cast is ever lost. *)
LEMMA CastsGrow ==
  ASSUME [Next]_vars
  PROVE  casts \subseteq casts' /\ app' = app
  <1>1. CASE Next
    <2>1. ASSUME NEW m, NEW n, NEW t, NEW bases, Klass(m, n, t, bases)
          PROVE  casts \subseteq casts'
      BY <2>1 DEF Klass
    <2> QED
      BY <1>1, <2>1, OtherSteps DEF Next
  <1>2. CASE UNCHANGED vars
    BY <1>2 DEF vars
  <1> QED
    BY <1>1, <1>2

(* A function that takes the objects of a type will always take them.      *)
LEMMA ListedStays ==
  ASSUME [Next]_vars, NEW f, NEW t, Listed(f, t)
  PROVE  Listed(f, t)'
  BY CastsGrow DEF Listed, Careful

(* So a class that is well described stays so.                             *)
LEMMA DescribedStays ==
  ASSUME [Next]_vars, NEW k, Described(k)
  PROVE  Described(k)'
  BY ListedStays DEF Described

(* A new class is well described. *)
LEMMA NewDescribed ==
  ASSUME NEW t
  PROVE  Described(NewKlass(t))
  <1>1. DOMAIN None = {}
    BY DEF None
  <1> QED
    BY <1>1 DEF Described, NewKlass, MethodsFit, PropsFit

(* It stays so when it gets a constructor. *)
LEMMA CtorDescribed ==
  ASSUME NEW k, Described(k), NEW c
  PROVE  Described([k EXCEPT !.ctor = c])
  <1>1. [k EXCEPT !.ctor = c]
          = [type |-> k.type, ctor |-> c, methods |-> k.methods, props |-> k.props]
    BY DEF Described
  <1> QED
    BY <1>1 DEF Described, MethodsFit, PropsFit

(* And when it gets a method with its declaration and a function that      *)
(* takes its objects.                                                      *)
LEMMA MethodDescribed ==
  ASSUME NEW k, Described(k), NEW key, NEW d, NEW f,
         Compiled(d) = key, SoughtAsMethod(key) \/ NamedAsSetter(f), Listed(f, k.type)
  PROVE  Described(WithMethod(k, key, d, f))
  <1> DEFINE new == [declaration |-> d, static |-> f.receiver = "static", function |-> f]
             methods == Extend(k.methods, key, new)
  <1>1. WithMethod(k, key, d, f)
          = [type |-> k.type, ctor |-> k.ctor, methods |-> methods, props |-> k.props]
    BY DEF WithMethod, Described
  <1>2. new.declaration = d /\ new.function = f
    OBVIOUS
  <1>3. /\ DOMAIN methods = DOMAIN k.methods \cup {key}
        /\ \A x \in DOMAIN k.methods : methods[x] = k.methods[x]
        /\ key \notin DOMAIN k.methods => methods[key] = new
    BY DEF Extend
  <1> HIDE DEF new, methods
  <1>4. ASSUME NEW x \in DOMAIN methods
        PROVE  /\ Compiled(methods[x].declaration) = x
               /\ SoughtAsMethod(x) \/ NamedAsSetter(methods[x].function)
               /\ Listed(methods[x].function, k.type)
    BY <1>2, <1>3, <1>4 DEF Described, MethodsFit
  <1> QED
    BY <1>1, <1>4 DEF Described, MethodsFit, PropsFit

(* And a property. *)
LEMMA PropDescribed ==
  ASSUME NEW k, Described(k), NEW name, name \notin OperatorLead, NEW getter, NEW setter,
         Listed(getter, k.type), setter = NullFunction \/ Listed(setter, k.type)
  PROVE  Described([k EXCEPT !.props = Extend(@, name, [getter |-> getter, setter |-> setter])])
  <1> DEFINE new == [getter |-> getter, setter |-> setter]
             props == Extend(k.props, name, new)
  <1>1. [k EXCEPT !.props = Extend(@, name, new)]
          = [type |-> k.type, ctor |-> k.ctor, methods |-> k.methods, props |-> props]
    BY DEF Described
  <1>2. new.getter = getter /\ new.setter = setter
    OBVIOUS
  <1>3. /\ DOMAIN props = DOMAIN k.props \cup {name}
        /\ \A x \in DOMAIN k.props : props[x] = k.props[x]
        /\ name \notin DOMAIN k.props => props[name] = new
    BY DEF Extend
  <1>4. ASSUME Described([type |-> k.type, ctor |-> k.ctor, methods |-> k.methods, props |-> props])
        PROVE  Described([k EXCEPT !.props = Extend(@, name, new)])
    BY <1>1, <1>4
  <1> HIDE DEF new, props
  <1>5. ASSUME NEW x \in DOMAIN props
        PROVE  /\ x \notin OperatorLead
               /\ Listed(props[x].getter, k.type)
               /\ props[x].setter # NullFunction => Listed(props[x].setter, k.type)
    BY <1>2, <1>3, <1>5 DEF Described, PropsFit
  <1>6. Described([type |-> k.type, ctor |-> k.ctor, methods |-> k.methods, props |-> props])
    BY <1>5 DEF Described, MethodsFit, PropsFit
  <1> QED
    BY <1>4, <1>6 DEF new, props
----------------------------------------------------------------------------
(* The functions a description may name take the objects of the class.     *)
LEMMA ReceiversListed ==
  ASSUME NEW t, NEW r \in Receiver(t) \cup {"static"}, NEW f, f.receiver = r
  PROVE  Listed(f, t)
  BY DEF Receiver, Listed

(* A description leaves a class well described, whatever it describes.     *)
LEMMA RegisteredDescribed ==
  ASSUME app \in Application, MembersDescribed, Registration
  PROVE  \A m \in DOMAIN klasses' : \A n \in DOMAIN klasses'[m] : Described(klasses'[m][n])
  <1> DEFINE Goal == \A m \in DOMAIN klasses' : \A n \in DOMAIN klasses'[m] :
                       Described(klasses'[m][n])
  <1>1. CASE \E m \in Module : GetModule(m)
    <2>1. PICK m \in Module : klasses' = Extend(klasses, m, None)
      BY <1>1 DEF GetModule
    <2>2. DOMAIN None = {}
      BY DEF None
    <2>3. ASSUME NEW x \in DOMAIN klasses', NEW n \in DOMAIN klasses'[x]
          PROVE  Described(klasses'[x][n])
      BY <2>1, <2>2, <2>3 DEF Extend, MembersDescribed
    <2> QED
      BY <2>3
  <1>2. ASSUME NEW m \in Module, NEW n \in Name, NEW t \in Type, NEW bases, Klass(m, n, t, bases)
        PROVE  Goal
    <2>1. m \in DOMAIN klasses /\ klasses' = [klasses EXCEPT ![m] = Extend(@, n, NewKlass(t))]
      BY <1>2 DEF Klass
    <2>2. ASSUME NEW x \in DOMAIN klasses', NEW y \in DOMAIN klasses'[x]
          PROVE  Described(klasses'[x][y])
      <3>1. CASE x = m
        <4>1. klasses'[x] = Extend(klasses[m], n, NewKlass(t))
          BY <2>1, <3>1
        <4>2. CASE y \in DOMAIN klasses[m]
          <5>1. klasses'[x][y] = klasses[m][y]
            BY <4>1, <4>2 DEF Extend
          <5> QED
            BY <2>1, <4>2, <5>1 DEF MembersDescribed
        <4>3. CASE y \notin DOMAIN klasses[m]
          <5>1. klasses'[x][y] = NewKlass(t)
            BY <2>2, <4>1, <4>3 DEF Extend
          <5> QED
            BY <5>1, NewDescribed
        <4> QED
          BY <4>2, <4>3
      <3>2. CASE x # m
        <4>1. x \in DOMAIN klasses /\ klasses'[x] = klasses[x]
          BY <2>1, <2>2, <3>2
        <4> QED
          BY <2>2, <4>1 DEF MembersDescribed
      <3> QED
        BY <3>1, <3>2
    <2> QED
      BY <2>2
  <1>3. ASSUME NEW m \in DOMAIN klasses, NEW n \in DOMAIN klasses[m], NEW k,
               Describe(m, n, k), Described(k)
        PROVE  Goal
    <2>1. klasses' = [klasses EXCEPT ![m][n] = k]
      BY <1>3 DEF Describe
    <2>2. ASSUME NEW x \in DOMAIN klasses', NEW y \in DOMAIN klasses'[x]
          PROVE  Described(klasses'[x][y])
      <3>1. x \in DOMAIN klasses /\ y \in DOMAIN klasses[x]
        BY <2>1, <2>2
      <3>2. klasses'[x][y] = IF x = m /\ y = n THEN k ELSE klasses[x][y]
        BY <2>1, <3>1
      <3> QED
        BY <1>3, <3>1, <3>2 DEF MembersDescribed
    <2> QED
      BY <2>2
  <1> HIDE DEF Goal
  <1>4. ASSUME NEW m \in DOMAIN klasses, NEW n \in DOMAIN klasses[m]
        PROVE  /\ Ctor(m, n) => Goal
               /\ \A name \in app.methods : \A p :
                    \A r \in Receiver(klasses[m][n].type) \cup {"static"} :
                      Func(m, n, name, p, r) => Goal
               /\ \A op \in app.operators : \A r \in Receiver(klasses[m][n].type) :
                    FuncOperator(m, n, op, r) => Goal
               /\ \A name \in app.props, readonly \in BOOLEAN :
                    \A r \in Receiver(klasses[m][n].type) :
                      Prop(m, n, name, readonly, r) => Goal
    <2>1. PICK k : k = klasses[m][n]
      OBVIOUS
    <2>2. Described(k)
      BY <2>1 DEF MembersDescribed
    <2>3. ASSUME Ctor(m, n)
          PROVE  Goal
      <3>1. PICK yes : yes = TRUE
        OBVIOUS
      <3>2. Described([k EXCEPT !.ctor = yes])
        BY <2>2, CtorDescribed
      <3>3. Describe(m, n, [k EXCEPT !.ctor = yes])
        BY <2>1, <2>3, <3>1 DEF Ctor
      <3> QED
        BY <1>3, <3>2, <3>3
    <2>4. ASSUME NEW name \in app.methods, NEW p, NEW r \in Receiver(k.type) \cup {"static"},
                 Func(m, n, name, p, r)
          PROVE  Goal
      <3>1. PICK f : f = [receiver |-> r, member |-> name, part |-> "method"]
        OBVIOUS
      <3>2. PICK key : key = MethodKey(name, p)
        OBVIOUS
      <3>3. Describe(m, n, WithMethod(k, key, key, f))
        BY <2>1, <2>4, <3>1, <3>2 DEF Func
      <3>4. Compiled(key) = key /\ (SoughtAsMethod(key) \/ NamedAsSetter(f))
        <4>1. PICK x : x = Head(name)
          OBVIOUS
        <4>2. x \notin OperatorLead /\ name \in {<<x>>, <<x, "=">>}
          BY <4>1, BindingAssumption
        <4>3. Compiled(key) = key /\ (SoughtAsMethod(key) \/ SetterNamed(name))
          BY <3>2, <4>2, MethodSought
        <4> QED
          BY <3>1, <4>3 DEF NamedAsSetter
      <3>5. Listed(f, k.type)
        BY <3>1, ReceiversListed
      <3>6. Described(WithMethod(k, key, key, f))
        BY <2>2, <3>4, <3>5, MethodDescribed
      <3> QED
        BY <1>3, <3>3, <3>6
    <2>5. ASSUME NEW op \in app.operators, NEW r \in Receiver(k.type),
                 FuncOperator(m, n, op, r)
          PROVE  Goal
      <3>0. op \in Operator
        BY BindingAssumption
      <3>1. PICK f : f = [receiver |-> r, member |-> <<op>>, part |-> "operator"]
        OBVIOUS
      <3>2. PICK key, d : key = OperatorKey[op] /\ d = OperatorDeclaration[op]
        OBVIOUS
      <3>3. Describe(m, n, WithMethod(k, key, d, f))
        BY <2>1, <2>5, <3>1, <3>2 DEF FuncOperator
      <3>4. Compiled(d) = key /\ SoughtAsMethod(key)
        BY <3>0, <3>2, OperatorSought
      <3>5. Listed(f, k.type)
        BY <3>1, ReceiversListed
      <3>6. Described(WithMethod(k, key, d, f))
        BY <2>2, <3>4, <3>5, MethodDescribed
      <3> QED
        BY <1>3, <3>3, <3>6
    <2>6. ASSUME NEW name \in app.props, NEW readonly \in BOOLEAN, NEW r \in Receiver(k.type),
                 Prop(m, n, name, readonly, r)
          PROVE  Goal
      <3>1. name \notin OperatorLead
        BY BindingAssumption
      <3>2. PICK getter : getter = [receiver |-> r, member |-> <<name>>, part |-> "getter"]
        OBVIOUS
      <3>3. PICK written : written = [receiver |-> r, member |-> <<name>>, part |-> "setter"]
        OBVIOUS
      <3>4. PICK setter : setter = IF readonly THEN NullFunction ELSE written
        OBVIOUS
      <3>5. Describe(m, n, [k EXCEPT !.props = Extend(@, name, [getter |-> getter, setter |-> setter])])
        BY <2>1, <2>6, <3>2, <3>3, <3>4 DEF Prop
      <3>6. Listed(getter, k.type) /\ Listed(written, k.type)
        BY <3>2, <3>3, ReceiversListed
      <3>7. setter = NullFunction \/ Listed(setter, k.type)
        BY <3>4, <3>6
      <3>8. Described([k EXCEPT !.props = Extend(@, name, [getter |-> getter, setter |-> setter])])
        BY <2>2, <3>1, <3>6, <3>7, PropDescribed
      <3> QED
        BY <1>3, <3>5, <3>8
    <2> QED
      BY <2>1, <2>3, <2>4, <2>5, <2>6
  <1>5. Goal
    BY <1>1, <1>2, <1>4 DEF Registration, Goal
  <1> QED
    BY <1>5 DEF Goal

(* Every step keeps the classes of an application well described. *)
LEMMA MembersDescribedStep ==
  ASSUME app \in Application, MembersDescribed, [Next]_vars
  PROVE  MembersDescribed'
  <1>1. \A m \in DOMAIN klasses' : \A n \in DOMAIN klasses'[m] : Described(klasses'[m][n])
    <2>1. CASE Registration
      BY <2>1, RegisteredDescribed
    <2>2. CASE UNCHANGED klasses
      BY <2>2 DEF MembersDescribed
    <2>3. CASE Use
      BY <2>2, <2>3 DEF Use, Import, Construct, Push, Pop, Call
    <2>4. CASE UNCHANGED vars
      BY <2>2, <2>4 DEF vars
    <2> QED
      BY <2>1, <2>3, <2>4 DEF Next
  <1>2. ASSUME NEW m \in DOMAIN klasses', NEW n \in DOMAIN klasses'[m]
        PROVE  Described(klasses[m][n])'
    <2>1. PICK k : k = klasses'[m][n]
      OBVIOUS
    <2>2. Described(k)'
      BY <1>1, <2>1, DescribedStays
    <2> QED
      BY <2>1, <2>2
  <1> QED
    BY <1>2 DEF MembersDescribed

(* Whatever is found in a class takes its objects. *)
LEMMA FoundTakes ==
  ASSUME NEW k, Described(k), NEW sig, NEW static
  PROVE  Takes(FindSignature(k, sig, static), k.type)
  <1>1. Takes(FindFunc(k, sig, static), k.type)
    BY DEF FindFunc, Described, Takes
  <1>2. ASSUME NEW name
        PROVE  /\ Takes(FindProp(k, name, static, "getter"), k.type)
               /\ Takes(FindProp(k, name, static, "setter"), k.type)
    <2>1. FindProp(k, name, static, "getter")
            = IF name \in DOMAIN k.props /\ ~static THEN k.props[name].getter ELSE NotFound
      BY DEF FindProp
    <2>2. FindProp(k, name, static, "setter")
            = IF name \in DOMAIN k.props /\ ~static THEN k.props[name].setter ELSE NotFound
      BY DEF FindProp
    <2> QED
      BY <2>1, <2>2 DEF Described, Takes
  <1> QED
    BY <1>1, <1>2 DEF FindSignature

(* A class is bound, member by member, to functions that take its objects. *)
LEMMA DescribedBinds ==
  ASSUME NEW k, Described(k), NEW b \in Bound(k)
  PROVE  (b.found = b.declared \/ NamedAsSetter(b.declared)) /\ Takes(b.found, k.type)
  <1>1. PICK d \in Declared(k) :
          b = [declared |-> d.function,
               found |-> FindSignature(k, Compiled(d.declaration), d.static)]
    BY DEF Bound
  <1>2. \/ FindSignature(k, Compiled(d.declaration), d.static) = d.function
        \/ NamedAsSetter(d.function)
    BY BoundAsDeclared DEF Described
  <1>3. Takes(FindSignature(k, Compiled(d.declaration), d.static), k.type)
    BY FoundTakes
  <1> QED
    BY <1>1, <1>2, <1>3

(* An import binds every member of its classes to its function, and what   *)
(* was bound before stays bound.                                           *)
LEMMA MembersBoundStep ==
  ASSUME Members, Next
  PROVE  MembersBound'
  <1> DEFINE Fits(k) == \A b \in k.bound :
                          /\ b.found = b.declared \/ NamedAsSetter(b.declared)
                          /\ Takes(b.found, k.type)
  <1>1. \A m \in DOMAIN scope' : \A n \in DOMAIN scope'[m] : Fits(scope'[m][n])
    <2>1. CASE UNCHANGED scope
      BY <2>1 DEF Members, MembersBound
    <2>2. ASSUME NEW m \in Module, m \in DOMAIN klasses \ DOMAIN scope, NEW classes,
                 classes = [n \in DOMAIN klasses[m] |-> BoundClass(klasses[m][n])],
                 scope' = Extend(scope, m, classes)
          PROVE  \A x \in DOMAIN scope' : \A n \in DOMAIN scope'[x] : Fits(scope'[x][n])
      <3>1. scope' = Extend(scope, m, classes)
        BY <2>2
      <3>2. m \in DOMAIN klasses /\ m \notin DOMAIN scope
        BY <2>2
      <3>3. ASSUME NEW n \in DOMAIN klasses[m]
            PROVE  Fits(BoundClass(klasses[m][n]))
        <4>1. Described(klasses[m][n])
          BY <3>2 DEF Members, MembersDescribed
        <4>2. /\ BoundClass(klasses[m][n]).bound = Bound(klasses[m][n])
              /\ BoundClass(klasses[m][n]).type = klasses[m][n].type
          BY DEF BoundClass
        <4> QED
          BY <4>1, <4>2, DescribedBinds
      <3> HIDE DEF Fits
      <3>4. ASSUME NEW x \in DOMAIN scope', NEW n \in DOMAIN scope'[x]
            PROVE  Fits(scope'[x][n])
        <4>1. CASE x = m
          <5>1. scope'[x] = classes
            BY <3>1, <3>2, <4>1 DEF Extend
          <5>2. n \in DOMAIN klasses[m] /\ scope'[x][n] = BoundClass(klasses[m][n])
            BY <2>2, <3>4, <5>1
          <5> QED
            BY <3>3, <5>2
        <4>2. CASE x # m
          <5>1. x \in DOMAIN scope /\ scope'[x] = scope[x]
            BY <3>1, <3>4, <4>2 DEF Extend
          <5> QED
            BY <3>4, <5>1 DEF Members, MembersBound, Fits
        <4> QED
          BY <4>1, <4>2
      <3> QED
        BY <3>4
    <2> QED
      BY <2>1, <2>2, OnlyImportsBind
  <1>2. ASSUME NEW m \in DOMAIN scope', NEW n \in DOMAIN scope'[m], NEW b \in scope'[m][n].bound
        PROVE  /\ b.found = b.declared \/ NamedAsSetter(b.declared)
               /\ Takes(b.found, scope[m][n].type)'
    <2>1. PICK f, t : f = b.found /\ t = scope'[m][n].type
      OBVIOUS
    <2>2. (b.found = b.declared \/ NamedAsSetter(b.declared)) /\ Takes(f, t)
      BY <1>1, <1>2, <2>1
    <2>3. Takes(f, t)'
      BY <2>2, ListedStays DEF Takes
    <2> QED
      BY <2>1, <2>2, <2>3
  <1> QED
    BY <1>2 DEF MembersBound

KnownMembers == Members /\ app \in Application

(* No member is described or bound before there is a class. *)
LEMMA MembersInit == Init => KnownMembers
  BY DEF Init, None, KnownMembers, Members, MembersDescribed, MembersBound

(* Every step keeps members described and bound so. *)
LEMMA MembersStep == KnownMembers /\ [Next]_vars => KnownMembers'
  <1> SUFFICES ASSUME KnownMembers, [Next]_vars
               PROVE  KnownMembers'
    OBVIOUS
  <1>1. MembersDescribed' /\ app' \in Application
    BY MembersDescribedStep, CastsGrow DEF KnownMembers, Members
  <1>2. CASE Next
    BY <1>1, <1>2, MembersBoundStep DEF KnownMembers, Members
  <1>3. CASE UNCHANGED vars
    <2>1. MembersBound'
      BY <1>3 DEF vars, KnownMembers, Members, MembersBound, Takes, Listed, Careful
    <2> QED
      BY <1>1, <2>1 DEF KnownMembers, Members
  <1> QED
    BY <1>2, <1>3

(* Every declaration an import generates, but that of a method named as a  *)
(* setter, is bound to the C++ function it was written for, whatever was   *)
(* described in whatever order, names given twice included                 *)
(* (foreign.hpp:188-221, vm.hpp:184-196).                                  *)
THEOREM MembersFound == Spec => []DeclarationsBound
  <1>1. KnownMembers => DeclarationsBound
    BY DEF KnownMembers, Members, MembersBound, DeclarationsBound
  <1> QED
    BY <1>1, MembersInit, MembersStep, PTL DEF Spec
----------------------------------------------------------------------------
(* What a call of a member ends with is decided when it is called.         *)
LEMMA OnlyCallsCall ==
  ASSUME Next, outcome'.op = "call"
  PROVE  \E i \in instances : \E f : f \notin {NotFound, NullFunction} /\ Call(i, f)
  <1>1. ASSUME NEW op, NEW result, Done(op, result), op # "call"
        PROVE  FALSE
    BY <1>1 DEF Done
  <1>2. ASSUME NEW m, NEW n, NEW k, Describe(m, n, k)
        PROVE  FALSE
    BY <1>2, <1>1 DEF Describe
  <1>3. CASE Registration
    <2>1. CASE \E m \in Module : GetModule(m)
      BY <2>1, <1>1 DEF GetModule
    <2>2. CASE \E m, n, t, bases : Klass(m, n, t, bases)
      BY <2>2, <1>1 DEF Klass
    <2>3. CASE \E m, n : Ctor(m, n)
      BY <2>3, <1>2 DEF Ctor
    <2>4. CASE \E m, n, name, p, r : Func(m, n, name, p, r)
      BY <2>4, <1>2 DEF Func
    <2>5. CASE \E m, n, op, r : FuncOperator(m, n, op, r)
      BY <2>5, <1>2 DEF FuncOperator
    <2>6. CASE \E m, n, name, readonly, r : Prop(m, n, name, readonly, r)
      BY <2>6, <1>2 DEF Prop
    <2> QED
      BY <1>3, <2>1, <2>2, <2>3, <2>4, <2>5, <2>6 DEF Registration
  <1>4. CASE \E m \in Module : Import(m)
    BY <1>4, <1>1 DEF Import
  <1>5. CASE \E c \in ClassAt : Construct(c)
    BY <1>5, <1>1 DEF Construct
  <1>6. CASE \E t \in Type : Push(t)
    BY <1>6, <1>1 DEF Push
  <1>7. CASE \E i, u : Pop(i, u)
    BY <1>7 DEF Pop
  <1> QED
    BY <1>3, <1>4, <1>5, <1>6, <1>7 DEF Next, Use

(* An object and the function it is called with are of a kind, because its *)
(* class is that of its type.                                              *)
LEMMA CallAccepted ==
  ASSUME Registry, Members, FollowsDocs, NEW i, NEW f, f \notin {NotFound, NullFunction},
         Call(i, f)
  PROVE  outcome'.result = "ok"
  <1>1. i \in instances /\ f.receiver # "static"
    BY DEF Call
  <1>2. PICK b \in scope[i.class[1]][i.class[2]].bound : b.found = f
    BY DEF Call
  <1>3. InScope(i.class) /\ scope[i.class[1]][i.class[2]].type = i.type
    BY <1>1 DEF Registry, InstancesFit, FollowsDocs, Careful
  <1>4. Listed(f, i.type)
    BY <1>2, <1>3 DEF Members, MembersBound, InScope, Takes
  <1>5. f.receiver = i.type \/ <<i.type, f.receiver>> \in casts
    BY <1>1, <1>2, <1>4 DEF Listed, FollowsDocs, Careful
  <1> QED
    BY <1>5 DEF Call, CanCast

AcceptedMembers == Registry /\ KnownMembers /\ SelfAccepted

(* In an application that follows the docs no member refuses an object of  *)
(* its class (caller.hpp:86-149).                                          *)
THEOREM SelfIsAccepted == Spec => []SelfAccepted
  <1>1. Init => AcceptedMembers
    BY RegistryInit, MembersInit DEF Init, AcceptedMembers, SelfAccepted
  <1>2. AcceptedMembers /\ [Next]_vars => AcceptedMembers'
    <2> SUFFICES ASSUME AcceptedMembers, [Next]_vars
                 PROVE  AcceptedMembers'
      OBVIOUS
    <2>1. Registry' /\ KnownMembers'
      BY RegistryStep, MembersStep DEF AcceptedMembers
    <2>2. CASE Next
      <3>1. ASSUME FollowsDocs', outcome'.op = "call"
            PROVE  outcome'.result = "ok"
        <4>1. FollowsDocs
          BY <2>2, <3>1 DEF Next, FollowsDocs
        <4> QED
          BY <2>2, <3>1, <4>1, OnlyCallsCall, CallAccepted DEF AcceptedMembers, KnownMembers
      <3> QED
        BY <2>1, <3>1 DEF AcceptedMembers, SelfAccepted
    <2>3. CASE UNCHANGED vars
      BY <2>1, <2>3 DEF vars, AcceptedMembers, SelfAccepted, FollowsDocs
    <2> QED
      BY <2>2, <2>3
  <1>3. AcceptedMembers => SelfAccepted
    BY DEF AcceptedMembers
  <1> QED
    BY <1>1, <1>2, <1>3, PTL DEF Spec
=============================================================================
