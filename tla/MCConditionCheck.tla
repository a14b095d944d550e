-------------------------- MODULE MCConditionCheck --------------------------
(* Conditions over three fields: n, a number or an Integer, b, a boolean or  *)
(* a Boolean, o, an object.                                                  *)
EXTENDS ConditionCheck, TLC

Field(name) == [field |-> name, lit |-> V(None, FALSE), minus |-> FALSE]
Lit(type, v) == [field |-> "", lit |-> V(type, v), minus |-> FALSE]
Minus(t) == [t EXCEPT !.minus = TRUE]

n == Field("n")
b == Field("b")
o == Field("o")
one == Lit("NUMBER", 2)
half == Lit("DOUBLE", 1)
null == Lit("OBJECT_NULL", 0)

Is(t) == [op |-> "", not |-> FALSE, operands |-> <<<<t>>>>]
Rel(l, op, r) == [op |-> op, not |-> FALSE, operands |-> <<l, r>>]
Negated(atom) == [atom EXCEPT !.not = TRUE]

Ops == {"==", "!=", "<", "<=", ">", ">="}

\* && and ||: up to three atoms in every arrangement.
Parts == {Is(b), Negated(Is(b)), Rel(<<o>>, "!=", <<null>>), Rel(<<n>>, ">", <<Minus(one)>>)}
Wrong == Is(one)

Arrangements ==
  UNION {{<<<<x, y, z>>>>, <<<<x, y>>, <<z>>>>, <<<<x>>, <<y, z>>>>, <<<<x>>, <<y>>, <<z>>>>} :
    <<x, y, z>> \in Parts \X Parts \X Parts}
  \cup UNION {{<<<<x, Wrong>>, <<y>>>>, <<<<x>>, <<Wrong, y>>>>} : <<x, y>> \in Parts \X Parts}

\* Relations of every two terms, and of sums.
NumberTerms == {n, Minus(n), one, Minus(one), half, Minus(half), Lit("FLOAT", 3), Minus(Lit("FLOAT", 3))}
OtherTerms == {b, o, null, Lit("STRING", 7), Lit("BOOL", TRUE)}

Relations ==
  {<<<<Rel(<<x>>, op, <<y>>)>>>> : x \in NumberTerms, op \in Ops, y \in NumberTerms}
  \cup {<<<<Rel(<<x>>, op, <<y>>)>>>> : x \in OtherTerms, op \in {"==", "!=", ">="}, y \in {n, one, b, o, null}}
  \cup {<<<<Negated(Rel(<<x, y>>, ">", <<Minus(one)>>))>>>> : x \in NumberTerms, y \in NumberTerms \cup {b, Lit("STRING", 7)}}
  \cup {<<<<Is(x)>>>> : x \in NumberTerms \cup OtherTerms}
  \cup {<<<<Negated(Is(x))>>>> : x \in NumberTerms \cup OtherTerms}

MCFieldValues ==
  {V("NUMBER", -2), V("OBJECT_INTEGER", 2), V("OBJECT_DOUBLE", -3), V("BOOL", TRUE), V("BOOL", FALSE),
   V("OBJECT_BOOLEAN", TRUE), V("OBJECT_NULL", 0), V("OBJECT_OTHER", 1), V("OBJECT_STRING", 7)}

FieldsAre(x, y, z) == [f \in {"n", "b", "o"} |-> CASE f = "n" -> x [] f = "b" -> y [] OTHER -> z]

SomeFields ==
  {FieldsAre(x, y, z) : x \in {V("NUMBER", -2), V("OBJECT_INTEGER", 2)},
                        y \in {V("BOOL", TRUE), V("BOOL", FALSE), V("OBJECT_BOOLEAN", TRUE)},
                        z \in {V("OBJECT_NULL", 0), V("OBJECT_STRING", 7)}}

Single == {[files |-> <<cond>>, fields |-> fields, calls |-> 1] :
             cond \in Arrangements \cup Relations, fields \in SomeFields}

\* Two threads, and files read in between.
Above == <<<<Rel(<<n>>, ">", <<Minus(one)>>)>>>>
BothAbove == <<<<Is(b), Rel(<<n, Minus(one)>>, "<", <<one>>)>>>>

Together == {[files |-> <<first, second>>, calls |-> 3,
              fields |-> FieldsAre(V("OBJECT_INTEGER", 2), V("OBJECT_BOOLEAN", TRUE), V("OBJECT_NULL", 0))] :
               first \in {Above, BothAbove, <<>>}, second \in {Above, BothAbove, <<<<Wrong>>>>}}

MCWorlds == Single \cup Together
Threads == Permutations(Dumpers)
=============================================================================
