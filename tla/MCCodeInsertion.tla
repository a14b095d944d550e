-------------------------- MODULE MCCodeInsertion --------------------------
(* Methods of up to MaxLength instructions, in every shape that a compiler *)
(* produces, for the three places to monitor.                              *)
EXTENDS CodeInsertion, FiniteSets

CONSTANTS MaxLength, \* bound: instructions of a method
          MaxSize    \* bound: instructions and branches

Plain(op) == [op |-> op, to |-> <<>>]

\* One instruction of a method with n of them; the cases of a switch lead to
\* its default or to the last instruction.
Straight == {Plain(op) : op \in {"plain", "call", "convert"}}
Leaving  == {Plain(op) : op \in Exits}
Jumping(n) ==
  {[op |-> "jump", to |-> <<t>>] : t \in 1..n}
    \cup {[op |-> "lookupswitch", to |-> <<t>>] : t \in 1..n}
    \cup {[op |-> "tableswitch", to |-> <<n, t>>] : t \in 1..n}
    \cup {[op |-> "jump_w", to |-> <<1>>]}

Codes(n) == {c \in [1..n -> Straight \cup Leaving \cup Jumping(n)] :
               n + Cardinality({i \in 1..n : c[i].to # <<>>}) <= MaxSize}

\* Besides, the code does not run off its end, and returns a value or none.
Complete(c) ==
  /\ c[Len(c)].op \in Exits \cup {"jump", "jump_w"} \cup Switches
  /\ c[1].op # "athrow"
  /\ ~\E i, j \in DOMAIN c : c[i].op = "return" /\ c[j].op = "vreturn"

Bodies == {c \in UNION {Codes(n) : n \in 1..MaxLength} : Compiled(c) /\ Complete(c)}

NoResult(c) == \A i \in DOMAIN c : c[i].op # "vreturn"

\* The bytes of a call and max_locals: one of each size of a local variable's
\* number, and both lengths of a call if a switch follows one.
Variants(c) ==
  IF ~NoResult(c) THEN {<<6, 3>>, <<5, 4>>, <<5, 256>>}
  ELSE IF \E i \in DOMAIN c : c[i].op \in Switches THEN {<<5, 4>>, <<6, 4>>}
  ELSE {<<5, 4>>}

\* Monitored methods.
Plains ==
  {m \in [code : Bodies, prefix : {0}, escapes : {{}}, lines : {{}}, instance : {0},
          hooked : {TRUE}, where : 0..2, bytes : {5, 6}, locals : {3, 4, 256},
          wide : BOOLEAN, followed : BOOLEAN] :
     /\ <<m.bytes, m.locals>> \in Variants(m.code)
     /\ m.wide = (m.locals = 3) /\ m.followed = (m.locals # 256)}

ShortBodies == {c \in Bodies : NoResult(c) /\ Len(c) < MaxLength}

\* Shorter constructors.  The prefix is aload_0 and invokespecial (4 bytes) or
\* one argument more, the object is registered (8 bytes, 10 with ldc_w) or not,
\* the method monitored or not; if not, nDumpPosition is 1 or what stands behind
\* the array of positions.
Constructors ==
  {m \in [code : ShortBodies, prefix : {4, 5}, escapes : {{}}, lines : {{}},
          instance : {0, 8, 10}, hooked : BOOLEAN, where : 0..2, bytes : {5}, locals : {4},
          wide : {FALSE}, followed : {TRUE}] :
     m.instance = 10 <=> m.prefix = 5}

\* The prefix tests an argument and makes the object that is another one (12
\* bytes), on two lines.
Testing ==
  {m \in [code : ShortBodies, prefix : {12}, escapes : {{t} : t \in 1..MaxLength - 1},
          lines : {{5}}, instance : {0, 8}, hooked : BOOLEAN, where : 0..2, bytes : {5},
          locals : {4}, wide : {FALSE}, followed : {TRUE}] :
     m.escapes \subseteq DOMAIN m.code}

MCMethods == Plains \cup {m \in Constructors \cup Testing : m.hooked \/ m.instance # 0}
=============================================================================
