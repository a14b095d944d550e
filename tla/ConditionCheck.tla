--------------------------- MODULE ConditionCheck ---------------------------
(***************************************************************************)
(* The conditions of monitored methods.  A condition is compiled when the  *)
(* configuration file is read (MonitoringMethod, expr with isCompile) and  *)
(* evaluated whenever the method calls Callbacks                           *)
(* (StackTrace::shouldDump).  Both are one run of a recursive descent      *)
(* parser, which does not build a tree: each rule gets a flag onlyCompile  *)
(* and either computes a value or checks types, so that the operands that  *)
(* || and && skip are compiled in the middle of an evaluation.             *)
(*                                                                         *)
(* The parser keeps two static variables, jvmEnv and isMinus.  Evaluations *)
(* hold configMonitor; a changed file is read without it.                  *)
(*                                                                         *)
(* A condition is a disjunction of conjunctions of atoms, a sequence of    *)
(* sequences; parentheses, arrays and paths of fields are left out.        *)
(***************************************************************************)
EXTENDS Integers, Sequences, Functions

CONSTANTS
  Dumpers,      \* threads of the application
  monitor,      \* the thread that reads the configuration
  Worlds,       \* what happens, see below
  FieldValues,  \* of the fields
  MaxDumpCount, \* of the monitored method, 0 is no limit
  None,         \* CTYPE_NONE, nothing known
  Null          \* no jvmEnv, no owner of configMonitor

(* World: files, the conditions of the first file and of those that        *)
(* follow, empty for none; fields, the values of the fields; calls, how    *)
(* often the method is called.                                             *)
(*                                                                         *)
(* Atom:  operands, one or two sequences of terms to be added; op, what    *)
(* relates two of them; not, whether one of them is negated.               *)
(* Term:  field, its name or ""; lit, the value of a literal; minus.       *)
(* Value: type and v; numbers are counted in halves.                       *)

Actors == Dumpers \cup {monitor}

ASSUME ActorsDiffer == monitor \notin Dumpers /\ Null \notin Actors

ASSUME LimitIsNumber == MaxDumpCount \in Nat

VARIABLES
  world,
  jvmEnv,     \* CcatParser::jvmEnv, the thread that it belongs to
  isMinus,    \* CcatParser::isMinus
  owner,      \* of configMonitor
  file,       \* number of the file that is being read or was read last
  installed,  \* condition of the entry in methodDumpInfo, None without one
  dumpCount,  \* of that entry
  calls,      \* calls to come
  pc,         \* what each thread does
  p,          \* its place in the parser, and the values of the rules there
  overlapped, \* evaluations during which a file was being read
  crashed     \* did the JVM end?

method  == <<installed, dumpCount>>
outside == <<world, owner, file, method, calls, overlapped, crashed>>
vars    == <<jvmEnv, isMinus, pc, p, outside>>
-----------------------------------------------------------------------------
(* Values *)

V(type, v) == [type |-> type, v |-> v]
Bool(b)  == V("BOOL", b)
Unknown  == V(None, FALSE)
Error    == V("ERROR", 0) \* hasError, or a CcatFormatException

Numbers  == {"NUMBER", "FLOAT", "DOUBLE"}
Boxes    == {"OBJECT_INTEGER", "OBJECT_DOUBLE", "OBJECT_BOOLEAN", "OBJECT_STRING"}
Objects  == Boxes \cup {"OBJECT_NULL", "OBJECT_OTHER"}

Types    == {None, "ERROR", "BOOL", "STRING"} \cup Numbers \cup Objects
Literals == {"BOOL", "STRING", "OBJECT_NULL"} \cup Numbers
Comparisons == {"==", "!=", ">", ">=", "<", "<="}

IsValue(a) ==
  a.type \in Types /\ (a.type \in {None, "BOOL", "OBJECT_BOOLEAN"} => a.v \in BOOLEAN)

ASSUME NoneIsNoType == None \notin {"ERROR", "BOOL", "STRING"} \cup Numbers \cup Objects

\* What the grammar makes of a condition; it names fields that there are.
IsList(s) == Len(s) \in Nat /\ DOMAIN s = 1..Len(s)

IsTerm(t, fields) ==
  /\ t.minus \in BOOLEAN
  /\ IF t.field = "" THEN t.lit.type \in Literals /\ IsValue(t.lit) ELSE t.field \in fields

IsAtom(atom, fields) ==
  /\ IsList(atom.operands) /\ Len(atom.operands) \in {1, 2} /\ atom.not \in BOOLEAN
  /\ Len(atom.operands) = 2 => atom.op \in Comparisons
  /\ \A s \in DOMAIN atom.operands :
       /\ IsList(atom.operands[s]) /\ atom.operands[s] # <<>>
       /\ \A k \in DOMAIN atom.operands[s] : IsTerm(atom.operands[s][k], fields)

IsCondition(cond, fields) ==
  /\ IsList(cond)
  /\ \A i \in DOMAIN cond : /\ IsList(cond[i]) /\ cond[i] # <<>>
                            /\ \A j \in DOMAIN cond[i] : IsAtom(cond[i][j], fields)

ASSUME WorldsAssumption ==
  \A w \in Worlds :
    /\ w.calls \in Nat /\ IsList(w.files)
    /\ \A n \in DOMAIN w.files : IsCondition(w.files[n], DOMAIN w.fields)
    /\ \A f \in DOMAIN w.fields : IsValue(w.fields[f]) /\ w.fields[f].type \notin {None, "ERROR"}

getObjectValue(a) ==
  CASE a.type = "OBJECT_INTEGER" -> V("NUMBER", a.v)
    [] a.type = "OBJECT_DOUBLE"  -> V("DOUBLE", a.v)
    [] a.type = "OBJECT_BOOLEAN" -> V("BOOL", a.v)
    [] a.type = "OBJECT_STRING"  -> V("STRING", a.v)
    [] OTHER -> a

Ordered(test, l, r) ==
  CASE test = "equal" -> l = r [] test = "greater" -> l > r [] OTHER -> l >= r

\* Strings are equal if they match; patterns are left out.
relationValue(a, b, test) ==
  LET l == getObjectValue(a)
      r == getObjectValue(b)
  IN  IF \/ {l.type, r.type} \subseteq Numbers
         \/ l.type = "STRING" /\ r.type = "STRING"
        THEN Bool(Ordered(test, l.v, r.v))
      ELSE IF test = "equal" /\ l.type = r.type /\ l.type \in {"BOOL", "OBJECT_OTHER"}
        THEN Bool(l.v = r.v)
      ELSE Error

Equal(a, b) ==
  IF "OBJECT_NULL" \notin {a.type, b.type} THEN relationValue(a, b, "equal")
  ELSE IF a.type \in Objects /\ b.type \in Objects THEN Bool(a.type = b.type)
  ELSE Error

Not(a) ==
  LET b == getObjectValue(a) IN IF b.type = "BOOL" THEN Bool(~b.v) ELSE Error

Relation(op, a, b) ==
  CASE op = "==" -> Equal(a, b)
    [] op = "!=" -> Not(Equal(a, b))
    [] op = ">"  -> relationValue(a, b, "greater")
    [] op = ">=" -> relationValue(a, b, "at least")
    [] op = "<"  -> relationValue(b, a, "greater")
    [] op = "<=" -> relationValue(b, a, "at least")

\* operator-: the number of the object itself is negated, not the one taken
\* out of it, and is 0.
Negative(a) ==
  LET b == getObjectValue(a)
  IN  IF b.type \notin Numbers THEN Error
      ELSE IF a.type \in Boxes THEN V(b.type, 0) ELSE V(b.type, -a.v)

\* operator+, checkSansuOperands
Sum(a, b) ==
  LET l == getObjectValue(a)
      r == getObjectValue(b)
      types == {l.type, r.type}
  IN  IF ~(types \subseteq Numbers) THEN Error
      ELSE V(IF "DOUBLE" \in types THEN "DOUBLE"
             ELSE IF "FLOAT" \in types THEN "FLOAT" ELSE "NUMBER", l.v + r.v)

\* || and &&: both operands are needed here.
Both(a, b, truth) ==
  LET l == getObjectValue(a)
      r == getObjectValue(b)
  IN  IF l.type = "BOOL" /\ r.type = "BOOL" THEN Bool(truth[l.v, r.v]) ELSE Error

Or  == [lr \in BOOLEAN \X BOOLEAN |-> lr[1] \/ lr[2]]
And == [lr \in BOOLEAN \X BOOLEAN |-> lr[1] /\ lr[2]]
-----------------------------------------------------------------------------
(* Types, when a rule only compiles *)

\* The test means to refuse what is no number, and refuses float.
CompiledNumber(types) == IF "FLOAT" \in types THEN Error ELSE V("DOUBLE", 0)

\* Mutant: numbers of two types cannot be compared.
CompiledRelationSameType(op, a, b) ==
  LET types == {a.type, b.type}
  IN  IF /\ None \in types \/ a.type = b.type
         /\ op \notin {"==", "!="} => types \cap {"BOOL", "OBJECT_NULL"} = {}
        THEN Bool(FALSE) ELSE Error

CompiledRelation(op, a, b) ==
  LET types == {a.type, b.type}
      fits == None \in types \/ types \subseteq Numbers \/ a.type = b.type
  IN  IF /\ fits
         /\ op \notin {"==", "!="} => types \cap {"BOOL", "OBJECT_NULL"} = {}
        THEN Bool(FALSE) ELSE Error

CompiledTruth(a) == IF a.type \in {None, "BOOL"} THEN Bool(a.v) ELSE Error

CompiledTruths(a, b) ==
  IF "ERROR" \in {CompiledTruth(a).type, CompiledTruth(b).type} THEN Error ELSE Bool(a.v)
-----------------------------------------------------------------------------
(* Where a thread is in the parser *)

Fresh == [cond |-> <<>>, i |-> 1, j |-> 1, side |-> 1, t |-> 1, signed |-> FALSE,
          acc |-> Unknown, left |-> Unknown, and |-> Unknown, andSkip |-> FALSE,
          or |-> Unknown, orSkip |-> FALSE, reads |-> {}, verdict |-> "none"]

Init ==
  /\ world \in Worlds
  /\ jvmEnv = Null
  /\ isMinus = FALSE
  /\ owner = Null
  /\ file = 0
  /\ installed = None
  /\ dumpCount = 0
  /\ calls = world.calls
  /\ pc = [a \in Actors |-> "idle"]
  /\ p = [a \in Actors |-> Fresh]
  /\ overlapped = {}
  /\ crashed = FALSE

Atom(a) == p[a].cond[p[a].i][p[a].j]
Operand(a) == Atom(a).operands[p[a].side]
Term(a) == Operand(a)[p[a].t]

\* The flag onlyCompile of the rules inside an atom.
onlyCompile(a) == p[a].andSkip

Busy(a) == pc[a] \notin {"idle", "done"}

At(a, place) == ~crashed /\ pc[a] = place
Goto(a, place) == pc' = [pc EXCEPT ![a] = place]
Put(a, rec) == p' = [p EXCEPT ![a] = rec]
Fail(a) == Goto(a, "verdict") /\ Put(a, [p[a] EXCEPT !.or = Error])
-----------------------------------------------------------------------------
(* Beginnings *)

\* isCompile, the mode of expr, is that of the thread.
Start(a, cond) ==
  /\ Goto(a, "enter")
  /\ Put(a, [Fresh EXCEPT !.cond = cond, !.andSkip = (a = monitor), !.orSkip = (a = monitor)])

End(a, cond, verdict) ==
  Goto(a, "done") /\ Put(a, [Fresh EXCEPT !.cond = cond, !.verdict = verdict])

\* The first file is read by Agent_OnLoad, a changed one by monitorThread,
\* both without configMonitor.
ReadFile ==
  /\ At(monitor, "idle")
  /\ file < Len(world.files)
  /\ file = 0 \/ installed # None
  /\ file' = file + 1
  /\ LET cond == world.files[file']
     IN  IF cond = <<>> THEN End(monitor, cond, "accepted") ELSE Start(monitor, cond)
  /\ overlapped' = overlapped \cup {d \in Dumpers : Busy(d)}
  /\ UNCHANGED <<world, jvmEnv, isMinus, owner, method, calls, crashed>>

\* Mutant: one dump more than the limit.
MayDumpOnceMore(count) == MaxDumpCount = 0 \/ count <= MaxDumpCount

MayDump(count) == MaxDumpCount = 0 \/ count < MaxDumpCount

Call(d) ==
  /\ At(d, "idle")
  /\ installed # None /\ calls > 0
  /\ calls' = calls - 1
  /\ overlapped' = IF Busy(monitor) THEN overlapped \cup {d} ELSE overlapped \ {d}

\* An entry without a condition is dumped at once.
Check(d) ==
  /\ IF ~MayDump(dumpCount)
       THEN End(d, installed, "limit") /\ UNCHANGED dumpCount
     ELSE IF installed = <<>>
       THEN End(d, installed, "true") /\ dumpCount' = dumpCount + 1
       ELSE Start(d, installed) /\ UNCHANGED dumpCount
  /\ UNCHANGED <<world, jvmEnv, isMinus, file, installed, crashed>>

\* Mutant: no configMonitor.
dumpstackForMethodUnlocked(d) == Call(d) /\ Check(d) /\ UNCHANGED owner

\* Callbacks calls dumpstackForMethod, which takes configMonitor, and so
\* shouldDump.
dumpstackForMethod(d) ==
  /\ Call(d)
  /\ owner = Null /\ owner' = d
  /\ Check(d)

Enter(a) ==
  /\ At(a, "enter")
  /\ jvmEnv' = IF a = monitor THEN Null ELSE a
  /\ isMinus' = FALSE
  /\ Goto(a, "operand")
  /\ UNCHANGED <<world, owner, file, method, calls, p, overlapped, crashed>>
-----------------------------------------------------------------------------
(* Terms *)

IsNumber(t) == t.field = "" /\ t.lit.type \in Numbers

\* The sign of a number is left to the rule literal.
UnaryMinus(a) ==
  /\ At(a, "operand")
  /\ IsNumber(Term(a)) /\ Term(a).minus /\ ~p[a].signed
  /\ isMinus' = TRUE
  /\ Put(a, [p[a] EXCEPT !.signed = TRUE])
  /\ UNCHANGED <<pc, jvmEnv, outside>>

\* atof reads the text of a floating point number without its sign.
Literal(lit) == IF isMinus /\ lit.type = "NUMBER" THEN V("NUMBER", -lit.v) ELSE lit

TermValue(a) ==
  LET t == Term(a)
      value == IF t.field = "" THEN Literal(t.lit) ELSE world.fields[t.field]
  IN  IF t.minus /\ ~IsNumber(t) THEN Negative(value) ELSE value

TermType(a) ==
  LET t == Term(a)
      type == IF t.field = "" THEN V(t.lit.type, FALSE) ELSE Unknown
  IN  IF t.minus THEN CompiledNumber({type.type}) ELSE type

Accumulated(a) ==
  LET value == IF onlyCompile(a) THEN TermType(a) ELSE TermValue(a)
  IN  IF p[a].t = 1 \/ value.type = "ERROR" THEN value
      ELSE IF onlyCompile(a) THEN CompiledNumber({p[a].acc.type, value.type})
      ELSE Sum(p[a].acc, value)

ReadsField(a) == Term(a).field # "" /\ ~onlyCompile(a)

ReadTerm(a) ==
  /\ At(a, "operand")
  /\ IsNumber(Term(a)) /\ Term(a).minus => p[a].signed
  /\ ReadsField(a) => jvmEnv # Null
  /\ isMinus' = (isMinus /\ ~IsNumber(Term(a)))
  /\ LET acc  == Accumulated(a)
         read == [p[a] EXCEPT !.acc = acc, !.signed = FALSE,
                    !.reads = @ \cup IF ReadsField(a) THEN {Term(a).field} ELSE {}]
     IN  IF acc.type = "ERROR"
           THEN Goto(a, "verdict") /\ Put(a, [read EXCEPT !.or = Error])
         ELSE IF p[a].t < Len(Operand(a))
           THEN UNCHANGED pc /\ Put(a, [read EXCEPT !.t = @ + 1])
         ELSE IF p[a].side < Len(Atom(a).operands)
           THEN UNCHANGED pc /\ Put(a, [read EXCEPT !.side = 2, !.t = 1, !.left = acc])
           ELSE Goto(a, "relate") /\ Put(a, read)
  /\ UNCHANGED <<jvmEnv, outside>>
-----------------------------------------------------------------------------
(* Relations, && and || *)

AtomValue(a) ==
  LET atom  == Atom(a)
      value == IF Len(atom.operands) = 1 THEN p[a].acc
               ELSE IF onlyCompile(a) THEN CompiledRelation(atom.op, p[a].left, p[a].acc)
               ELSE Relation(atom.op, p[a].left, p[a].acc)
  IN  IF ~atom.not THEN value
      ELSE IF onlyCompile(a) THEN CompiledTruth(value)
      ELSE Not(value)

\* A step that unboxes an object calls the JVM.
Unboxes(a) ==
  /\ ~onlyCompile(a)
  /\ CASE pc[a] = "relate" -> \/ /\ Len(Atom(a).operands) = 2 \/ Atom(a).not
                                 /\ {p[a].acc.type, p[a].left.type} \cap Boxes # {}
                              \/ p[a].j > 1 /\ p[a].acc.type \in Boxes
       [] pc[a] = "joined" -> p[a].and.type \in Boxes
       [] OTHER -> FALSE

Relate(a) ==
  /\ At(a, "relate")
  /\ Unboxes(a) => jvmEnv # Null
  /\ LET value == AtomValue(a)
         and == IF p[a].j = 1 \/ value.type = "ERROR" THEN value
                ELSE IF onlyCompile(a) THEN CompiledTruths(p[a].and, value)
                ELSE Both(p[a].and, value, And)
     IN  IF and.type = "ERROR" THEN Fail(a)
         ELSE Goto(a, "joined") /\ Put(a, [p[a] EXCEPT !.and = and])
  /\ UNCHANGED <<jvmEnv, isMinus, outside>>

NextPlace(rec) == [rec EXCEPT !.side = 1, !.t = 1, !.left = Unknown]

\* Mutant: the flag of && is that of the rule, not of the operands ahead.
NextAtomEager(a) ==
  /\ At(a, "joined")
  /\ p[a].j < Len(p[a].cond[p[a].i])
  /\ LET and == IF onlyCompile(a) THEN p[a].and ELSE getObjectValue(p[a].and)
     IN  IF ~onlyCompile(a) /\ and.type # "BOOL" THEN Fail(a)
         ELSE /\ Goto(a, "operand")
              /\ Put(a, [NextPlace(p[a]) EXCEPT !.j = @ + 1, !.and = and])
  /\ UNCHANGED <<jvmEnv, isMinus, outside>>

\* bTmp: FALSE && skips what follows, to the end of the conjunction.
NextAtom(a) ==
  /\ At(a, "joined")
  /\ p[a].j < Len(p[a].cond[p[a].i])
  /\ Unboxes(a) => jvmEnv # Null
  /\ LET and == IF onlyCompile(a) THEN p[a].and ELSE getObjectValue(p[a].and)
     IN  IF ~onlyCompile(a) /\ and.type # "BOOL" THEN Fail(a)
         ELSE /\ Goto(a, "operand")
              /\ Put(a, [NextPlace(p[a]) EXCEPT !.j = @ + 1, !.and = and,
                                                !.andSkip = @ \/ ~and.v])
  /\ UNCHANGED <<jvmEnv, isMinus, outside>>

\* Mutant: the flag of || starts as FALSE where a condition is compiled.
EndConjunctionForgets(a) ==
  /\ At(a, "joined")
  /\ p[a].j = Len(p[a].cond[p[a].i])
  /\ LET last == p[a].i = Len(p[a].cond)
         join == IF p[a].i = 1 THEN p[a].and
                 ELSE IF p[a].orSkip THEN CompiledTruths(p[a].or, p[a].and)
                 ELSE Both(p[a].or, p[a].and, Or)
         or   == IF last \/ p[a].orSkip THEN join ELSE getObjectValue(join)
     IN  IF join.type = "ERROR" \/ (~last /\ ~p[a].orSkip /\ or.type # "BOOL") THEN Fail(a)
         ELSE IF last THEN Goto(a, "verdict") /\ Put(a, [p[a] EXCEPT !.or = or])
         ELSE /\ Goto(a, "operand")
              /\ Put(a, [NextPlace(p[a]) EXCEPT !.i = @ + 1, !.j = 1, !.or = or,
                                                !.orSkip = or.v, !.andSkip = or.v])
  /\ UNCHANGED <<jvmEnv, isMinus, outside>>

\* TRUE || skips what follows, to the end of the condition.
EndConjunction(a) ==
  /\ At(a, "joined")
  /\ p[a].j = Len(p[a].cond[p[a].i])
  /\ Unboxes(a) => jvmEnv # Null
  /\ LET last == p[a].i = Len(p[a].cond)
         join == IF p[a].i = 1 THEN p[a].and
                 ELSE IF p[a].orSkip THEN CompiledTruths(p[a].or, p[a].and)
                 ELSE Both(p[a].or, p[a].and, Or)
         or   == IF last \/ p[a].orSkip THEN join ELSE getObjectValue(join)
         skip == p[a].orSkip \/ or.v
     IN  IF join.type = "ERROR" \/ (~last /\ ~p[a].orSkip /\ or.type # "BOOL") THEN Fail(a)
         ELSE IF last THEN Goto(a, "verdict") /\ Put(a, [p[a] EXCEPT !.or = or])
         ELSE /\ Goto(a, "operand")
              /\ Put(a, [NextPlace(p[a]) EXCEPT !.i = @ + 1, !.j = 1, !.or = or,
                                                !.orSkip = skip, !.andSkip = skip])
  /\ UNCHANGED <<jvmEnv, isMinus, outside>>
-----------------------------------------------------------------------------
(* Verdicts *)

VerdictOf(value) ==
  IF value.type # "BOOL" THEN "error" ELSE IF value.v THEN "true" ELSE "false"

\* expr and shouldDump: a dump is counted before it is made.
Verdict(d) ==
  /\ At(d, "verdict")
  /\ p[d].or.type = "OBJECT_BOOLEAN" => jvmEnv # Null
  /\ LET verdict == VerdictOf(IF p[d].or.type = "OBJECT_BOOLEAN" THEN getObjectValue(p[d].or)
                                                                 ELSE p[d].or)
     IN  /\ Put(d, [p[d] EXCEPT !.verdict = verdict])
         /\ dumpCount' = IF verdict = "true" THEN dumpCount + 1 ELSE dumpCount
  /\ Goto(d, "done")
  /\ UNCHANGED <<world, jvmEnv, isMinus, owner, file, installed, calls, overlapped, crashed>>

Return(d) ==
  /\ At(d, "done")
  /\ owner' = Null
  /\ Goto(d, "idle") /\ Put(d, Fresh)
  /\ UNCHANGED <<world, jvmEnv, isMinus, file, method, calls, overlapped, crashed>>

Accepts(value) == value.type \in {None, "BOOL"}

CompileVerdict ==
  /\ At(monitor, "verdict")
  /\ Goto(monitor, "done")
  /\ Put(monitor, [p[monitor] EXCEPT
       !.verdict = IF Accepts(p[monitor].or) THEN "accepted" ELSE "rejected"])
  /\ UNCHANGED <<jvmEnv, isMinus, outside>>

\* A rejected file leaves the former setting in place.
KeepSetting ==
  /\ At(monitor, "done") /\ p[monitor].verdict = "rejected"
  /\ Goto(monitor, "idle") /\ Put(monitor, Fresh)
  /\ UNCHANGED <<jvmEnv, isMinus, outside>>

\* setConfig, redefineClasses: the methods of the new Config replace the old
\* ones under configMonitor, and their counts start again.
Install ==
  /\ At(monitor, "done") /\ p[monitor].verdict = "accepted"
  /\ owner = Null
  /\ installed' = p[monitor].cond
  /\ dumpCount' = 0
  /\ Goto(monitor, "idle") /\ Put(monitor, Fresh)
  /\ UNCHANGED <<world, jvmEnv, isMinus, owner, file, calls, overlapped, crashed>>

\* The JVM is called through jvmEnv while it is NULL.
Crash(d) ==
  /\ ~crashed /\ Busy(d) /\ jvmEnv = Null
  /\ \/ pc[d] = "operand" /\ ReadsField(d)
     \/ pc[d] \in {"relate", "joined"} /\ Unboxes(d)
     \/ pc[d] = "verdict" /\ p[d].or.type = "OBJECT_BOOLEAN"
  /\ crashed' = TRUE
  /\ UNCHANGED <<world, jvmEnv, isMinus, owner, file, method, calls, pc, p, overlapped>>

Parse(a) ==
  \/ UnaryMinus(a) \/ ReadTerm(a) \/ Relate(a) \/ NextAtom(a) \/ EndConjunction(a)

Next ==
  \/ ReadFile \/ CompileVerdict \/ KeepSetting \/ Install
  \/ \E d \in Dumpers : dumpstackForMethod(d) \/ Verdict(d) \/ Return(d) \/ Crash(d)
  \/ \E a \in Actors : Enter(a) \/ Parse(a)

Spec == Init /\ [][Next]_vars
-----------------------------------------------------------------------------
(* What a condition means *)

Written(t, fields) ==
  IF t.field # ""
    THEN IF t.minus THEN Negative(fields[t.field]) ELSE fields[t.field]
    ELSE IF t.minus THEN Negative(t.lit) ELSE t.lit

OperandValue(terms, fields) ==
  LET Upto[n \in 1..Len(terms)] ==
        IF n = 1 THEN Written(terms[1], fields) ELSE Sum(Upto[n - 1], Written(terms[n], fields))
  IN  Upto[Len(terms)]

Truth(atom, fields) ==
  LET first == OperandValue(atom.operands[1], fields)
      value == IF Len(atom.operands) = 1 THEN first
               ELSE Relation(atom.op, first, OperandValue(atom.operands[2], fields))
  IN  VerdictOf(getObjectValue(IF atom.not THEN Not(value) ELSE value))

TermsOf(atoms) == UNION {Range(terms) : terms \in UNION {Range(atom.operands) : atom \in atoms}}
FieldsOf(atoms) == {t.field : t \in TermsOf(atoms)} \ {""}
AtomsOf(cond) == UNION {Range(conjunction) : conjunction \in Range(cond)}

Least(S) == CHOOSE n \in S : \A m \in S : n <= m

\* Parts are looked at up to the first whose truth is not neutral.
Decisive(truths, neutral) ==
  Least({n \in DOMAIN truths : truths[n] # neutral} \cup {Len(truths)})

Meaning(cond, fields) ==
  LET truths == [i \in DOMAIN cond |-> [j \in DOMAIN cond[i] |-> Truth(cond[i][j], fields)]]
      last   == [i \in DOMAIN cond |-> Decisive(truths[i], "true")]
      of     == [i \in DOMAIN cond |-> truths[i][last[i]]]
      end    == Decisive(of, "false")
      needed == UNION {{cond[i][j] : j \in 1..last[i]} : i \in 1..end}
  IN  [verdict |-> of[end], needed |-> needed]

\* The sign of a floating point literal is lost, and the number in an object
\* is not negated: divergences of their own.
LosesSign(t, fields) ==
  t.minus /\ IF t.field = "" THEN t.lit.type = "DOUBLE" ELSE fields[t.field].type \in Boxes

-----------------------------------------------------------------------------
(* Properties *)

\* Types.
TypeOK ==
  /\ jvmEnv \in Dumpers \cup {Null}
  /\ isMinus \in BOOLEAN
  /\ owner \in Dumpers \cup {Null}
  /\ pc \in [Actors -> {"idle", "enter", "operand", "relate", "joined", "verdict", "done"}]
  /\ file \in 0..Len(world.files)
  /\ dumpCount \in Nat
  /\ calls \in Nat
  /\ overlapped \subseteq Dumpers
  /\ crashed \in BOOLEAN
  /\ \A a \in Actors : /\ IsValue(p[a].acc) /\ IsValue(p[a].left) /\ IsValue(p[a].and) /\ IsValue(p[a].or)
                        /\ p[a].reads \subseteq DOMAIN world.fields
  /\ Busy(monitor) => p[monitor].andSkip /\ p[monitor].orSkip

\* The flags that || and && hand down amount to the short circuit meaning of
\* the condition: its verdict, and no field read behind the part that decides
\* (a test for null protects what follows it).  The sign of a literal, which
\* passes from rule to rule in the static isMinus, is neither lost nor taken
\* by another number.
EvaluatedAsWritten ==
  \A d \in Dumpers :
    /\ pc[d] = "done" /\ p[d].verdict \in {"true", "false", "error"}
    /\ p[d].cond # <<>> /\ d \notin overlapped
    /\ \A t \in TermsOf(AtomsOf(p[d].cond)) : ~LosesSign(t, world.fields)
    => LET meaning == Meaning(p[d].cond, world.fields)
       IN  /\ p[d].verdict = meaning.verdict
           /\ p[d].reads \subseteq FieldsOf(meaning.needed)
           /\ p[d].verdict # "error" => p[d].reads = FieldsOf(meaning.needed)

\* What compilation rejects has, whatever the fields hold, an atom that is
\* not true or false.  (Of float literals it also rejects good sums.)
RejectedIsWrong ==
  /\ pc[monitor] = "done" /\ p[monitor].verdict = "rejected"
  /\ \A t \in TermsOf(AtomsOf(p[monitor].cond)) : t.field # "" \/ t.lit.type # "FLOAT"
  => \A fields \in [FieldsOf(AtomsOf(p[monitor].cond)) -> FieldValues] :
       \E atom \in AtomsOf(p[monitor].cond) : Truth(atom, fields) = "error"

\* Of two threads that run the method, each evaluates in its own frames; only
\* a file that is read meanwhile takes the JVM away from it.
EnvIsOwn ==
  /\ \A d \in Dumpers : Busy(d) /\ pc[d] # "enter" /\ d \notin overlapped => jvmEnv = d
  /\ crashed => \E d \in overlapped : Busy(d)

\* The limit of dumps is kept although the count is tested before an
\* evaluation and raised after it.
DumpsWithinLimit == MaxDumpCount # 0 => dumpCount <= MaxDumpCount
=============================================================================
