------------------------ MODULE ConditionCheckProofs ------------------------
(***************************************************************************)
(* Proofs about ConditionCheck, for any threads, conditions, values of     *)
(* fields and number of files.  The first part is about the environment of *)
(* an evaluation and the limit of dumps, and rests on IInv alone; the      *)
(* second is about what compiling and evaluating a condition find out:     *)
(* ParserInv relates the registers of the parser to the part of the        *)
(* condition that a thread has read, and holds together with IInv.         *)
(***************************************************************************)
EXTENDS ConditionCheck, WellFoundedInduction, TLAPS

\* Induction over the natural numbers up to a bound.
LEMMA CountUp ==
  ASSUME NEW n \in Nat, NEW G, 0 \in G, \A i \in 0..n - 1 : i \in G => i + 1 \in G
  PROVE  0..n \subseteq G
<1> DEFINE Bad == {i \in Nat : i \in 0..n /\ i \notin G}
<1> SUFFICES ASSUME Bad # {} PROVE FALSE
  OBVIOUS
<1>1. PICK i \in Bad : \A j \in Bad : ~(<<j, i>> \in OpToRel(<, Nat))
  <2>1. Bad \subseteq Nat
    OBVIOUS
  <2> HIDE DEF Bad
  <2> QED BY <2>1, NatLessThanWellFounded, WFMin
<1>2. i - 1 \in Nat /\ i - 1 \in 0..n - 1
  OBVIOUS
<1>3. i - 1 \in G
  <2> SUFFICES ASSUME i - 1 \in Bad PROVE FALSE
    BY <1>2
  <2>1. Bad \subseteq Nat /\ i \in Nat
    OBVIOUS
  <2> HIDE DEF Bad
  <2>2. <<i - 1, i>> \in OpToRel(<, Nat)
    BY <1>2, <2>1 DEF OpToRel
  <2> QED BY <1>1, <2>2
<1>4. i \in G
  BY <1>2, <1>3
<1> QED BY <1>4

-----------------------------------------------------------------------------
(* The environment and the limit of dumps *)

Places == {"idle", "enter", "operand", "relate", "joined", "verdict", "done"}
Inside == {"operand", "relate", "joined"}

\* Whoever is past its call holds configMonitor.
Holds == \A d \in Dumpers : pc[d] # "idle" => owner = d

\* An evaluation is only begun, and goes on, while the limit is not reached.
Allowed == \A d \in Dumpers : Busy(d) => MayDump(dumpCount)

\* An evaluation knows that a file is being read.
Noted == Busy(monitor) => \A d \in Dumpers : Busy(d) => d \in overlapped

IInv ==
  /\ pc \in [Actors -> Places]
  /\ dumpCount \in Nat
  /\ Holds /\ Allowed /\ Noted /\ EnvIsOwn /\ DumpsWithinLimit

\* A step inside expr moves one thread, and neither enters nor leaves expr.
Moves(a) ==
  /\ ~crashed /\ pc[a] \in Inside
  /\ \E place \in Inside \cup {"verdict"} : pc' = [pc EXCEPT ![a] = place]
  /\ UNCHANGED <<jvmEnv, outside>>
-----------------------------------------------------------------------------
(* Steps of the parser *)

LEMMA StayMoves ==
  ASSUME NEW a \in Actors, pc \in [Actors -> Places], ~crashed, pc[a] \in Inside,
         UNCHANGED pc, UNCHANGED <<jvmEnv, outside>>
  PROVE  Moves(a)
<1>1. pc' = [pc EXCEPT ![a] = pc[a]]
  OBVIOUS
<1> QED BY <1>1, Zenon DEF Moves

LEMMA GotoMoves ==
  ASSUME NEW a \in Actors, ~crashed, pc[a] \in Inside,
         NEW place \in Inside \cup {"verdict"}, Goto(a, place), UNCHANGED <<jvmEnv, outside>>
  PROVE  Moves(a)
BY Zenon DEF Moves, Goto

\* Whatever the rules compute, a step of theirs only moves the thread on.
LEMMA ParseMoves ==
  ASSUME NEW a \in Actors, pc \in [Actors -> Places], Parse(a)
  PROVE  Moves(a)
<1>0. {"operand", "relate", "joined", "verdict"} \subseteq Inside \cup {"verdict"}
  BY DEF Inside
<1>1. CASE UnaryMinus(a)
  <2>1. ~crashed /\ pc[a] \in Inside /\ UNCHANGED pc /\ UNCHANGED <<jvmEnv, outside>>
    BY <1>1, Zenon DEF UnaryMinus, At, Inside, outside
  <2> QED BY <2>1, StayMoves
<1>2. CASE ReadTerm(a)
  <2>1. ~crashed /\ pc[a] \in Inside /\ UNCHANGED <<jvmEnv, outside>>
    BY <1>2, Zenon DEF ReadTerm, At, Inside
  <2>2. UNCHANGED pc \/ Goto(a, "verdict") \/ Goto(a, "relate")
    BY <1>2, Zenon DEF ReadTerm
  <2> QED BY <2>1, <2>2, <1>0, StayMoves, GotoMoves, Zenon
<1>3. CASE Relate(a)
  <2>1. ~crashed /\ pc[a] \in Inside /\ UNCHANGED <<jvmEnv, outside>>
    BY <1>3, Zenon DEF Relate, At, Inside
  <2>2. Goto(a, "verdict") \/ Goto(a, "joined")
    BY <1>3, Zenon DEF Relate, Fail
  <2> QED BY <2>1, <2>2, <1>0, GotoMoves, Zenon
<1>4. CASE NextAtom(a)
  <2>1. ~crashed /\ pc[a] \in Inside /\ UNCHANGED <<jvmEnv, outside>>
    BY <1>4, Zenon DEF NextAtom, At, Inside
  <2>2. Goto(a, "verdict") \/ Goto(a, "operand")
    BY <1>4, Zenon DEF NextAtom, Fail
  <2> QED BY <2>1, <2>2, <1>0, GotoMoves, Zenon
<1>5. CASE EndConjunction(a)
  <2>1. ~crashed /\ pc[a] \in Inside /\ UNCHANGED <<jvmEnv, outside>>
    BY <1>5, Zenon DEF EndConjunction, At, Inside
  <2>2. Goto(a, "verdict") \/ Goto(a, "operand")
    BY <1>5, Zenon DEF EndConjunction, Fail
  <2> QED BY <2>1, <2>2, <1>0, GotoMoves, Zenon
<1> QED BY <1>1, <1>2, <1>3, <1>4, <1>5 DEF Parse

LEMMA MovesKeepsIInv ==
  ASSUME NEW a \in Actors, IInv, Moves(a)
  PROVE  IInv'
<1>1. PICK place \in Inside \cup {"verdict"} : pc' = [pc EXCEPT ![a] = place]
  BY DEF Moves
<1>2. UNCHANGED <<jvmEnv, owner, dumpCount, overlapped, crashed>> /\ ~crashed /\ pc[a] \in Inside
  BY DEF Moves, outside, method
<1>3. pc' \in [Actors -> Places]
  BY <1>1 DEF IInv, Places, Inside
<1>4. \A b \in Actors : (Busy(b)' <=> Busy(b)) /\ (pc'[b] = "idle" <=> pc[b] = "idle")
                        /\ (pc'[b] = "enter" <=> pc[b] = "enter")
  BY <1>1, <1>2 DEF IInv, Busy, Inside, Places
<1>5. monitor \in Actors /\ Dumpers \subseteq Actors
  BY DEF Actors
<1>6. Holds' /\ Allowed' /\ Noted'
  BY <1>2, <1>4, <1>5 DEF IInv, Holds, Allowed, Noted, MayDump
<1>7. EnvIsOwn'
  BY <1>2, <1>4, <1>5 DEF IInv, EnvIsOwn
<1> QED BY <1>2, <1>3, <1>6, <1>7 DEF IInv, DumpsWithinLimit
-----------------------------------------------------------------------------
(* The other steps *)

LEMMA InitIInv == Init => IInv
<1> SUFFICES ASSUME Init PROVE IInv
  OBVIOUS
<1>1. pc = [a \in Actors |-> "idle"] /\ dumpCount = 0 /\ ~crashed
  BY DEF Init
<1>2. \A a \in Actors : pc[a] = "idle" /\ ~Busy(a)
  BY <1>1 DEF Busy
<1>3. monitor \in Actors /\ Dumpers \subseteq Actors
  BY DEF Actors
<1> QED
  BY <1>1, <1>2, <1>3, LimitIsNumber
  DEF IInv, Places, Holds, Allowed, Noted, EnvIsOwn, DumpsWithinLimit

\* A file is read from the start: whoever evaluates is noted.
LEMMA ReadFileKeepsIInv ==
  ASSUME IInv, ReadFile
  PROVE  IInv'
<1>1. PICK place \in {"enter", "done"} : pc' = [pc EXCEPT ![monitor] = place]
  BY Zenon DEF ReadFile, Start, End, Goto
<1>2. UNCHANGED <<jvmEnv, owner, dumpCount, crashed>> /\ ~crashed
  BY DEF ReadFile, At, method
<1>3. overlapped' = overlapped \cup {d \in Dumpers : Busy(d)}
  BY DEF ReadFile
<1>4. monitor \in Actors /\ Dumpers \subseteq Actors
  BY DEF Actors
<1>5. pc' \in [Actors -> Places] /\ \A d \in Dumpers : pc'[d] = pc[d] /\ (Busy(d)' <=> Busy(d))
  BY <1>1, <1>4, ActorsDiffer DEF IInv, Places, Busy
<1> QED
  BY <1>2, <1>3, <1>5
  DEF IInv, Holds, Allowed, Noted, EnvIsOwn, DumpsWithinLimit, MayDump

\* A call takes configMonitor, so no other thread is past its call, and it is
\* noted if a file is being read.
LEMMA CallKeepsIInv ==
  ASSUME NEW d \in Dumpers, IInv, dumpstackForMethod(d)
  PROVE  IInv'
<1>1. PICK place \in {"enter", "done"} : /\ pc' = [pc EXCEPT ![d] = place]
                                         /\ place = "enter" => MayDump(dumpCount)
  BY Zenon DEF dumpstackForMethod, Check, Start, End, Goto
<1>2. owner = Null /\ owner' = d /\ UNCHANGED <<jvmEnv, crashed>> /\ ~crashed
  BY DEF dumpstackForMethod, Call, Check, At
<1>3. overlapped' = IF Busy(monitor) THEN overlapped \cup {d} ELSE overlapped \ {d}
  BY DEF dumpstackForMethod, Call
<1>4. monitor \in Actors /\ Dumpers \subseteq Actors /\ Null \notin Dumpers /\ monitor \notin Dumpers
  BY ActorsDiffer DEF Actors
<1>5. \A e \in Dumpers : pc[e] = "idle"
  BY <1>2, <1>4 DEF IInv, Holds
<1>6. /\ pc' \in [Actors -> Places]
      /\ pc'[d] = place
      /\ \A e \in Dumpers \ {d} : pc'[e] = "idle"
      /\ pc'[monitor] = pc[monitor]
  BY <1>1, <1>4, <1>5 DEF IInv, Places
<1>7. \/ UNCHANGED dumpCount
      \/ dumpCount' = dumpCount + 1 /\ MayDump(dumpCount) /\ place = "done"
  <2>1. CASE ~MayDump(dumpCount)
    BY <2>1 DEF dumpstackForMethod, Check
  <2>2. CASE MayDump(dumpCount) /\ installed # <<>>
    BY <2>2 DEF dumpstackForMethod, Check
  <2>3. CASE MayDump(dumpCount) /\ installed = <<>>
    <3>1. End(d, installed, "true") /\ dumpCount' = dumpCount + 1
      BY <2>3 DEF dumpstackForMethod, Check
    <3>2. pc'[d] = "done"
      BY <3>1, <1>4 DEF End, Goto, IInv
    <3> QED BY <2>3, <3>1, <3>2, <1>6
  <2> QED BY <2>1, <2>2, <2>3
<1>8. pc' \in [Actors -> Places] /\ dumpCount' \in Nat
  BY <1>6, <1>7 DEF IInv
<1>9. Holds'
  BY <1>2, <1>6 DEF Holds
<1>10. Allowed'
  BY <1>1, <1>6, <1>7 DEF Allowed, Busy, MayDump
<1>11. Noted'
  BY <1>3, <1>6 DEF Noted, Busy
<1>12. EnvIsOwn'
  BY <1>1, <1>2, <1>6 DEF EnvIsOwn, Busy
<1>13. DumpsWithinLimit'
  BY <1>7, LimitIsNumber DEF IInv, DumpsWithinLimit, MayDump
<1> QED BY <1>8, <1>9, <1>10, <1>11, <1>12, <1>13 DEF IInv

\* expr sets jvmEnv: to the owner of configMonitor, or to NULL when a file is
\* read, and then every evaluation is noted.
LEMMA EnterKeepsIInv ==
  ASSUME NEW a \in Actors, IInv, Enter(a)
  PROVE  IInv'
<1>1. pc[a] = "enter" /\ ~crashed /\ pc' = [pc EXCEPT ![a] = "operand"]
      /\ UNCHANGED <<owner, dumpCount, overlapped, crashed>>
  BY DEF Enter, At, Goto, method
<1>2. monitor \in Actors /\ Dumpers \subseteq Actors
  BY DEF Actors
<1>3. pc' \in [Actors -> Places]
  BY <1>1 DEF IInv, Places
<1>4. \A b \in Actors : (Busy(b)' <=> Busy(b)) /\ (pc'[b] = "idle" <=> pc[b] = "idle")
                        /\ (b # a => pc'[b] = pc[b])
  BY <1>1 DEF IInv, Busy
<1>5. Holds' /\ Allowed' /\ Noted'
  BY <1>1, <1>2, <1>4 DEF IInv, Holds, Allowed, Noted, MayDump
<1>6. EnvIsOwn'
  <2>1. CASE a = monitor
    <3>1. \A d \in Dumpers : Busy(d)' => d \in overlapped'
      BY <2>1, <1>1, <1>2, <1>4 DEF IInv, Noted, Busy
    <3> QED BY <3>1, <1>1 DEF EnvIsOwn
  <2>2. CASE a # monitor
    <3>1. jvmEnv' = a /\ a \in Dumpers
      BY <2>2 DEF Enter, Actors
    <3>2. \A d \in Dumpers : Busy(d)' => d = a
      BY <3>1, <1>1, <1>2, <1>4 DEF IInv, Holds, Busy
    <3> QED BY <3>1, <3>2, <1>1 DEF EnvIsOwn
  <2> QED BY <2>1, <2>2
<1> QED BY <1>1, <1>3, <1>5, <1>6 DEF IInv, DumpsWithinLimit

\* The only evaluation counts its dump: the limit was not reached when it began.
LEMMA VerdictKeepsIInv ==
  ASSUME NEW d \in Dumpers, IInv, Verdict(d)
  PROVE  IInv'
<1>1. pc[d] = "verdict" /\ ~crashed /\ pc' = [pc EXCEPT ![d] = "done"]
      /\ UNCHANGED <<jvmEnv, owner, overlapped, crashed>>
  BY Zenon DEF Verdict, At, Goto
<1>2. dumpCount' = dumpCount + 1 \/ dumpCount' = dumpCount
  BY DEF Verdict
<1>3. monitor \in Actors /\ Dumpers \subseteq Actors /\ d # monitor
  BY ActorsDiffer DEF Actors
<1>4. /\ pc' \in [Actors -> Places]
      /\ ~Busy(d)'
      /\ \A b \in Actors \ {d} : pc'[b] = pc[b]
  BY <1>1, <1>3 DEF IInv, Places, Busy
<1>5. owner = d /\ \A e \in Dumpers \ {d} : pc[e] = "idle"
  BY <1>1 DEF IInv, Holds
<1>6. MayDump(dumpCount)
  BY <1>1 DEF IInv, Allowed, Busy
<1>7. Holds' /\ Allowed' /\ Noted' /\ EnvIsOwn'
  BY <1>1, <1>3, <1>4, <1>5 DEF Holds, Allowed, Noted, EnvIsOwn, Busy
<1>8. dumpCount' \in Nat /\ DumpsWithinLimit'
  BY <1>2, <1>6, LimitIsNumber DEF IInv, DumpsWithinLimit, MayDump
<1> QED BY <1>4, <1>7, <1>8 DEF IInv

\* The thread that returns was the only one that held configMonitor.
LEMMA ReturnKeepsIInv ==
  ASSUME NEW d \in Dumpers, IInv, Return(d)
  PROVE  IInv'
<1>1. pc[d] = "done" /\ pc' = [pc EXCEPT ![d] = "idle"] /\ ~crashed
      /\ UNCHANGED <<jvmEnv, dumpCount, overlapped, crashed>>
  BY DEF Return, At, Goto, method
<1>2. monitor \in Actors /\ Dumpers \subseteq Actors /\ d # monitor
  BY ActorsDiffer DEF Actors
<1>3. owner = d /\ \A e \in Dumpers \ {d} : pc[e] = "idle"
  BY <1>1 DEF IInv, Holds
<1>4. pc' \in [Actors -> Places] /\ \A e \in Dumpers : pc'[e] = "idle"
  BY <1>1, <1>2, <1>3 DEF IInv, Places
<1>5. Holds' /\ Allowed' /\ Noted' /\ EnvIsOwn'
  BY <1>1, <1>4 DEF Holds, Allowed, Noted, EnvIsOwn, Busy
<1> QED BY <1>1, <1>4, <1>5 DEF IInv, DumpsWithinLimit

\* The end of a file that is read: no dumper is disturbed, and the methods are
\* only replaced while nobody holds configMonitor.
LEMMA FileEndsKeepsIInv ==
  ASSUME IInv, CompileVerdict \/ KeepSetting \/ Install
  PROVE  IInv'
<1>1. PICK place \in {"idle", "done"} : pc' = [pc EXCEPT ![monitor] = place]
  BY Zenon DEF CompileVerdict, KeepSetting, Install, Goto
<1>2. UNCHANGED <<jvmEnv, owner, overlapped, crashed>> /\ ~crashed
  BY DEF CompileVerdict, KeepSetting, Install, At, outside
<1>3. UNCHANGED dumpCount \/ dumpCount' = 0
  BY DEF CompileVerdict, KeepSetting, Install, outside, method
<1>4. monitor \in Actors /\ Dumpers \subseteq Actors /\ monitor \notin Dumpers
  BY ActorsDiffer DEF Actors
<1>5. /\ pc' \in [Actors -> Places]
      /\ ~Busy(monitor)'
      /\ \A d \in Dumpers : pc'[d] = pc[d] /\ (Busy(d)' <=> Busy(d))
  BY <1>1, <1>4 DEF IInv, Places, Busy
<1>6. Holds' /\ Noted' /\ EnvIsOwn'
  BY <1>2, <1>5 DEF IInv, Holds, Noted, EnvIsOwn
<1>7. dumpCount' \in Nat /\ Allowed' /\ DumpsWithinLimit'
  BY <1>3, <1>5, LimitIsNumber DEF IInv, Allowed, MayDump, DumpsWithinLimit
<1> QED BY <1>5, <1>6, <1>7 DEF IInv

\* The JVM can only end under an evaluation that is noted: jvmEnv is its own
\* otherwise.
LEMMA CrashKeepsIInv ==
  ASSUME NEW d \in Dumpers, IInv, Crash(d)
  PROVE  IInv'
<1>1. UNCHANGED <<pc, jvmEnv, owner, dumpCount, overlapped>> /\ Busy(d) /\ jvmEnv = Null
  BY DEF Crash, method
<1>2. pc[d] # "enter" /\ Null # d
  BY ActorsDiffer DEF Crash, Actors
<1>3. d \in overlapped
  BY <1>1, <1>2 DEF IInv, EnvIsOwn
<1>4. EnvIsOwn'
  BY <1>1, <1>3 DEF IInv, EnvIsOwn, Busy
<1> QED
  BY <1>1, <1>4 DEF IInv, Holds, Allowed, Noted, Busy, MayDump, DumpsWithinLimit

LEMMA StutterKeepsIInv ==
  ASSUME IInv, UNCHANGED vars
  PROVE  IInv'
BY DEF IInv, Holds, Allowed, Noted, EnvIsOwn, Busy, MayDump, DumpsWithinLimit, vars, outside, method
-----------------------------------------------------------------------------
(* Theorems *)

\* The invariant that everything rests on.
THEOREM IInvHolds == Spec => []IInv
<1>1. IInv /\ [Next]_vars => IInv'
  <2> SUFFICES ASSUME IInv, [Next]_vars PROVE IInv'
    OBVIOUS
  <2>1. CASE ReadFile BY <2>1, ReadFileKeepsIInv
  <2>2. CASE CompileVerdict \/ KeepSetting \/ Install BY <2>2, FileEndsKeepsIInv
  <2>3. ASSUME NEW d \in Dumpers, dumpstackForMethod(d) PROVE IInv' BY <2>3, CallKeepsIInv
  <2>4. ASSUME NEW d \in Dumpers, Verdict(d) PROVE IInv' BY <2>4, VerdictKeepsIInv
  <2>5. ASSUME NEW d \in Dumpers, Return(d) PROVE IInv' BY <2>5, ReturnKeepsIInv
  <2>6. ASSUME NEW d \in Dumpers, Crash(d) PROVE IInv' BY <2>6, CrashKeepsIInv
  <2>7. ASSUME NEW a \in Actors, Enter(a) PROVE IInv' BY <2>7, EnterKeepsIInv
  <2>8. ASSUME NEW a \in Actors, Parse(a) PROVE IInv'
    <3>1. Moves(a)
      BY <2>8, ParseMoves DEF IInv
    <3> QED BY <3>1, MovesKeepsIInv
  <2>9. CASE UNCHANGED vars BY <2>9, StutterKeepsIInv
  <2> QED
    BY <2>1, <2>2, <2>3, <2>4, <2>5, <2>6, <2>7, <2>8, <2>9 DEF Next
<1> QED BY <1>1, InitIInv, PTL DEF Spec

\* CcatParser::jvmEnv is static: it is the JVM of the thread that evaluates
\* unless a file was read during its evaluation.
THEOREM EnvStaysOwn == Spec => []EnvIsOwn
<1>1. IInv => EnvIsOwn
  BY DEF IInv
<1> QED BY <1>1, IInvHolds, PTL

\* shouldDump never lets a method dump more often than configured.
THEOREM DumpsStayWithinLimit == Spec => []DumpsWithinLimit
<1>1. IInv => DumpsWithinLimit
  BY DEF IInv
<1> QED BY <1>1, IInvHolds, PTL

-----------------------------------------------------------------------------
(* What a rule that only compiles makes of a term, of the first n terms of *)
(* an operand, of an operand and of an atom.                               *)

TypeOfTerm(t) ==
  LET type == IF t.field = "" THEN V(t.lit.type, FALSE) ELSE Unknown
  IN  IF t.minus THEN CompiledNumber({type.type}) ELSE type

TermsFit(terms, n) ==
  \A k \in 1..n : /\ TypeOfTerm(terms[k]).type # "ERROR"
                  /\ n > 1 => TypeOfTerm(terms[k]).type # "FLOAT"

TypeUpto(terms, n) == IF n = 1 THEN TypeOfTerm(terms[1]) ELSE V("DOUBLE", 0)

OperandType(terms) ==
  IF TermsFit(terms, Len(terms)) THEN TypeUpto(terms, Len(terms)) ELSE Error

AtomType(atom) ==
  LET left  == OperandType(atom.operands[1])
      right == OperandType(atom.operands[2])
      value == IF Len(atom.operands) = 1 THEN left
               ELSE IF "ERROR" \in {left.type, right.type} THEN Error
               ELSE CompiledRelation(atom.op, left, right)
  IN  IF atom.not THEN CompiledTruth(value) ELSE value

Fits(atom) == Accepts(AtomType(atom))

ConjunctionFits(atoms) == \A j \in DOMAIN atoms : Fits(atoms[j])
AllFit(cond) == \A i \in DOMAIN cond : ConjunctionFits(cond[i])
-----------------------------------------------------------------------------
(* What a condition means, part by part *)

\* The sums of the first terms of an operand.
ValuesUpto(terms, fields) ==
  LET Upto[n \in 1..Len(terms)] ==
        IF n = 1 THEN Written(terms[1], fields) ELSE Sum(Upto[n - 1], Written(terms[n], fields))
  IN  Upto

TruthAt(fields, cond, i, j) == Truth(cond[i][j], fields)

\* The atom that decides conjunction i, and the conjunction that decides.
LastAtom(fields, cond, i) == Decisive([j \in DOMAIN cond[i] |-> TruthAt(fields, cond, i, j)], "true")
TruthOf(fields, cond, i)  == TruthAt(fields, cond, i, LastAtom(fields, cond, i))
LastConjunction(fields, cond) == Decisive([i \in DOMAIN cond |-> TruthOf(fields, cond, i)], "false")

IsNeeded(fields, cond, i, j) == i <= LastConjunction(fields, cond) /\ j <= LastAtom(fields, cond, i)

NeededAtoms(fields, cond) ==
  UNION {{cond[i][j] : j \in 1..LastAtom(fields, cond, i)} : i \in 1..LastConjunction(fields, cond)}
-----------------------------------------------------------------------------
(* Where a thread is in the parser: r is its place p, place is its pc.     *)

AtomOf(r)    == r.cond[r.i][r.j]
OperandOf(r) == AtomOf(r).operands[r.side]

\* Terms of the operand, and atoms of the conjunction, that are done with.
TermsDone(r, place) == IF place = "operand" THEN r.t - 1 ELSE r.t
AtomsDone(r, place) == IF place = "joined" THEN r.j ELSE r.j - 1

\* Places and types.
RecordOK(fields, r, place) ==
  /\ DOMAIN r = DOMAIN Fresh
  /\ r.signed \in BOOLEAN /\ r.andSkip \in BOOLEAN /\ r.orSkip \in BOOLEAN
  /\ IsValue(r.acc) /\ IsValue(r.left) /\ IsValue(r.and) /\ IsValue(r.or)
  /\ r.reads \subseteq DOMAIN fields
  /\ IsCondition(r.cond, DOMAIN fields)
  /\ place \in {"enter"} \cup Inside =>
       /\ r.i \in DOMAIN r.cond /\ r.j \in DOMAIN r.cond[r.i]
       /\ r.side \in DOMAIN AtomOf(r).operands /\ r.t \in DOMAIN OperandOf(r)
  /\ place = "enter" => /\ r.i = 1 /\ r.j = 1 /\ r.side = 1 /\ r.t = 1
                        /\ ~r.signed /\ r.reads = {}
  /\ place = "relate" => r.side = Len(AtomOf(r).operands) /\ r.t = Len(OperandOf(r))
  /\ r.signed => place = "operand" /\ IsNumber(OperandOf(r)[r.t]) /\ OperandOf(r)[r.t].minus

\* The types of what was compiled of an atom.
CompileOK(r, place) ==
  place \in {"operand", "relate"} /\ r.andSkip =>
    /\ TermsDone(r, place) > 0 =>
         /\ TermsFit(OperandOf(r), TermsDone(r, place))
         /\ r.acc = TypeUpto(OperandOf(r), TermsDone(r, place))
    /\ r.side = 2 => /\ r.left = OperandType(AtomOf(r).operands[1])
                     /\ r.left.type # "ERROR"

\* What compiling has found out about the atoms behind.
JudgeOK(r, place) ==
  /\ place \in {"enter"} \cup Inside => r.andSkip /\ r.orSkip
  /\ place \in Inside =>
       /\ r.i > 1 => (Accepts(r.or) <=> \A k \in 1..r.i - 1 : ConjunctionFits(r.cond[k]))
       /\ AtomsDone(r, place) > 0 =>
            (Accepts(r.and) <=> \A k \in 1..AtomsDone(r, place) : Fits(r.cond[r.i][k]))
  /\ place = "verdict" => (Accepts(r.or) <=> AllFit(r.cond))
  /\ place = "done" => r.verdict = IF AllFit(r.cond) THEN "accepted" ELSE "rejected"

\* The values of what was evaluated of an atom, and the fields that were read.
ValueOK(fields, r, place) ==
  place \in {"operand", "relate"} /\ ~r.andSkip =>
    /\ TermsDone(r, place) > 0 =>
         r.acc = ValuesUpto(OperandOf(r), fields)[TermsDone(r, place)]
    /\ \A k \in 1..TermsDone(r, place) :
         OperandOf(r)[k].field # "" => OperandOf(r)[k].field \in r.reads
    /\ r.side = 2 =>
         /\ r.left = OperandValue(AtomOf(r).operands[1], fields)
         /\ \A t \in Range(AtomOf(r).operands[1]) : t.field # "" => t.field \in r.reads

\* The conjunctions behind: one is true, or all are false.
OrOK(fields, r) ==
  IF r.orSkip
    THEN /\ r.andSkip /\ r.or.type = "BOOL" /\ r.or.v = TRUE
         /\ LastConjunction(fields, r.cond) < r.i
         /\ TruthOf(fields, r.cond, LastConjunction(fields, r.cond)) = "true"
    ELSE /\ \A k \in 1..r.i - 1 : TruthOf(fields, r.cond, k) = "false"
         /\ r.i > 1 => r.or.type = "BOOL" /\ r.or.v = FALSE

\* The atoms of the conjunction behind: one is false, or all are true.
AndOK(fields, r, place) ==
  /\ AtomsDone(r, place) > 0 /\ r.andSkip => Accepts(r.and)
  /\ ~r.orSkip =>
       IF r.andSkip
         THEN /\ r.j > 1 /\ r.and.type = "BOOL" /\ r.and.v = FALSE
              /\ LastAtom(fields, r.cond, r.i) < r.j
              /\ TruthOf(fields, r.cond, r.i) = "false"
         ELSE /\ \A k \in 1..r.j - 1 : TruthAt(fields, r.cond, r.i, k) = "true"
              /\ place # "joined" /\ r.j > 1 => r.and.type = "BOOL" /\ r.and.v = TRUE
              /\ place = "joined" =>
                   VerdictOf(getObjectValue(r.and)) = TruthAt(fields, r.cond, r.i, r.j)

ReadsOK(fields, r, place) ==
  /\ r.reads \subseteq FieldsOf(NeededAtoms(fields, r.cond))
  /\ \A k \in DOMAIN r.cond : \A l \in DOMAIN r.cond[k] :
       /\ k < r.i \/ (k = r.i /\ l <= AtomsDone(r, place))
       /\ IsNeeded(fields, r.cond, k, l)
       => FieldsOf({r.cond[k][l]}) \subseteq r.reads

Final(fields, r, verdict) ==
  LET meaning == Meaning(r.cond, fields)
  IN  /\ verdict = meaning.verdict
      /\ r.reads \subseteq FieldsOf(meaning.needed)
      /\ verdict # "error" => r.reads = FieldsOf(meaning.needed)

\* Conditions that EvaluatedAsWritten is about.
NoSignLost(fields, cond) == \A t \in TermsOf(AtomsOf(cond)) : ~LosesSign(t, fields)

EvalOK(fields, r, place) ==
  NoSignLost(fields, r.cond) =>
    /\ place = "enter" => ~r.andSkip /\ ~r.orSkip
    /\ place \in Inside =>
         ValueOK(fields, r, place) /\ OrOK(fields, r) /\ AndOK(fields, r, place) /\ ReadsOK(fields, r, place)
    /\ place = "verdict" => Final(fields, r, VerdictOf(getObjectValue(r.or)))
    /\ place = "done" /\ r.cond # <<>> /\ r.verdict \in {"true", "false", "error"} =>
         Final(fields, r, r.verdict)

\* Globals.
WorldOK ==
  /\ world \in Worlds /\ file \in 0..Len(world.files) /\ calls \in Nat
  /\ jvmEnv \in Dumpers \cup {Null} /\ isMinus \in BOOLEAN /\ owner \in Dumpers \cup {Null}
  /\ overlapped \subseteq Dumpers /\ crashed \in BOOLEAN
  /\ DOMAIN p = Actors
  /\ installed # None => IsCondition(installed, DOMAIN world.fields) /\ AllFit(installed)

\* One thread: the monitor compiles what it reads, the others evaluate what
\* was accepted, with the sign of their own number unless a file is read.
ThreadOK(a) ==
  /\ RecordOK(world.fields, p[a], pc[a]) /\ CompileOK(p[a], pc[a])
  /\ a = monitor => JudgeOK(p[a], pc[a]) /\ (Busy(a) => p[a].andSkip /\ p[a].orSkip)
  /\ a # monitor /\ pc[a] # "idle" => AllFit(p[a].cond)
  /\ a # monitor /\ a \notin overlapped =>
       /\ EvalOK(world.fields, p[a], pc[a])
       /\ Busy(a) /\ pc[a] # "enter" => isMinus = p[a].signed

\* The invariant of the parser.
ParserInv == WorldOK /\ \A a \in Actors : ThreadOK(a)

-----------------------------------------------------------------------------
(* Values *)

LEMMA ErrorIs == Error.type = "ERROR" /\ IsValue(Error) /\ ~Accepts(Error) /\ IsValue(Unknown)
                 /\ Unknown.type = None
BY NoneIsNoType DEF Error, Unknown, V, IsValue, Types, Accepts

LEMMA BoolIs == ASSUME NEW b PROVE Bool(b).type = "BOOL" /\ Bool(b).v = b /\ (b \in BOOLEAN => IsValue(Bool(b)))
BY NoneIsNoType DEF Bool, V, IsValue, Types

\* What is taken out of an object; all but a Boolean keeps being no truth.
LEMMA Unboxed ==
  ASSUME NEW a, IsValue(a)
  PROVE  /\ IsValue(getObjectValue(a))
         /\ a.type \notin Boxes => getObjectValue(a) = a
         /\ getObjectValue(a).type = "BOOL" <=> a.type \in {"BOOL", "OBJECT_BOOLEAN"}
         /\ getObjectValue(a).type = "ERROR" <=> a.type = "ERROR"
BY NoneIsNoType DEF IsValue, Types, Boxes, Objects, Numbers, getObjectValue, V

LEMMA OrderedIs == ASSUME NEW test, NEW l, NEW r PROVE Ordered(test, l, r) \in BOOLEAN
<1>1. (l = r) \in BOOLEAN /\ (l > r) \in BOOLEAN /\ (l >= r) \in BOOLEAN
  OBVIOUS
<1>2. CASE test = "equal"
  BY <1>1, <1>2, Zenon DEF Ordered
<1>3. CASE test = "greater"
  BY <1>1, <1>3, Zenon DEF Ordered
<1>4. CASE test \notin {"equal", "greater"}
  BY <1>1, <1>4, Zenon DEF Ordered
<1> QED BY <1>2, <1>3, <1>4

LEMMA RelatedIs ==
  ASSUME NEW a, NEW b, NEW test
  PROVE  /\ IsValue(relationValue(a, b, test))
         /\ relationValue(a, b, test).type \in {"BOOL", "ERROR"}
<1>1. IsValue(Error) /\ Error.type = "ERROR"
  BY ErrorIs
<1>2. \A x \in BOOLEAN : IsValue(Bool(x)) /\ Bool(x).type = "BOOL"
  BY BoolIs
<1> DEFINE l == getObjectValue(a)
           r == getObjectValue(b)
<1>3. (l.v = r.v) \in BOOLEAN /\ Ordered(test, l.v, r.v) \in BOOLEAN
  BY OrderedIs
<1>4. relationValue(a, b, test) \in {Bool(Ordered(test, l.v, r.v)), Bool(l.v = r.v), Error}
  BY Zenon DEF relationValue
<1> HIDE DEF l, r
<1>5. relationValue(a, b, test) = Bool(Ordered(test, l.v, r.v)) \/ relationValue(a, b, test) = Bool(l.v = r.v)
      \/ relationValue(a, b, test) = Error
  BY <1>4, Zenon
<1> QED BY <1>1, <1>2, <1>3, <1>5, Zenon

LEMMA NotIs ==
  ASSUME NEW a, IsValue(a)
  PROVE  IsValue(Not(a)) /\ Not(a).type \in {"BOOL", "ERROR"}
<1>1. IsValue(getObjectValue(a))
  BY Unboxed
<1> QED BY <1>1, ErrorIs, BoolIs DEF Not, IsValue

LEMMA EqualIs ==
  ASSUME NEW a, NEW b
  PROVE  IsValue(Equal(a, b)) /\ Equal(a, b).type \in {"BOOL", "ERROR"}
BY ErrorIs, BoolIs, RelatedIs DEF Equal

LEMMA RelationIs ==
  ASSUME NEW a, NEW b, NEW op \in Comparisons
  PROVE  IsValue(Relation(op, a, b)) /\ Relation(op, a, b).type \in {"BOOL", "ERROR"}
<1>1. IsValue(Equal(a, b)) /\ Equal(a, b).type \in {"BOOL", "ERROR"}
  BY EqualIs
<1>2. IsValue(Not(Equal(a, b))) /\ Not(Equal(a, b)).type \in {"BOOL", "ERROR"}
  BY <1>1, NotIs
<1>3. \A x, y, test : IsValue(relationValue(x, y, test)) /\ relationValue(x, y, test).type \in {"BOOL", "ERROR"}
  BY RelatedIs
<1> QED BY <1>1, <1>2, <1>3 DEF Relation, Comparisons

LEMMA NegativeIs ==
  ASSUME NEW a
  PROVE  IsValue(Negative(a)) /\ Negative(a).type \in Numbers \cup {"ERROR"}
BY ErrorIs, NoneIsNoType DEF Negative, IsValue, V, Numbers, Types

LEMMA SumIs ==
  ASSUME NEW a, NEW b
  PROVE  IsValue(Sum(a, b)) /\ Sum(a, b).type \in Numbers \cup {"ERROR"}
BY ErrorIs, NoneIsNoType DEF Sum, IsValue, V, Numbers, Types

LEMMA BothIs ==
  ASSUME NEW a, NEW b, IsValue(a), IsValue(b), NEW truth \in [BOOLEAN \X BOOLEAN -> BOOLEAN]
  PROVE  /\ IsValue(Both(a, b, truth))
         /\ IF getObjectValue(a).type = "BOOL" /\ getObjectValue(b).type = "BOOL"
              THEN /\ Both(a, b, truth).type = "BOOL"
                   /\ Both(a, b, truth).v = truth[getObjectValue(a).v, getObjectValue(b).v]
              ELSE Both(a, b, truth).type = "ERROR"
<1>1. IsValue(getObjectValue(a)) /\ IsValue(getObjectValue(b))
  BY Unboxed
<1>2. CASE getObjectValue(a).type = "BOOL" /\ getObjectValue(b).type = "BOOL"
  <2>1. getObjectValue(a).v \in BOOLEAN /\ getObjectValue(b).v \in BOOLEAN
    BY <1>1, <1>2 DEF IsValue
  <2>2. truth[getObjectValue(a).v, getObjectValue(b).v] \in BOOLEAN
    BY <2>1
  <2>3. Both(a, b, truth) = Bool(truth[getObjectValue(a).v, getObjectValue(b).v])
    BY <1>2 DEF Both
  <2> QED BY <1>2, <2>2, <2>3, BoolIs
<1>3. CASE ~(getObjectValue(a).type = "BOOL" /\ getObjectValue(b).type = "BOOL")
  BY <1>3, ErrorIs DEF Both
<1> QED BY <1>2, <1>3

LEMMA TruthTables ==
  /\ Or \in [BOOLEAN \X BOOLEAN -> BOOLEAN] /\ And \in [BOOLEAN \X BOOLEAN -> BOOLEAN]
  /\ \A l, r \in BOOLEAN : (Or[l, r] <=> l \/ r) /\ (And[l, r] <=> l /\ r)
BY DEF Or, And

LEMMA CompiledIs ==
  ASSUME NEW a, NEW b, IsValue(a), IsValue(b)
  PROVE  /\ IsValue(CompiledTruth(a)) /\ CompiledTruth(a).type \in {"BOOL", "ERROR"}
         /\ Accepts(CompiledTruth(a)) <=> Accepts(a)
         /\ IsValue(CompiledTruths(a, b)) /\ CompiledTruths(a, b).type \in {"BOOL", "ERROR"}
         /\ CompiledTruths(a, b).type = "BOOL" <=> Accepts(a) /\ Accepts(b)
         /\ Accepts(a) /\ Accepts(b) => CompiledTruths(a, b).v = a.v
<1>1. Accepts(a) => a.v \in BOOLEAN
  BY DEF Accepts, IsValue
<1>2. CompiledTruth(a) = IF Accepts(a) THEN Bool(a.v) ELSE Error
  BY DEF CompiledTruth, Accepts
<1>3. CompiledTruth(b) = IF Accepts(b) THEN Bool(b.v) ELSE Error
  BY DEF CompiledTruth, Accepts
<1>4. CompiledTruths(a, b) = IF Accepts(a) /\ Accepts(b) THEN Bool(a.v) ELSE Error
  BY <1>2, <1>3, ErrorIs, BoolIs DEF CompiledTruths
<1>5. Bool(a.v).type = "BOOL" /\ Bool(a.v).v = a.v /\ (Accepts(a) => IsValue(Bool(a.v))) /\ Accepts(Bool(a.v))
  BY <1>1, BoolIs DEF Accepts
<1> QED BY <1>2, <1>4, <1>5, ErrorIs

LEMMA CompiledRelationIs ==
  ASSUME NEW op, NEW a, NEW b
  PROVE  IsValue(CompiledRelation(op, a, b)) /\ CompiledRelation(op, a, b).type \in {"BOOL", "ERROR"}
BY ErrorIs, BoolIs DEF CompiledRelation

LEMMA CompiledNumberIs ==
  ASSUME NEW types
  PROVE  /\ IsValue(CompiledNumber(types))
         /\ CompiledNumber(types) = IF "FLOAT" \in types THEN Error ELSE V("DOUBLE", 0)
         /\ IsValue(V("DOUBLE", 0)) /\ V("DOUBLE", 0).type = "DOUBLE"
BY ErrorIs, NoneIsNoType DEF CompiledNumber, V, IsValue, Types, Numbers

\* An error goes on to whatever is computed from it.
LEMMA ErrorsSpread ==
  ASSUME NEW a, NEW b, a.type = "ERROR" \/ b.type = "ERROR"
  PROVE  /\ Sum(a, b).type = "ERROR"
         /\ \A test : relationValue(a, b, test).type = "ERROR" /\ relationValue(b, a, test).type = "ERROR"
         /\ Equal(a, b).type = "ERROR"
         /\ \A op \in Comparisons : Relation(op, a, b).type = "ERROR"
<1>1. /\ getObjectValue(a).type = "ERROR" \/ getObjectValue(b).type = "ERROR"
  BY DEF getObjectValue
<1>2. Sum(a, b).type = "ERROR"
  BY <1>1, ErrorIs DEF Sum, Numbers
<1>3. \A test : relationValue(a, b, test).type = "ERROR" /\ relationValue(b, a, test).type = "ERROR"
  BY <1>1, ErrorIs DEF relationValue, Numbers
<1>4. Equal(a, b).type = "ERROR"
  BY <1>3, ErrorIs DEF Equal, Objects, Boxes
<1>5. Not(Equal(a, b)).type = "ERROR"
  BY <1>4, ErrorIs DEF Not, getObjectValue
<1> QED BY <1>2, <1>3, <1>4, <1>5 DEF Relation, Comparisons

LEMMA NoTruth ==
  ASSUME NEW a, a.type = "ERROR"
  PROVE  Not(a).type = "ERROR" /\ VerdictOf(getObjectValue(a)) = "error" /\ VerdictOf(a) = "error"
BY ErrorIs DEF Not, getObjectValue, VerdictOf
-----------------------------------------------------------------------------
(* The values of operands *)

SumsUpto(sums, terms, fields, n) ==
  sums = [k \in 1..n |-> IF k = 1 THEN Written(terms[1], fields)
                         ELSE Sum(sums[k - 1], Written(terms[k], fields))]

LEMMA SumsExist ==
  ASSUME NEW terms, Len(terms) \in Nat, NEW fields
  PROVE  \E sums : SumsUpto(sums, terms, fields, Len(terms))
<1> DEFINE G == {n \in Nat : \E sums : SumsUpto(sums, terms, fields, n)}
<1>1. 0 \in G
  <2>1. SumsUpto([k \in 1..0 |-> 0], terms, fields, 0)
    BY DEF SumsUpto
  <2> QED BY <2>1
<1>2. ASSUME NEW n \in 0..Len(terms) - 1, n \in G PROVE n + 1 \in G
  <2>1. PICK sums : SumsUpto(sums, terms, fields, n)
    BY <1>2
  <2> DEFINE more == [k \in 1..n + 1 |-> IF k = 1 THEN Written(terms[1], fields)
                                         ELSE Sum(sums[k - 1], Written(terms[k], fields))]
  <2>2. \A k \in 1..n : more[k] = sums[k]
    BY <2>1 DEF SumsUpto
  <2>3. \A k \in 1..n + 1 : k # 1 => more[k - 1] = sums[k - 1]
    <3>1. \A k \in 1..n + 1 : k # 1 => k - 1 \in 1..n
      OBVIOUS
    <3> QED BY <2>2, <3>1
  <2>4. more = [k \in 1..n + 1 |-> IF k = 1 THEN Written(terms[1], fields)
                                   ELSE Sum(more[k - 1], Written(terms[k], fields))]
    BY <2>3
  <2> HIDE DEF more
  <2>5. \E new : SumsUpto(new, terms, fields, n + 1)
    BY <2>4 DEF SumsUpto
  <2> QED BY <2>5
<1>3. 0..Len(terms) \subseteq G
  <2> HIDE DEF G
  <2> QED BY <1>1, <1>2, CountUp
<1> QED BY <1>3

\* The values of an operand up to one of its terms.
LEMMA ValuesAre ==
  ASSUME NEW terms, IsList(terms), NEW fields
  PROVE  /\ 1 \in DOMAIN terms => ValuesUpto(terms, fields)[1] = Written(terms[1], fields)
         /\ \A k \in DOMAIN terms \ {1} :
              ValuesUpto(terms, fields)[k] =
                Sum(ValuesUpto(terms, fields)[k - 1], Written(terms[k], fields))
         /\ OperandValue(terms, fields) = ValuesUpto(terms, fields)[Len(terms)]
<1> DEFINE values == ValuesUpto(terms, fields)
<1>1. values = CHOOSE sums : SumsUpto(sums, terms, fields, Len(terms))
  BY DEF ValuesUpto, SumsUpto
<1>2. Len(terms) \in Nat /\ DOMAIN terms = 1..Len(terms)
  BY DEF IsList
<1>3. SumsUpto(values, terms, fields, Len(terms))
  BY <1>1, <1>2, SumsExist
<1>4. OperandValue(terms, fields) = values[Len(terms)]
  BY DEF OperandValue, ValuesUpto
<1> HIDE DEF values
<1>5. \A k \in 1..Len(terms) : values[k] = IF k = 1 THEN Written(terms[1], fields)
                                         ELSE Sum(values[k - 1], Written(terms[k], fields))
  BY <1>3 DEF SumsUpto
<1>6. /\ 1 \in DOMAIN terms => values[1] = Written(terms[1], fields)
      /\ \A k \in DOMAIN terms \ {1} : values[k] = Sum(values[k - 1], Written(terms[k], fields))
  BY <1>2, <1>5
<1> QED BY <1>4, <1>6 DEF values

\* The operand fails if one of its sums does.
LEMMA SumsFail ==
  ASSUME NEW terms, IsList(terms), NEW fields, NEW n \in DOMAIN terms,
         ValuesUpto(terms, fields)[n].type = "ERROR"
  PROVE  OperandValue(terms, fields).type = "ERROR"
<1> DEFINE values == ValuesUpto(terms, fields)
           z == Len(terms)
           G == {k \in Nat : n + k <= z => values[n + k].type = "ERROR"}
<1>1. z \in Nat /\ DOMAIN terms = 1..z /\ n \in 1..z
  BY DEF IsList
<1>2. 0 \in G
  BY <1>1
<1>3. ASSUME NEW k \in 0..(z - n) - 1, k \in G PROVE k + 1 \in G
  <2> DEFINE m == n + (k + 1)
  <2>1. n + k \in 1..z /\ m \in DOMAIN terms \ {1} /\ m - 1 = n + k /\ k + 1 \in Nat
    BY <1>1
  <2>2. values[n + k].type = "ERROR"
    BY <1>1, <1>3, <2>1
  <2>3. values[m] = Sum(values[m - 1], Written(terms[m], fields))
    <3> HIDE DEF m
    <3> QED BY <2>1, ValuesAre
  <2>4. values[m].type = "ERROR"
    <3> HIDE DEF values, m
    <3> QED BY <2>1, <2>2, <2>3, ErrorsSpread
  <2> QED BY <2>1, <2>4
<1>4. 0..(z - n) \subseteq G
  <2>1. z - n \in Nat
    BY <1>1
  <2> HIDE DEF G
  <2> QED BY <1>2, <1>3, <2>1, CountUp
<1>5. z - n \in 0..(z - n) /\ n + (z - n) = z
  BY <1>1
<1>6. values[z].type = "ERROR"
  BY <1>1, <1>4, <1>5
<1> QED BY <1>6, ValuesAre

\* An atom with an operand that fails is not true or false.
LEMMA OperandFails ==
  ASSUME NEW atom, NEW names, IsAtom(atom, names), NEW fields, NEW s \in DOMAIN atom.operands,
         OperandValue(atom.operands[s], fields).type = "ERROR"
  PROVE  Truth(atom, fields) = "error"
<1> DEFINE first  == OperandValue(atom.operands[1], fields)
           second == OperandValue(atom.operands[2], fields)
           value  == IF Len(atom.operands) = 1 THEN first ELSE Relation(atom.op, first, second)
<1>1. /\ DOMAIN atom.operands = 1..Len(atom.operands) /\ Len(atom.operands) \in {1, 2}
      /\ Len(atom.operands) = 2 => atom.op \in Comparisons
  BY DEF IsAtom, IsList
<1>2. Truth(atom, fields) = VerdictOf(getObjectValue(IF atom.not THEN Not(value) ELSE value))
  BY DEF Truth
<1>3. s \in {1, 2} /\ (Len(atom.operands) = 1 => s = 1)
  BY <1>1
<1> HIDE DEF first, second
<1>4. first.type = "ERROR" \/ second.type = "ERROR"
  BY <1>3 DEF first, second
<1>5. \A op \in Comparisons : Relation(op, first, second).type = "ERROR"
  BY <1>4, ErrorsSpread, Zenon
<1>6. value.type = "ERROR"
  <2>1. CASE Len(atom.operands) = 1
    BY <1>3, <2>1 DEF first
  <2>2. CASE Len(atom.operands) = 2
    BY <1>1, <1>5, <2>2
  <2> QED BY <1>1, <2>1, <2>2
<1> HIDE DEF value
<1>7. CASE atom.not
  BY <1>2, <1>6, <1>7, NoTruth
<1>8. CASE ~atom.not
  BY <1>2, <1>6, <1>8, NoTruth
<1> QED BY <1>7, <1>8

-----------------------------------------------------------------------------
(* The types of operands and atoms *)

LEMMA TermTypes ==
  ASSUME NEW t, NEW names, IsTerm(t, names)
  PROVE  IsValue(TypeOfTerm(t))
<1>1. CASE t.minus
  <2>1. \A types : IsValue(CompiledNumber(types))
    BY CompiledNumberIs
  <2> QED BY <1>1, <2>1, Zenon DEF TypeOfTerm
<1>2. CASE ~t.minus /\ t.field # ""
  BY <1>2, ErrorIs DEF TypeOfTerm
<1>3. CASE ~t.minus /\ t.field = ""
  <2>1. TypeOfTerm(t) = V(t.lit.type, FALSE)
    BY <1>3 DEF TypeOfTerm
  <2>2. t.lit.type \in Literals
    BY <1>3 DEF IsTerm
  <2> QED BY <2>1, <2>2 DEF V, IsValue, Types, Literals, Numbers, Objects
<1> QED BY <1>1, <1>2, <1>3

LEMMA OperandTypes ==
  ASSUME NEW atom, NEW names, IsAtom(atom, names), NEW s \in DOMAIN atom.operands
  PROVE  /\ IsList(atom.operands[s]) /\ 1 \in DOMAIN atom.operands[s]
         /\ Len(atom.operands[s]) \in DOMAIN atom.operands[s]
         /\ \A k \in DOMAIN atom.operands[s] : IsTerm(atom.operands[s][k], names)
         /\ \A n : IsValue(TypeUpto(atom.operands[s], n))
         /\ IsValue(OperandType(atom.operands[s]))
         /\ OperandType(atom.operands[s]).type # "ERROR" <=>
              TermsFit(atom.operands[s], Len(atom.operands[s]))
<1> DEFINE terms == atom.operands[s]
<1>1. IsList(terms) /\ terms # <<>> /\ \A k \in DOMAIN terms : IsTerm(terms[k], names)
  BY DEF IsAtom
<1> HIDE DEF terms
<1>2. Len(terms) \in Nat /\ DOMAIN terms = 1..Len(terms) /\ Len(terms) # 0
  BY <1>1 DEF IsList
<1>3. 1 \in DOMAIN terms /\ Len(terms) \in DOMAIN terms
  BY <1>2
<1>4. IsValue(TypeOfTerm(terms[1])) /\ IsValue(V("DOUBLE", 0))
  BY <1>1, <1>3, TermTypes, CompiledNumberIs
<1>5. \A n : IsValue(TypeUpto(terms, n))
  BY <1>4 DEF TypeUpto
<1>6. IsValue(OperandType(terms))
  BY <1>5, ErrorIs DEF OperandType
<1>7. OperandType(terms).type # "ERROR" <=> TermsFit(terms, Len(terms))
  <2>1. CASE TermsFit(terms, Len(terms))
    <3>1. TypeOfTerm(terms[1]).type # "ERROR"
      BY <1>2, <1>3, <2>1 DEF TermsFit
    <3>2. V("DOUBLE", 0).type # "ERROR"
      BY DEF V
    <3> QED BY <2>1, <3>1, <3>2 DEF OperandType, TypeUpto
  <2>2. CASE ~TermsFit(terms, Len(terms))
    BY <2>2, ErrorIs DEF OperandType
  <2> QED BY <2>1, <2>2
<1> QED BY <1>1, <1>3, <1>5, <1>6, <1>7 DEF terms

LEMMA AtomTypes ==
  ASSUME NEW atom, NEW names, IsAtom(atom, names)
  PROVE  IsValue(AtomType(atom))
<1>0. DOMAIN atom.operands = 1..Len(atom.operands) /\ Len(atom.operands) \in {1, 2}
  BY DEF IsAtom, IsList
<1>1. 1 \in DOMAIN atom.operands
  BY <1>0
<1> DEFINE left  == OperandType(atom.operands[1])
           right == OperandType(atom.operands[2])
           value == IF Len(atom.operands) = 1 THEN left
                    ELSE IF "ERROR" \in {left.type, right.type} THEN Error
                    ELSE CompiledRelation(atom.op, left, right)
<1>2. IsValue(left)
  BY <1>1, OperandTypes
<1> HIDE DEF left, right
<1>3. IsValue(value)
  BY <1>2, ErrorIs, CompiledRelationIs
<1>4. AtomType(atom) = IF atom.not THEN CompiledTruth(value) ELSE value
  BY DEF AtomType, left, right
<1> HIDE DEF value
<1> QED BY <1>3, <1>4, CompiledIs

\* What the type of an operand says about its value, whatever the fields hold.
Tells(type, value) ==
  \/ type = None \/ value.type = "ERROR" \/ value.type = type
  \/ type = "DOUBLE" /\ value.type \in Numbers

NoFloat(terms) == \A k \in DOMAIN terms : terms[k].field # "" \/ terms[k].lit.type # "FLOAT"

LEMMA OperandTells ==
  ASSUME NEW atom, NEW names, IsAtom(atom, names), NEW s \in DOMAIN atom.operands,
         NoFloat(atom.operands[s]), NEW fields
  PROVE  LET type == OperandType(atom.operands[s]).type
         IN  /\ Tells(type, OperandValue(atom.operands[s], fields))
             /\ type \in {None} \cup Literals
<1> DEFINE terms == atom.operands[s]
           z == Len(terms)
<1>1. /\ IsList(terms) /\ 1 \in DOMAIN terms /\ z \in DOMAIN terms
      /\ \A k \in DOMAIN terms : IsTerm(terms[k], names)
  BY OperandTypes
<1>2. NoFloat(terms)
  OBVIOUS
<1> HIDE DEF terms, z
<1>3. z \in Nat /\ DOMAIN terms = 1..z
  BY <1>1 DEF IsList, z
<1>4. \A k \in DOMAIN terms : /\ TypeOfTerm(terms[k]).type \in ({None} \cup Literals) \ {"FLOAT"}
                             /\ Tells(TypeOfTerm(terms[k]).type, Written(terms[k], fields))
  <2> SUFFICES ASSUME NEW k \in DOMAIN terms
               PROVE  /\ TypeOfTerm(terms[k]).type \in ({None} \cup Literals) \ {"FLOAT"}
                      /\ Tells(TypeOfTerm(terms[k]).type, Written(terms[k], fields))
    OBVIOUS
  <2> DEFINE t == terms[k]
  <2>1. /\ IF t.field = "" THEN t.lit.type \in Literals /\ t.lit.type # "FLOAT" ELSE t.field \in names
        /\ t.minus \in BOOLEAN
    BY <1>1, <1>2 DEF IsTerm, NoFloat
  <2> HIDE DEF t
  <2>2. None # "FLOAT" /\ None # "ERROR"
    BY NoneIsNoType DEF Numbers
  <2>3. CASE t.minus
    <3>1. TypeOfTerm(t) = V("DOUBLE", 0)
      BY <2>1, <2>2, <2>3, CompiledNumberIs DEF TypeOfTerm, V, Unknown
    <3>2. TypeOfTerm(t).type = "DOUBLE"
      BY <3>1 DEF V
    <3>3. Written(t, fields).type \in Numbers \cup {"ERROR"}
      BY <2>3, NegativeIs DEF Written
    <3> QED BY <3>2, <3>3 DEF Tells, Literals, Numbers, t
  <2>4. CASE ~t.minus /\ t.field = ""
    <3>1. TypeOfTerm(t).type = t.lit.type /\ Written(t, fields) = t.lit
      BY <2>4 DEF TypeOfTerm, Written, V
    <3> QED BY <2>1, <2>4, <3>1 DEF Tells, t
  <2>5. CASE ~t.minus /\ t.field # ""
    <3>1. TypeOfTerm(t).type = None
      BY <2>5 DEF TypeOfTerm, Unknown, V
    <3> QED BY <2>2, <3>1 DEF Tells, t
  <2> QED BY <2>1, <2>3, <2>4, <2>5
<1>5. TermsFit(terms, z)
  BY <1>3, <1>4, NoneIsNoType DEF TermsFit, Literals, Numbers
<1>6. OperandType(terms) = TypeUpto(terms, z)
  BY <1>5 DEF OperandType, z
<1>7. OperandValue(terms, fields) = ValuesUpto(terms, fields)[z]
  BY <1>1, ValuesAre DEF z
<1>8. CASE z = 1
  <2>1. OperandValue(terms, fields) = Written(terms[1], fields)
    BY <1>1, <1>7, <1>8, ValuesAre
  <2>2. OperandType(terms) = TypeOfTerm(terms[1])
    BY <1>6, <1>8 DEF TypeUpto
  <2> QED BY <1>1, <1>4, <2>1, <2>2 DEF terms
<1>9. CASE z # 1
  <2>1. OperandValue(terms, fields) = Sum(ValuesUpto(terms, fields)[z - 1], Written(terms[z], fields))
    BY <1>1, <1>7, <1>9, ValuesAre
  <2>2. OperandValue(terms, fields).type \in Numbers \cup {"ERROR"}
    BY <2>1, SumIs
  <2>3. OperandType(terms).type = "DOUBLE"
    BY <1>6, <1>9 DEF TypeUpto, V
  <2> QED BY <2>2, <2>3 DEF Tells, Literals, Numbers, terms
<1> QED BY <1>8, <1>9

\* What compiling a relation refuses has no value.
LEMMA RelationTells ==
  ASSUME NEW op \in Comparisons, NEW a, NEW b, NEW l, NEW r,
         a.type \in {None} \cup Literals, b.type \in {None} \cup Literals,
         Tells(a.type, l), Tells(b.type, r),
         CompiledRelation(op, a, b).type = "ERROR"
  PROVE  Relation(op, l, r).type = "ERROR"
<1>1. ASSUME l.type # "ERROR", r.type # "ERROR" PROVE Relation(op, l, r).type = "ERROR"
  <2>1. \/ /\ None \notin {a.type, b.type} /\ ~({a.type, b.type} \subseteq Numbers)
           /\ a.type # b.type
        \/ op \notin {"==", "!="} /\ {a.type, b.type} \cap {"BOOL", "OBJECT_NULL"} # {}
    BY BoolIs DEF CompiledRelation
  <2>2. CASE op \notin {"==", "!="} /\ {a.type, b.type} \cap {"BOOL", "OBJECT_NULL"} # {}
    <3>1. l.type \in {"BOOL", "OBJECT_NULL"} \/ r.type \in {"BOOL", "OBJECT_NULL"}
      BY <1>1, <2>2, NoneIsNoType DEF Tells, Objects
    <3>2. \A x, y, test : /\ x.type \in {"BOOL", "OBJECT_NULL"} \/ y.type \in {"BOOL", "OBJECT_NULL"}
                          /\ test # "equal"
                          => relationValue(x, y, test).type = "ERROR"
      BY ErrorIs DEF relationValue, getObjectValue, Numbers
    <3> QED BY <2>2, <3>1, <3>2 DEF Relation, Comparisons
  <2>3. CASE /\ None \notin {a.type, b.type} /\ ~({a.type, b.type} \subseteq Numbers)
             /\ a.type # b.type
    <3>1. /\ a.type \in Literals /\ b.type \in Literals
          /\ a.type = l.type \/ (a.type = "DOUBLE" /\ l.type \in Numbers)
          /\ b.type = r.type \/ (b.type = "DOUBLE" /\ r.type \in Numbers)
      BY <1>1, <2>3 DEF Tells
    <3>2. /\ l.type \in Literals /\ r.type \in Literals /\ l.type # r.type
          /\ ~({l.type, r.type} \subseteq Numbers)
      BY <2>3, <3>1 DEF Literals, Numbers
    <3>3. getObjectValue(l) = l /\ getObjectValue(r) = r
      BY <3>2 DEF getObjectValue, Literals, Numbers
    <3>4. \A test : relationValue(l, r, test).type = "ERROR" /\ relationValue(r, l, test).type = "ERROR"
      BY <3>2, <3>3, ErrorIs DEF relationValue
    <3>5. Equal(l, r).type = "ERROR"
      BY <3>2, <3>4, ErrorIs DEF Equal, Objects, Boxes, Literals, Numbers
    <3> QED BY <3>4, <3>5, NoTruth DEF Relation, Comparisons
  <2> QED BY <2>1, <2>2, <2>3
<1>2. CASE l.type = "ERROR" \/ r.type = "ERROR"
  BY <1>2, ErrorsSpread
<1> QED BY <1>1, <1>2

\* An atom without literals of type float that does not fit is not true or
\* false, whatever the fields hold.
LEMMA RefusedAtom ==
  ASSUME NEW atom, NEW names, IsAtom(atom, names), ~Fits(atom),
         \A s \in DOMAIN atom.operands : NoFloat(atom.operands[s]), NEW fields
  PROVE  Truth(atom, fields) = "error"
<1> DEFINE left  == OperandType(atom.operands[1])
           right == OperandType(atom.operands[2])
           first  == OperandValue(atom.operands[1], fields)
           second == OperandValue(atom.operands[2], fields)
           type   == IF Len(atom.operands) = 1 THEN left
                     ELSE IF "ERROR" \in {left.type, right.type} THEN Error
                     ELSE CompiledRelation(atom.op, left, right)
           value  == IF Len(atom.operands) = 1 THEN first ELSE Relation(atom.op, first, second)
<1>1. /\ DOMAIN atom.operands = 1..Len(atom.operands) /\ Len(atom.operands) \in {1, 2}
      /\ Len(atom.operands) = 2 => atom.op \in Comparisons
  BY DEF IsAtom, IsList
<1>2. Truth(atom, fields) = VerdictOf(getObjectValue(IF atom.not THEN Not(value) ELSE value))
  BY DEF Truth
<1>3. 1 \in DOMAIN atom.operands /\ (Len(atom.operands) = 2 => 2 \in DOMAIN atom.operands)
  BY <1>1, SMTT(30)
<1>4. Tells(left.type, first) /\ left.type \in {None} \cup Literals
  BY <1>3, OperandTells
<1>5. Len(atom.operands) = 2 => Tells(right.type, second) /\ right.type \in {None} \cup Literals
  BY <1>3, OperandTells
<1>6. IsValue(left)
  BY <1>3, OperandTypes
<1>7. AtomType(atom) = IF atom.not THEN CompiledTruth(type) ELSE type
  BY DEF AtomType
<1> HIDE DEF left, right, first, second
<1>8. IsValue(type)
  BY <1>1, <1>6, ErrorIs, CompiledRelationIs
<1>9. ~Accepts(type)
  BY <1>7, <1>8, CompiledIs DEF Fits
<1>10. value.type = "ERROR" \/ (value.type \in Literals /\ value.type # "BOOL")
  <2>1. CASE Len(atom.operands) = 1
    <3>1. type = left /\ value = first
      BY <2>1
    <3>2. left.type \in Literals /\ left.type # "BOOL" /\ left.type # None
      BY <1>4, <1>9, <3>1 DEF Accepts
    <3> QED BY <1>4, <3>1, <3>2 DEF Tells, Literals, Numbers
  <2>2. CASE Len(atom.operands) = 2
    <3>1. left.type # "ERROR" /\ right.type # "ERROR"
      BY <1>4, <1>5, <2>2, NoneIsNoType DEF Literals, Numbers
    <3>2. type = CompiledRelation(atom.op, left, right) /\ value = Relation(atom.op, first, second)
      BY <2>2, <3>1
    <3>3. type.type = "ERROR"
      BY <1>9, <3>2, CompiledRelationIs DEF Accepts
    <3> QED BY <1>1, <1>4, <1>5, <2>2, <3>2, <3>3, RelationTells
  <2> QED BY <1>1, <2>1, <2>2
<1> HIDE DEF value
<1>11. getObjectValue(value) = value /\ value.type # "BOOL"
  BY <1>10 DEF getObjectValue, Literals, Numbers
<1>12. CASE atom.not
  <2>1. Not(value).type = "ERROR"
    BY <1>11, ErrorIs DEF Not
  <2> QED BY <1>2, <1>12, <2>1, NoTruth
<1>13. CASE ~atom.not
  BY <1>2, <1>11, <1>13 DEF VerdictOf
<1> QED BY <1>12, <1>13

-----------------------------------------------------------------------------
(* What decides a conjunction and a condition *)

LEMMA LeastIs ==
  ASSUME NEW S, S \subseteq Nat, S # {}
  PROVE  Least(S) \in S /\ \A m \in S : Least(S) <= m
<1>1. \E n \in S : \A m \in S : n <= m
  <2> SUFFICES ASSUME \A n \in S : \E m \in S : ~(n <= m) PROVE FALSE
    OBVIOUS
  <2> DEFINE G == {n \in Nat : \A m \in S : n < m}
  <2>1. PICK top \in S : TRUE
    OBVIOUS
  <2>2. 0 \in G
    <3>1. 0 \notin S
      BY Z3
    <3> QED BY <3>1
  <2>3. ASSUME NEW n \in 0..top - 1, n \in G PROVE n + 1 \in G
    <3>1. \A m \in S : m \in Nat /\ n < m
      BY <2>3
    <3>2. \A m \in S : n + 1 <= m
      BY <3>1
    <3>3. n + 1 \notin S
      BY <3>2
    <3> QED BY <3>1, <3>2, <3>3
  <2>4. 0..top \subseteq G
    <3> HIDE DEF G
    <3> QED BY <2>1, <2>2, <2>3, CountUp
  <2>5. top \in G
    BY <2>1, <2>4
  <2> QED BY <2>1, <2>5
<1> QED BY <1>1, Zenon DEF Least

LEMMA DecisiveIs ==
  ASSUME NEW s, NEW z \in Nat \ {0}, NEW truths, truths = [n \in 1..z |-> s[n]], NEW neutral
  PROVE  /\ Decisive(truths, neutral) \in 1..z
         /\ \A n \in 1..z : n < Decisive(truths, neutral) => s[n] = neutral
         /\ Decisive(truths, neutral) < z => s[Decisive(truths, neutral)] # neutral
<1> DEFINE S == {n \in 1..z : s[n] # neutral} \cup {z}
<1>1. Len(truths) = z /\ DOMAIN truths = 1..z /\ \A n \in 1..z : truths[n] = s[n]
  OBVIOUS
<1>2. Decisive(truths, neutral) = Least(S)
  BY <1>1 DEF Decisive
<1>3. S \subseteq 1..z /\ S # {} /\ S \subseteq Nat
  OBVIOUS
<1>4. \A n \in 1..z : n \in S <=> s[n] # neutral \/ n = z
  OBVIOUS
<1> HIDE DEF S
<1>5. Least(S) \in S /\ \A m \in S : Least(S) <= m
  BY <1>3, LeastIs
<1> DEFINE e == Least(S)
<1>6. e \in S /\ e \in 1..z /\ \A m \in S : e <= m
  BY <1>3, <1>5
<1> HIDE DEF e
<1>7. \A n \in 1..z : n < e => s[n] = neutral
  BY <1>4, <1>6
<1>8. e < z => s[e] # neutral
  BY <1>4, <1>6
<1> QED BY <1>2, <1>6, <1>7, <1>8 DEF e

LEMMA ListIs ==
  ASSUME NEW s, IsList(s), s # <<>>
  PROVE  Len(s) \in Nat \ {0} /\ DOMAIN s = 1..Len(s)
<1>1. Len(s) \in Nat /\ DOMAIN s = 1..Len(s)
  BY DEF IsList
<1> QED BY <1>1

LEMMA LastAtomIs ==
  ASSUME NEW fields, NEW cond, NEW names, IsCondition(cond, names), NEW i \in DOMAIN cond
  PROVE  /\ LastAtom(fields, cond, i) \in DOMAIN cond[i]
         /\ \A k \in DOMAIN cond[i] : k < LastAtom(fields, cond, i) => TruthAt(fields, cond, i, k) = "true"
         /\ LastAtom(fields, cond, i) < Len(cond[i]) => TruthOf(fields, cond, i) # "true"
<1> DEFINE z == Len(cond[i])
           truths == [j \in 1..z |-> TruthAt(fields, cond, i, j)]
<1>1. z \in Nat \ {0} /\ DOMAIN cond[i] = 1..z
  BY ListIs DEF IsCondition
<1>2. LastAtom(fields, cond, i) = Decisive(truths, "true")
  BY <1>1 DEF LastAtom
<1>3. truths = [j \in 1..z |-> truths[j]] /\ \A j \in 1..z : truths[j] = TruthAt(fields, cond, i, j)
  OBVIOUS
<1> HIDE DEF z, truths
<1>4. /\ Decisive(truths, "true") \in 1..z
      /\ \A n \in 1..z : n < Decisive(truths, "true") => truths[n] = "true"
      /\ Decisive(truths, "true") < z => truths[Decisive(truths, "true")] # "true"
  BY <1>1, <1>3, DecisiveIs
<1> QED BY <1>1, <1>2, <1>3, <1>4 DEF z, TruthOf

LEMMA LastConjunctionIs ==
  ASSUME NEW fields, NEW cond, NEW names, IsCondition(cond, names), cond # <<>>
  PROVE  /\ LastConjunction(fields, cond) \in DOMAIN cond
         /\ \A k \in DOMAIN cond : k < LastConjunction(fields, cond) => TruthOf(fields, cond, k) = "false"
         /\ LastConjunction(fields, cond) < Len(cond) => TruthOf(fields, cond, LastConjunction(fields, cond)) # "false"
<1> DEFINE z == Len(cond)
           truths == [j \in 1..z |-> TruthOf(fields, cond, j)]
<1>1. z \in Nat \ {0} /\ DOMAIN cond = 1..z
  BY ListIs DEF IsCondition
<1>2. LastConjunction(fields, cond) = Decisive(truths, "false")
  BY <1>1 DEF LastConjunction
<1>3. truths = [j \in 1..z |-> truths[j]] /\ \A j \in 1..z : truths[j] = TruthOf(fields, cond, j)
  OBVIOUS
<1> HIDE DEF z, truths
<1>4. /\ Decisive(truths, "false") \in 1..z
      /\ \A n \in 1..z : n < Decisive(truths, "false") => truths[n] = "false"
      /\ Decisive(truths, "false") < z => truths[Decisive(truths, "false")] # "false"
  BY <1>1, <1>3, DecisiveIs
<1> QED BY <1>1, <1>2, <1>3, <1>4 DEF z

LEMMA MeaningIs ==
  ASSUME NEW fields, NEW cond, NEW names, IsCondition(cond, names), cond # <<>>
  PROVE  /\ Meaning(cond, fields).verdict = TruthOf(fields, cond, LastConjunction(fields, cond))
         /\ Meaning(cond, fields).needed = NeededAtoms(fields, cond)
<1> DEFINE truths == [i \in DOMAIN cond |-> [j \in DOMAIN cond[i] |-> Truth(cond[i][j], fields)]]
           last   == [i \in DOMAIN cond |-> Decisive(truths[i], "true")]
           of     == [i \in DOMAIN cond |-> truths[i][last[i]]]
           end    == Decisive(of, "false")
           needed == UNION {{cond[i][j] : j \in 1..last[i]} : i \in 1..end}
<1>1. Meaning(cond, fields) = [verdict |-> of[end], needed |-> needed]
  BY Zenon DEF Meaning
<1>2. \A i \in DOMAIN cond : truths[i] = [j \in DOMAIN cond[i] |-> TruthAt(fields, cond, i, j)]
  BY DEF TruthAt
<1>3. \A i \in DOMAIN cond : last[i] = LastAtom(fields, cond, i)
  <2> HIDE DEF truths
  <2> QED BY <1>2 DEF LastAtom
<1>4. \A i \in DOMAIN cond : of[i] = TruthOf(fields, cond, i)
  <2> SUFFICES ASSUME NEW i \in DOMAIN cond PROVE of[i] = TruthOf(fields, cond, i)
    OBVIOUS
  <2>1. of[i] = truths[i][last[i]]
    OBVIOUS
  <2>2. last[i] = LastAtom(fields, cond, i) /\ LastAtom(fields, cond, i) \in DOMAIN cond[i]
    BY <1>3, LastAtomIs
  <2> HIDE DEF of, last, truths
  <2>3. \A j \in DOMAIN cond[i] : truths[i][j] = TruthAt(fields, cond, i, j)
    BY <1>2
  <2> QED BY <2>1, <2>2, <2>3 DEF TruthOf
<1>5. of = [i \in DOMAIN cond |-> of[i]]
  OBVIOUS
<1> HIDE DEF truths, of, last
<1>6. of = [i \in DOMAIN cond |-> TruthOf(fields, cond, i)]
  BY <1>4, <1>5
<1>7. end = LastConjunction(fields, cond) /\ LastConjunction(fields, cond) \in DOMAIN cond
  BY <1>6, LastConjunctionIs DEF LastConjunction
<1>8. 1..end \subseteq DOMAIN cond
  BY <1>7 DEF IsCondition, IsList
<1> HIDE DEF end
<1>9. needed = NeededAtoms(fields, cond)
  BY <1>3, <1>7, <1>8 DEF NeededAtoms
<1> HIDE DEF needed
<1> QED BY <1>1, <1>4, <1>7, <1>9

LEMMA Within ==
  ASSUME NEW n \in Nat, NEW m \in 1..n, NEW k \in 1..m
  PROVE  k \in 1..n /\ k <= m
OBVIOUS

LEMMA TermsApart ==
  ASSUME NEW atoms, NEW t \in TermsOf(atoms)
  PROVE  \E atom \in atoms : t \in TermsOf({atom})
<1>1. PICK terms : terms \in UNION {Range(atom.operands) : atom \in atoms} /\ t \in Range(terms)
  BY DEF TermsOf
<1>2. PICK atom \in atoms : terms \in Range(atom.operands)
  BY <1>1
<1>3. t \in TermsOf({atom})
  BY <1>1, <1>2 DEF TermsOf
<1> QED BY <1>3

\* The fields of the atoms that a condition needs.
LEMMA NeededFields ==
  ASSUME NEW fields, NEW cond, NEW names, IsCondition(cond, names), cond # <<>>,
         NEW i \in DOMAIN cond, NEW j \in DOMAIN cond[i], IsNeeded(fields, cond, i, j)
  PROVE  FieldsOf({cond[i][j]}) \subseteq FieldsOf(NeededAtoms(fields, cond))
<1>1. DOMAIN cond = 1..Len(cond) /\ DOMAIN cond[i] = 1..Len(cond[i]) /\ Len(cond) \in Nat /\ Len(cond[i]) \in Nat
  BY DEF IsCondition, IsList
<1>2. LastConjunction(fields, cond) \in DOMAIN cond /\ LastAtom(fields, cond, i) \in DOMAIN cond[i]
  BY LastConjunctionIs, LastAtomIs
<1>3. i \in 1..LastConjunction(fields, cond) /\ j \in 1..LastAtom(fields, cond, i)
  BY <1>1, <1>2 DEF IsNeeded
<1>4. cond[i][j] \in NeededAtoms(fields, cond)
  <2>1. cond[i][j] \in {cond[i][l] : l \in 1..LastAtom(fields, cond, i)}
    BY <1>3
  <2> QED BY <1>3, <2>1 DEF NeededAtoms
<1>5. TermsOf({cond[i][j]}) \subseteq TermsOf(NeededAtoms(fields, cond))
  BY <1>4, Zenon DEF TermsOf
<1> QED BY <1>5, Zenon DEF FieldsOf

LEMMA NeededAll ==
  ASSUME NEW fields, NEW cond, NEW names, IsCondition(cond, names), cond # <<>>, NEW reads,
         \A i \in DOMAIN cond : \A j \in DOMAIN cond[i] :
           IsNeeded(fields, cond, i, j) => FieldsOf({cond[i][j]}) \subseteq reads
  PROVE  FieldsOf(NeededAtoms(fields, cond)) \subseteq reads
<1> SUFFICES ASSUME NEW t \in TermsOf(NeededAtoms(fields, cond)), t.field # ""
             PROVE  t.field \in reads
  BY Zenon DEF FieldsOf
<1>1. PICK atom \in NeededAtoms(fields, cond) : t \in TermsOf({atom})
  BY TermsApart
<1>2. PICK i \in 1..LastConjunction(fields, cond) : \E j \in 1..LastAtom(fields, cond, i) : atom = cond[i][j]
  BY DEF NeededAtoms
<1>3. PICK j \in 1..LastAtom(fields, cond, i) : atom = cond[i][j]
  BY <1>2
<1>4. DOMAIN cond = 1..Len(cond) /\ Len(cond) \in Nat /\ LastConjunction(fields, cond) \in DOMAIN cond
  BY LastConjunctionIs DEF IsCondition, IsList
<1>5. i \in DOMAIN cond /\ i <= LastConjunction(fields, cond)
  <2>1. LastConjunction(fields, cond) \in 1..Len(cond) /\ Len(cond) \in Nat
    BY <1>4
  <2>2. i \in 1..Len(cond) /\ i <= LastConjunction(fields, cond)
    BY <1>2, <2>1, Within
  <2> QED BY <1>4, <2>2
<1>6. DOMAIN cond[i] = 1..Len(cond[i]) /\ Len(cond[i]) \in Nat /\ LastAtom(fields, cond, i) \in DOMAIN cond[i]
  BY <1>5, LastAtomIs DEF IsCondition, IsList
<1>7. j \in DOMAIN cond[i] /\ j <= LastAtom(fields, cond, i)
  <2>1. LastAtom(fields, cond, i) \in 1..Len(cond[i]) /\ Len(cond[i]) \in Nat
    BY <1>6
  <2>2. j \in 1..Len(cond[i]) /\ j <= LastAtom(fields, cond, i)
    BY <1>3, <2>1, Within
  <2> QED BY <1>6, <2>2
<1>8. FieldsOf({atom}) \subseteq reads
  BY <1>3, <1>5, <1>7, Zenon DEF IsNeeded
<1>9. t.field \in FieldsOf({atom})
  BY <1>1, Zenon DEF FieldsOf
<1> QED BY <1>8, <1>9

\* The fields of an atom are those of its terms.
LEMMA AtomFields ==
  ASSUME NEW atom, NEW names, IsAtom(atom, names), NEW reads,
         \A s \in DOMAIN atom.operands : \A k \in DOMAIN atom.operands[s] :
           atom.operands[s][k].field # "" => atom.operands[s][k].field \in reads
  PROVE  FieldsOf({atom}) \subseteq reads
<1> SUFFICES ASSUME NEW t \in TermsOf({atom}), t.field # ""
             PROVE  t.field \in reads
  BY Zenon DEF FieldsOf
<1>0. PICK terms : terms \in Range(atom.operands) /\ t \in Range(terms)
  BY DEF TermsOf
<1>1. PICK s \in DOMAIN atom.operands : t \in Range(atom.operands[s])
  BY <1>0 DEF Range
<1>2. PICK k \in DOMAIN atom.operands[s] : t = atom.operands[s][k]
  BY <1>1 DEF Range
<1> QED BY <1>2

LEMMA FieldIsRead ==
  ASSUME NEW atom, NEW s \in DOMAIN atom.operands, NEW k \in DOMAIN atom.operands[s],
         atom.operands[s][k].field # ""
  PROVE  atom.operands[s][k].field \in FieldsOf({atom})
<1>1. atom.operands[s][k] \in Range(atom.operands[s]) /\ atom.operands[s] \in Range(atom.operands)
  BY Zenon DEF Range
<1>2. atom.operands[s][k] \in TermsOf({atom})
  BY <1>1, Zenon DEF TermsOf
<1> QED BY <1>2, Zenon DEF FieldsOf

\* The terms of a condition.
LEMMA TermIsThere ==
  ASSUME NEW cond, NEW i \in DOMAIN cond, NEW j \in DOMAIN cond[i],
         NEW s \in DOMAIN cond[i][j].operands, NEW k \in DOMAIN cond[i][j].operands[s]
  PROVE  cond[i][j] \in AtomsOf(cond) /\ cond[i][j].operands[s][k] \in TermsOf(AtomsOf(cond))
<1>1. cond[i][j] \in AtomsOf(cond)
  <2>1. cond[i] \in Range(cond) /\ cond[i][j] \in Range(cond[i])
    BY Zenon DEF Range
  <2> QED BY <2>1, Zenon DEF AtomsOf
<1>2. cond[i][j].operands[s][k] \in Range(cond[i][j].operands[s])
      /\ cond[i][j].operands[s] \in Range(cond[i][j].operands)
  BY Zenon DEF Range
<1>3. cond[i][j].operands[s][k] \in TermsOf(AtomsOf(cond))
  BY <1>1, <1>2, Zenon DEF TermsOf
<1> QED BY <1>1, <1>3

-----------------------------------------------------------------------------
(* What the steps inside expr do to the place r of their thread, which     *)
(* becomes q                                                               *)

SameAtom(q, r) ==
  q.cond = r.cond /\ q.i = r.i /\ q.j = r.j /\ q.and = r.and /\ q.andSkip = r.andSkip /\ q.orSkip = r.orSkip

SameTerm(q, r) == q.side = r.side /\ q.t = r.t /\ q.left = r.left

\* A rule fails.
Fails(r, q, place) ==
  /\ DOMAIN q = DOMAIN Fresh /\ place = "verdict" /\ q.or = Error
  /\ SameAtom(q, r) /\ SameTerm(q, r) /\ q.acc = r.acc /\ q.signed = r.signed /\ q.reads = r.reads

Signs(r, q, place) ==
  /\ DOMAIN q = DOMAIN Fresh /\ place = "operand" /\ q.signed = TRUE
  /\ SameAtom(q, r) /\ SameTerm(q, r) /\ q.acc = r.acc /\ q.or = r.or /\ q.reads = r.reads
  /\ IsNumber(OperandOf(r)[r.t]) /\ OperandOf(r)[r.t].minus

Reads(r, q, place) ==
  LET t == OperandOf(r)[r.t]
  IN  /\ DOMAIN q = DOMAIN Fresh /\ SameAtom(q, r) /\ q.signed = FALSE
      /\ q.reads = r.reads \cup IF t.field # "" /\ ~r.andSkip THEN {t.field} ELSE {}
      /\ \/ q.acc.type = "ERROR" /\ place = "verdict" /\ q.or = Error /\ SameTerm(q, r)
         \/ /\ q.acc.type # "ERROR" /\ q.or = r.or
            /\ \/ /\ place = "operand" /\ r.t < Len(OperandOf(r))
                  /\ q.t = r.t + 1 /\ q.side = r.side /\ q.left = r.left
               \/ /\ place = "operand" /\ ~(r.t < Len(OperandOf(r)))
                  /\ r.side < Len(AtomOf(r).operands)
                  /\ q.t = 1 /\ q.side = 2 /\ q.left = q.acc
               \/ /\ place = "relate" /\ ~(r.t < Len(OperandOf(r)))
                  /\ ~(r.side < Len(AtomOf(r).operands)) /\ SameTerm(q, r)

Relates(r, q, place, and) ==
  IF and.type = "ERROR" THEN Fails(r, q, place)
  ELSE /\ DOMAIN q = DOMAIN Fresh /\ place = "joined" /\ q.and = and
       /\ q.cond = r.cond /\ q.i = r.i /\ q.j = r.j /\ q.andSkip = r.andSkip /\ q.orSkip = r.orSkip
       /\ SameTerm(q, r) /\ q.acc = r.acc /\ q.signed = r.signed /\ q.or = r.or /\ q.reads = r.reads

\* On to the next atom.
Goes(r, q, place) ==
  /\ DOMAIN q = DOMAIN Fresh /\ place = "operand" /\ q.cond = r.cond
  /\ q.side = 1 /\ q.t = 1 /\ q.left = Unknown
  /\ q.acc = r.acc /\ q.signed = r.signed /\ q.reads = r.reads

GoesToAtom(r, q, place, and) ==
  IF ~r.andSkip /\ and.type # "BOOL" THEN Fails(r, q, place)
  ELSE /\ Goes(r, q, place) /\ q.i = r.i /\ q.j = r.j + 1 /\ q.and = and
       /\ q.andSkip = (r.andSkip \/ ~and.v) /\ q.or = r.or /\ q.orSkip = r.orSkip

GoesToConjunction(r, q, place, join, or) ==
  LET last == r.i = Len(r.cond)
  IN  IF join.type = "ERROR" \/ (~last /\ ~r.orSkip /\ or.type # "BOOL") THEN Fails(r, q, place)
      ELSE IF last
        THEN /\ DOMAIN q = DOMAIN Fresh /\ place = "verdict" /\ q.or = or
             /\ SameAtom(q, r) /\ SameTerm(q, r) /\ q.acc = r.acc /\ q.signed = r.signed /\ q.reads = r.reads
        ELSE /\ Goes(r, q, place) /\ q.i = r.i + 1 /\ q.j = 1 /\ q.and = r.and /\ q.or = or
             /\ q.orSkip = (r.orSkip \/ or.v) /\ q.andSkip = (r.orSkip \/ or.v)

LEMMA FailIs ==
  ASSUME NEW a \in Actors, DOMAIN p = Actors, pc \in [Actors -> Places], DOMAIN p[a] = DOMAIN Fresh,
         Fail(a)
  PROVE  Fails(p[a], p'[a], pc'[a])
<1>1. p'[a] = [p[a] EXCEPT !.or = Error] /\ pc'[a] = "verdict"
  BY DEF Fail, Put, Goto
<1>2. DOMAIN p[a] = {"cond", "i", "j", "side", "t", "signed", "acc", "left", "and", "andSkip",
                     "or", "orSkip", "reads", "verdict"}
  BY DEF Fresh
<1> QED BY <1>1, <1>2 DEF Fails, SameAtom, SameTerm

LEMMA UnaryMinusIs ==
  ASSUME NEW a \in Actors, DOMAIN p = Actors, DOMAIN p[a] = DOMAIN Fresh, UnaryMinus(a)
  PROVE  pc[a] = "operand" /\ isMinus' = TRUE /\ Signs(p[a], p'[a], pc'[a])
<1>1. p'[a] = [p[a] EXCEPT !.signed = TRUE] /\ pc'[a] = "operand" /\ pc[a] = "operand" /\ isMinus' = TRUE
      /\ IsNumber(Term(a)) /\ Term(a).minus
  BY DEF UnaryMinus, Put, At
<1>2. DOMAIN p[a] = {"cond", "i", "j", "side", "t", "signed", "acc", "left", "and", "andSkip",
                     "or", "orSkip", "reads", "verdict"}
  BY DEF Fresh
<1>3. Term(a) = OperandOf(p[a])[p[a].t]
  BY DEF Term, Operand, Atom, OperandOf, AtomOf
<1> QED BY <1>1, <1>2, <1>3 DEF Signs, SameAtom, SameTerm

LEMMA ReadTermIs ==
  ASSUME NEW a \in Actors, DOMAIN p = Actors, pc \in [Actors -> Places], DOMAIN p[a] = DOMAIN Fresh,
         ReadTerm(a)
  PROVE  /\ pc[a] = "operand" /\ p'[a].acc = Accumulated(a) /\ Reads(p[a], p'[a], pc'[a])
         /\ isMinus' = (isMinus /\ ~IsNumber(OperandOf(p[a])[p[a].t]))
         /\ IsNumber(OperandOf(p[a])[p[a].t]) /\ OperandOf(p[a])[p[a].t].minus => p[a].signed
<1> DEFINE t == OperandOf(p[a])[p[a].t]
           acc == Accumulated(a)
           reads == IF t.field # "" /\ ~p[a].andSkip THEN {t.field} ELSE {}
           read == [p[a] EXCEPT !.acc = acc, !.signed = FALSE, !.reads = @ \cup reads]
<1>1. Atom(a) = AtomOf(p[a]) /\ Operand(a) = OperandOf(p[a]) /\ Term(a) = t
  BY DEF Term, Operand, Atom, OperandOf, AtomOf
<1>2. pc[a] = "operand" /\ isMinus' = (isMinus /\ ~IsNumber(t)) /\ (IsNumber(t) /\ t.minus => p[a].signed)
  BY <1>1, Zenon DEF ReadTerm, At
<1>3. \/ acc.type = "ERROR" /\ pc'[a] = "verdict" /\ p'[a] = [read EXCEPT !.or = Error]
      \/ /\ acc.type # "ERROR" /\ p[a].t < Len(OperandOf(p[a]))
         /\ pc'[a] = "operand" /\ p'[a] = [read EXCEPT !.t = @ + 1]
      \/ /\ acc.type # "ERROR" /\ ~(p[a].t < Len(OperandOf(p[a]))) /\ p[a].side < Len(AtomOf(p[a]).operands)
         /\ pc'[a] = "operand" /\ p'[a] = [read EXCEPT !.side = 2, !.t = 1, !.left = acc]
      \/ /\ acc.type # "ERROR" /\ ~(p[a].t < Len(OperandOf(p[a]))) /\ ~(p[a].side < Len(AtomOf(p[a]).operands))
         /\ pc'[a] = "relate" /\ p'[a] = read
  <2> DEFINE known == [p[a] EXCEPT !.acc = acc, !.signed = FALSE,
                         !.reads = @ \cup IF ReadsField(a) THEN {Term(a).field} ELSE {}]
  <2>1. known = read
    BY <1>1 DEF ReadsField, onlyCompile
  <2>2. IF acc.type = "ERROR"
          THEN Goto(a, "verdict") /\ Put(a, [known EXCEPT !.or = Error])
        ELSE IF p[a].t < Len(Operand(a))
          THEN UNCHANGED pc /\ Put(a, [known EXCEPT !.t = @ + 1])
        ELSE IF p[a].side < Len(Atom(a).operands)
          THEN UNCHANGED pc /\ Put(a, [known EXCEPT !.side = 2, !.t = 1, !.left = acc])
          ELSE Goto(a, "relate") /\ Put(a, known)
    BY Zenon DEF ReadTerm
  <2> HIDE DEF known, read, acc, t, reads
  <2>3. \A x : (Put(a, x) => p'[a] = x) /\ (Goto(a, x) => pc'[a] = x)
    BY DEF Put, Goto
  <2> QED BY <1>1, <1>2, <2>1, <2>2, <2>3
<1>4. DOMAIN p[a] = {"cond", "i", "j", "side", "t", "signed", "acc", "left", "and", "andSkip",
                     "or", "orSkip", "reads", "verdict"}
  BY DEF Fresh
<1> HIDE DEF t, acc, reads
<1>5. /\ read.acc = acc /\ read.signed = FALSE /\ read.reads = p[a].reads \cup reads
      /\ DOMAIN read = DOMAIN p[a] /\ SameAtom(read, p[a]) /\ SameTerm(read, p[a]) /\ read.or = p[a].or
  BY <1>4 DEF SameAtom, SameTerm
<1> HIDE DEF read
<1>9. p'[a].acc = acc
  BY <1>3, <1>4, <1>5
<1>6. /\ DOMAIN p'[a] = DOMAIN Fresh /\ SameAtom(p'[a], p[a]) /\ p'[a].signed = FALSE
      /\ p'[a].reads = p[a].reads \cup reads
  BY <1>3, <1>4, <1>5, ZenonT(60) DEF SameAtom
<1>7. \/ p'[a].acc.type = "ERROR" /\ pc'[a] = "verdict" /\ p'[a].or = Error /\ SameTerm(p'[a], p[a])
      \/ /\ p'[a].acc.type # "ERROR" /\ p'[a].or = p[a].or
         /\ \/ /\ pc'[a] = "operand" /\ p[a].t < Len(OperandOf(p[a]))
               /\ p'[a].t = p[a].t + 1 /\ p'[a].side = p[a].side /\ p'[a].left = p[a].left
            \/ /\ pc'[a] = "operand" /\ ~(p[a].t < Len(OperandOf(p[a])))
               /\ p[a].side < Len(AtomOf(p[a]).operands)
               /\ p'[a].t = 1 /\ p'[a].side = 2 /\ p'[a].left = p'[a].acc
            \/ /\ pc'[a] = "relate" /\ ~(p[a].t < Len(OperandOf(p[a])))
               /\ ~(p[a].side < Len(AtomOf(p[a]).operands)) /\ SameTerm(p'[a], p[a])
  <2> DEFINE z == Len(OperandOf(p[a])) sides == Len(AtomOf(p[a]).operands)
  <2> HIDE DEF z, sides
  <2>1. CASE acc.type = "ERROR" /\ pc'[a] = "verdict" /\ p'[a] = [read EXCEPT !.or = Error]
    BY <2>1, <1>4, <1>5, <1>9 DEF SameTerm
  <2>2. CASE acc.type # "ERROR" /\ p[a].t < z /\ pc'[a] = "operand" /\ p'[a] = [read EXCEPT !.t = @ + 1]
    BY <2>2, <1>4, <1>5, <1>9 DEF SameTerm, z
  <2>3. CASE /\ acc.type # "ERROR" /\ ~(p[a].t < z) /\ p[a].side < sides
             /\ pc'[a] = "operand" /\ p'[a] = [read EXCEPT !.side = 2, !.t = 1, !.left = acc]
    BY <2>3, <1>4, <1>5, <1>9 DEF SameTerm, z, sides
  <2>4. CASE /\ acc.type # "ERROR" /\ ~(p[a].t < z) /\ ~(p[a].side < sides)
             /\ pc'[a] = "relate" /\ p'[a] = read
    BY <2>4, <1>4, <1>5, <1>9 DEF SameTerm, z, sides
  <2> QED BY <1>3, <2>1, <2>2, <2>3, <2>4 DEF z, sides
<1>8. Reads(p[a], p'[a], pc'[a])
  BY <1>6, <1>7 DEF Reads, t, reads
<1> QED BY <1>2, <1>9, <1>8 DEF t, acc

\* What a conjunction, and a condition, amount to so far.
AndOf(r, value) ==
  IF r.j = 1 \/ value.type = "ERROR" THEN value
  ELSE IF r.andSkip THEN CompiledTruths(r.and, value)
  ELSE Both(r.and, value, And)

TakenAnd(r) == IF r.andSkip THEN r.and ELSE getObjectValue(r.and)

JoinOf(r) ==
  IF r.i = 1 THEN r.and
  ELSE IF r.orSkip THEN CompiledTruths(r.or, r.and)
  ELSE Both(r.or, r.and, Or)

TakenOr(r) == IF r.i = Len(r.cond) \/ r.orSkip THEN JoinOf(r) ELSE getObjectValue(JoinOf(r))

LEMMA RelateIs ==
  ASSUME NEW a \in Actors, DOMAIN p = Actors, pc \in [Actors -> Places], DOMAIN p[a] = DOMAIN Fresh,
         Relate(a)
  PROVE  pc[a] = "relate" /\ UNCHANGED isMinus /\ Relates(p[a], p'[a], pc'[a], AndOf(p[a], AtomValue(a)))
<1> DEFINE and == AndOf(p[a], AtomValue(a))
<1>1. pc[a] = "relate" /\ UNCHANGED isMinus
  BY Zenon DEF Relate, At
<1>2. IF and.type = "ERROR" THEN Fail(a) ELSE Goto(a, "joined") /\ Put(a, [p[a] EXCEPT !.and = and])
  BY Zenon DEF Relate, AndOf, onlyCompile
<1> HIDE DEF and
<1>3. DOMAIN p[a] = {"cond", "i", "j", "side", "t", "signed", "acc", "left", "and", "andSkip",
                     "or", "orSkip", "reads", "verdict"}
  BY DEF Fresh
<1>4. ASSUME and.type = "ERROR"
      PROVE  Relates(p[a], p'[a], pc'[a], and)
  BY <1>2, <1>4, FailIs DEF Relates
<1>5. ASSUME and.type # "ERROR"
      PROVE  Relates(p[a], p'[a], pc'[a], and)
  <2>1. pc'[a] = "joined" /\ p'[a] = [p[a] EXCEPT !.and = and]
    BY <1>2, <1>5 DEF Goto, Put
  <2> QED BY <1>3, <1>5, <2>1 DEF Relates, SameTerm
<1>6. Relates(p[a], p'[a], pc'[a], and)
  BY <1>4, <1>5
<1> QED BY <1>1, <1>6 DEF and

LEMMA NextAtomIs ==
  ASSUME NEW a \in Actors, DOMAIN p = Actors, pc \in [Actors -> Places], DOMAIN p[a] = DOMAIN Fresh,
         NextAtom(a)
  PROVE  /\ pc[a] = "joined" /\ UNCHANGED isMinus /\ p[a].j < Len(p[a].cond[p[a].i])
         /\ GoesToAtom(p[a], p'[a], pc'[a], TakenAnd(p[a]))
<1> DEFINE and == TakenAnd(p[a])
<1>1. pc[a] = "joined" /\ UNCHANGED isMinus /\ p[a].j < Len(p[a].cond[p[a].i])
  BY Zenon DEF NextAtom, At
<1>2. IF ~p[a].andSkip /\ and.type # "BOOL" THEN Fail(a)
      ELSE /\ Goto(a, "operand")
           /\ Put(a, [NextPlace(p[a]) EXCEPT !.j = @ + 1, !.and = and, !.andSkip = @ \/ ~and.v])
  BY Zenon DEF NextAtom, TakenAnd, onlyCompile
<1> HIDE DEF and
<1>3. DOMAIN p[a] = {"cond", "i", "j", "side", "t", "signed", "acc", "left", "and", "andSkip",
                     "or", "orSkip", "reads", "verdict"}
  BY DEF Fresh
<1>4. ASSUME ~p[a].andSkip /\ and.type # "BOOL"
      PROVE  GoesToAtom(p[a], p'[a], pc'[a], and)
  BY <1>2, <1>4, FailIs DEF GoesToAtom
<1>5. ASSUME ~(~p[a].andSkip /\ and.type # "BOOL")
      PROVE  GoesToAtom(p[a], p'[a], pc'[a], and)
  <2> DEFINE next == NextPlace(p[a])
             skip == next.andSkip \/ ~and.v
  <2>1. pc'[a] = "operand" /\ p'[a] = [next EXCEPT !.j = next.j + 1, !.and = and, !.andSkip = skip]
    BY <1>2, <1>5 DEF Goto, Put
  <2>2. /\ DOMAIN next = DOMAIN p[a] /\ next.side = 1 /\ next.t = 1 /\ next.left = Unknown
        /\ next.cond = p[a].cond /\ next.i = p[a].i /\ next.j = p[a].j /\ next.signed = p[a].signed
        /\ next.acc = p[a].acc /\ next.or = p[a].or /\ next.orSkip = p[a].orSkip
        /\ next.reads = p[a].reads /\ next.andSkip = p[a].andSkip
    BY <1>3 DEF NextPlace
  <2>3. skip = (p[a].andSkip \/ ~and.v)
    BY <2>2
  <2> HIDE DEF next, skip
  <2> QED BY <1>3, <1>5, <2>1, <2>2, <2>3 DEF GoesToAtom, Goes
<1>6. GoesToAtom(p[a], p'[a], pc'[a], and)
  BY <1>4, <1>5
<1> QED BY <1>1, <1>6 DEF and

LEMMA EndConjunctionIs ==
  ASSUME NEW a \in Actors, DOMAIN p = Actors, pc \in [Actors -> Places], DOMAIN p[a] = DOMAIN Fresh,
         EndConjunction(a)
  PROVE  /\ pc[a] = "joined" /\ UNCHANGED isMinus /\ p[a].j = Len(p[a].cond[p[a].i])
         /\ GoesToConjunction(p[a], p'[a], pc'[a], JoinOf(p[a]), TakenOr(p[a]))
<1> DEFINE join == JoinOf(p[a])
           or == TakenOr(p[a])
           last == p[a].i = Len(p[a].cond)
<1>1. pc[a] = "joined" /\ UNCHANGED isMinus /\ p[a].j = Len(p[a].cond[p[a].i])
  BY Zenon DEF EndConjunction, At
<1>2. IF join.type = "ERROR" \/ (~last /\ ~p[a].orSkip /\ or.type # "BOOL") THEN Fail(a)
      ELSE IF last THEN Goto(a, "verdict") /\ Put(a, [p[a] EXCEPT !.or = or])
      ELSE /\ Goto(a, "operand")
           /\ Put(a, [NextPlace(p[a]) EXCEPT !.i = @ + 1, !.j = 1, !.or = or,
                        !.orSkip = (p[a].orSkip \/ or.v), !.andSkip = (p[a].orSkip \/ or.v)])
  BY Zenon DEF EndConjunction, JoinOf, TakenOr
<1> HIDE DEF join, or, last
<1>3. DOMAIN p[a] = {"cond", "i", "j", "side", "t", "signed", "acc", "left", "and", "andSkip",
                     "or", "orSkip", "reads", "verdict"}
  BY DEF Fresh
<1>4. ASSUME join.type = "ERROR" \/ (~last /\ ~p[a].orSkip /\ or.type # "BOOL")
      PROVE  GoesToConjunction(p[a], p'[a], pc'[a], join, or)
  BY <1>2, <1>4, FailIs DEF GoesToConjunction, last
<1>5. ASSUME ~(join.type = "ERROR" \/ (~last /\ ~p[a].orSkip /\ or.type # "BOOL"))
      PROVE  GoesToConjunction(p[a], p'[a], pc'[a], join, or)
  <2>1. CASE last
    <3>1. pc'[a] = "verdict" /\ p'[a] = [p[a] EXCEPT !.or = or]
      BY <1>2, <1>5, <2>1 DEF Goto, Put
    <3>2. /\ DOMAIN p'[a] = DOMAIN Fresh /\ p'[a].or = or
          /\ SameAtom(p'[a], p[a]) /\ SameTerm(p'[a], p[a]) /\ p'[a].acc = p[a].acc
          /\ p'[a].signed = p[a].signed /\ p'[a].reads = p[a].reads
      BY <1>3, <3>1 DEF SameAtom, SameTerm
    <3> QED BY <1>5, <2>1, <3>1, <3>2 DEF GoesToConjunction, last
  <2>2. CASE ~last
    <3> DEFINE next == NextPlace(p[a])
               skip == p[a].orSkip \/ or.v
    <3>1. /\ pc'[a] = "operand"
          /\ p'[a] = [next EXCEPT !.i = next.i + 1, !.j = 1, !.or = or, !.orSkip = skip, !.andSkip = skip]
      BY <1>2, <1>5, <2>2 DEF Goto, Put
    <3>2. /\ DOMAIN next = DOMAIN p[a] /\ next.side = 1 /\ next.t = 1 /\ next.left = Unknown
          /\ next.cond = p[a].cond /\ next.i = p[a].i /\ next.signed = p[a].signed
          /\ next.acc = p[a].acc /\ next.and = p[a].and /\ next.reads = p[a].reads
      BY <1>3 DEF NextPlace
    <3> HIDE DEF next, skip
    <3>3. /\ DOMAIN p'[a] = DOMAIN Fresh /\ p'[a].side = 1 /\ p'[a].t = 1 /\ p'[a].left = Unknown
          /\ p'[a].cond = p[a].cond /\ p'[a].signed = p[a].signed /\ p'[a].acc = p[a].acc
          /\ p'[a].reads = p[a].reads /\ p'[a].and = p[a].and
          /\ p'[a].i = p[a].i + 1 /\ p'[a].j = 1 /\ p'[a].or = or /\ p'[a].orSkip = skip /\ p'[a].andSkip = skip
      BY <1>3, <3>1, <3>2
    <3> QED BY <1>5, <2>2, <3>1, <3>3 DEF GoesToConjunction, Goes, last, skip
  <2> QED BY <2>1, <2>2
<1>6. GoesToConjunction(p[a], p'[a], pc'[a], join, or)
  BY <1>4, <1>5
<1> QED BY <1>1, <1>6 DEF join, or

-----------------------------------------------------------------------------
(* Places and types are kept *)

LEMMA ConditionIs ==
  ASSUME NEW cond, NEW names, IsCondition(cond, names)
  PROVE  /\ Len(cond) \in Nat /\ DOMAIN cond = 1..Len(cond)
         /\ \A i \in DOMAIN cond : /\ Len(cond[i]) \in Nat \ {0} /\ DOMAIN cond[i] = 1..Len(cond[i])
                                   /\ \A j \in DOMAIN cond[i] : IsAtom(cond[i][j], names)
BY ListIs DEF IsCondition, IsList

LEMMA AtomIs ==
  ASSUME NEW atom, NEW names, IsAtom(atom, names)
  PROVE  /\ DOMAIN atom.operands = 1..Len(atom.operands) /\ Len(atom.operands) \in {1, 2}
         /\ 1 \in DOMAIN atom.operands /\ atom.not \in BOOLEAN
         /\ Len(atom.operands) = 2 => atom.op \in Comparisons
         /\ \A s \in DOMAIN atom.operands :
              /\ Len(atom.operands[s]) \in Nat \ {0} /\ DOMAIN atom.operands[s] = 1..Len(atom.operands[s])
              /\ 1 \in DOMAIN atom.operands[s] /\ Len(atom.operands[s]) \in DOMAIN atom.operands[s]
              /\ IsList(atom.operands[s])
              /\ \A k \in DOMAIN atom.operands[s] : IsTerm(atom.operands[s][k], names)
<1>1. \A s \in DOMAIN atom.operands : IsList(atom.operands[s]) /\ atom.operands[s] # <<>>
  BY DEF IsAtom
<1>2. \A s \in DOMAIN atom.operands : Len(atom.operands[s]) \in Nat \ {0} /\ DOMAIN atom.operands[s] = 1..Len(atom.operands[s])
  BY <1>1, ListIs
<1>3. \A s \in DOMAIN atom.operands : 1 \in DOMAIN atom.operands[s] /\ Len(atom.operands[s]) \in DOMAIN atom.operands[s]
  BY <1>2
<1>4. DOMAIN atom.operands = 1..Len(atom.operands) /\ Len(atom.operands) \in {1, 2}
  BY DEF IsAtom, IsList
<1>7. atom.not \in BOOLEAN /\ (Len(atom.operands) = 2 => atom.op \in Comparisons)
  BY DEF IsAtom
<1>5. 1 \in DOMAIN atom.operands
  BY <1>4
<1>6. \A s \in DOMAIN atom.operands : \A k \in DOMAIN atom.operands[s] : IsTerm(atom.operands[s][k], names)
  BY DEF IsAtom
<1> QED BY <1>1, <1>2, <1>3, <1>4, <1>5, <1>6, <1>7

LEMMA PlaceIs ==
  ASSUME NEW fields, NEW r, NEW place \in Inside \cup {"enter"}, RecordOK(fields, r, place)
  PROVE  /\ IsCondition(r.cond, DOMAIN fields)
         /\ r.i \in 1..Len(r.cond) /\ r.i \in DOMAIN r.cond /\ r.cond # <<>>
         /\ r.j \in 1..Len(r.cond[r.i]) /\ r.j \in DOMAIN r.cond[r.i]
         /\ IsAtom(AtomOf(r), DOMAIN fields) /\ r.side \in DOMAIN AtomOf(r).operands
         /\ r.side \in 1..Len(AtomOf(r).operands)
         /\ r.t \in 1..Len(OperandOf(r)) /\ r.t \in DOMAIN OperandOf(r)
         /\ Len(OperandOf(r)) \in Nat \ {0} /\ IsList(OperandOf(r)) /\ DOMAIN OperandOf(r) = 1..Len(OperandOf(r))
         /\ \A k \in DOMAIN OperandOf(r) : IsTerm(OperandOf(r)[k], DOMAIN fields)
<1>1. /\ IsCondition(r.cond, DOMAIN fields) /\ r.i \in DOMAIN r.cond /\ r.j \in DOMAIN r.cond[r.i]
      /\ r.side \in DOMAIN AtomOf(r).operands /\ r.t \in DOMAIN OperandOf(r)
  BY DEF RecordOK
<1>2. /\ DOMAIN r.cond = 1..Len(r.cond) /\ DOMAIN r.cond[r.i] = 1..Len(r.cond[r.i])
      /\ IsAtom(AtomOf(r), DOMAIN fields)
  BY <1>1, ConditionIs DEF AtomOf
<1>3. /\ DOMAIN AtomOf(r).operands = 1..Len(AtomOf(r).operands)
      /\ Len(OperandOf(r)) \in Nat \ {0} /\ IsList(OperandOf(r)) /\ DOMAIN OperandOf(r) = 1..Len(OperandOf(r))
      /\ \A k \in DOMAIN OperandOf(r) : IsTerm(OperandOf(r)[k], DOMAIN fields)
  BY <1>1, <1>2, AtomIs DEF OperandOf
<1>4. r.cond # <<>>
  BY <1>1
<1> QED BY <1>1, <1>2, <1>3, <1>4

\* An atom that is there can be begun.
LEMMA BeginIs ==
  ASSUME NEW cond, NEW names, IsCondition(cond, names), NEW i \in 1..Len(cond), NEW j \in 1..Len(cond[i])
  PROVE  /\ i \in DOMAIN cond /\ j \in DOMAIN cond[i] /\ IsAtom(cond[i][j], names)
         /\ 1 \in DOMAIN cond[i][j].operands /\ 1 \in DOMAIN cond[i][j].operands[1]
<1>1. i \in DOMAIN cond /\ DOMAIN cond[i] = 1..Len(cond[i])
  BY ConditionIs
<1>2. j \in DOMAIN cond[i] /\ IsAtom(cond[i][j], names)
  BY <1>1, ConditionIs
<1> QED BY <1>1, <1>2, AtomIs

LEMMA FailsKeepsRecord ==
  ASSUME NEW fields, NEW r, NEW place \in Inside, RecordOK(fields, r, place), ~r.signed,
         NEW q, NEW new, Fails(r, q, new)
  PROVE  RecordOK(fields, q, new)
<1>1. new \notin Inside \cup {"enter", "relate"}
  BY DEF Fails, Inside
<1> QED BY <1>1, ErrorIs DEF RecordOK, Fails, SameAtom, SameTerm

LEMMA SignsKeepsRecord ==
  ASSUME NEW fields, NEW r, RecordOK(fields, r, "operand"), NEW q, NEW new, Signs(r, q, new)
  PROVE  RecordOK(fields, q, new)
<1>1. AtomOf(q) = AtomOf(r) /\ OperandOf(q) = OperandOf(r) /\ new = "operand"
  BY DEF Signs, SameAtom, SameTerm, AtomOf, OperandOf
<1> QED BY <1>1 DEF RecordOK, Signs, SameAtom, SameTerm, Inside

LEMMA ReadsKeepsRecord ==
  ASSUME NEW fields, NEW r, RecordOK(fields, r, "operand"), NEW q, NEW new, Reads(r, q, new), IsValue(q.acc)
  PROVE  RecordOK(fields, q, new)
<1>1. /\ r.i \in DOMAIN r.cond /\ r.j \in DOMAIN r.cond[r.i] /\ IsAtom(AtomOf(r), DOMAIN fields)
      /\ r.side \in DOMAIN AtomOf(r).operands /\ r.side \in 1..Len(AtomOf(r).operands)
      /\ r.t \in 1..Len(OperandOf(r)) /\ Len(OperandOf(r)) \in Nat /\ DOMAIN OperandOf(r) = 1..Len(OperandOf(r))
      /\ IsTerm(OperandOf(r)[r.t], DOMAIN fields)
  BY PlaceIs DEF Inside
<1>2. AtomOf(q) = AtomOf(r) /\ q.cond = r.cond /\ q.i = r.i /\ q.j = r.j
  BY DEF Reads, SameAtom, AtomOf
<1>3. q.reads \subseteq DOMAIN fields
  BY <1>1 DEF Reads, RecordOK, IsTerm
<1>4. DOMAIN q = DOMAIN Fresh /\ q.signed = FALSE /\ q.andSkip \in BOOLEAN /\ q.orSkip \in BOOLEAN
      /\ IsValue(q.and) /\ IsCondition(q.cond, DOMAIN fields)
  BY DEF Reads, SameAtom, RecordOK
<1>5. IsValue(q.left) /\ IsValue(q.or)
  BY ErrorIs DEF Reads, SameTerm, RecordOK
<1>6. new \in {"operand", "relate"} => q.side \in DOMAIN AtomOf(q).operands /\ q.t \in DOMAIN OperandOf(q)
  <2>1. DOMAIN AtomOf(r).operands = 1..Len(AtomOf(r).operands) /\ Len(AtomOf(r).operands) \in {1, 2}
        /\ \A s \in DOMAIN AtomOf(r).operands : 1 \in DOMAIN AtomOf(r).operands[s]
    BY <1>1, AtomIs
  <2>2. CASE q.side = r.side /\ (q.t = r.t \/ (r.t < Len(OperandOf(r)) /\ q.t = r.t + 1))
    <3>1. OperandOf(q) = OperandOf(r)
      BY <1>2, <2>2 DEF OperandOf
    <3> QED BY <1>1, <1>2, <2>2, <3>1
  <2>3. CASE r.side < Len(AtomOf(r).operands) /\ q.side = 2 /\ q.t = 1
    <3>1. 2 \in DOMAIN AtomOf(r).operands
      BY <1>1, <2>1, <2>3
    <3> QED BY <1>2, <2>1, <2>3, <3>1 DEF OperandOf
  <2> QED BY <2>2, <2>3 DEF Reads, SameTerm
<1>7. new = "relate" => q.side = Len(AtomOf(q).operands) /\ q.t = Len(OperandOf(q))
  <2> SUFFICES ASSUME new = "relate" PROVE q.side = Len(AtomOf(q).operands) /\ q.t = Len(OperandOf(q))
    OBVIOUS
  <2>1. q.side = r.side /\ q.t = r.t /\ ~(r.t < Len(OperandOf(r))) /\ ~(r.side < Len(AtomOf(r).operands))
    BY DEF Reads, SameTerm
  <2>2. OperandOf(q) = OperandOf(r)
    BY <1>2, <2>1 DEF OperandOf
  <2>3. Len(AtomOf(r).operands) \in {1, 2}
    BY <1>1, AtomIs
  <2> QED BY <1>1, <1>2, <2>1, <2>2, <2>3
<1>8. new \in {"operand", "relate", "verdict"}
  BY DEF Reads
<1> QED BY <1>1, <1>2, <1>3, <1>4, <1>5, <1>6, <1>7, <1>8 DEF RecordOK, Inside

LEMMA RelatesKeepsRecord ==
  ASSUME NEW fields, NEW r, RecordOK(fields, r, "relate"), NEW q, NEW new, NEW and, IsValue(and),
         Relates(r, q, new, and)
  PROVE  RecordOK(fields, q, new)
<1>1. ~r.signed
  BY DEF RecordOK
<1>2. CASE and.type = "ERROR"
  BY <1>1, <1>2, FailsKeepsRecord DEF Relates, Inside
<1>3. CASE and.type # "ERROR"
  <2>1. new = "joined" /\ q.cond = r.cond /\ q.i = r.i /\ q.j = r.j /\ q.side = r.side /\ q.t = r.t
    BY <1>3 DEF Relates, SameTerm
  <2>2. AtomOf(q) = AtomOf(r) /\ OperandOf(q) = OperandOf(r)
    BY <2>1 DEF AtomOf, OperandOf
  <2> QED BY <1>1, <1>3, <2>1, <2>2 DEF Relates, SameTerm, RecordOK, Inside
<1> QED BY <1>2, <1>3

LEMMA GoesKeepsRecord ==
  ASSUME NEW fields, NEW r, RecordOK(fields, r, "joined"), NEW q, NEW new, Goes(r, q, new),
         q.i \in 1..Len(r.cond), q.j \in 1..Len(r.cond[q.i]),
         q.andSkip \in BOOLEAN, q.orSkip \in BOOLEAN, IsValue(q.and), IsValue(q.or)
  PROVE  RecordOK(fields, q, new)
<1>1. q.cond = r.cond /\ q.side = 1 /\ q.t = 1 /\ new = "operand" /\ ~r.signed /\ q.left = Unknown
      /\ q.signed = r.signed
  BY DEF Goes, RecordOK
<1>2. /\ q.i \in DOMAIN q.cond /\ q.j \in DOMAIN q.cond[q.i]
      /\ 1 \in DOMAIN AtomOf(q).operands /\ 1 \in DOMAIN AtomOf(q).operands[1]
  BY <1>1, BeginIs DEF RecordOK, AtomOf
<1> QED BY <1>1, <1>2, ErrorIs DEF Goes, RecordOK, OperandOf, Inside

LEMMA NextAtomKeepsRecord ==
  ASSUME NEW fields, NEW r, RecordOK(fields, r, "joined"), r.j < Len(r.cond[r.i]),
         NEW q, NEW new, GoesToAtom(r, q, new, TakenAnd(r))
  PROVE  RecordOK(fields, q, new)
<1> DEFINE and == TakenAnd(r)
<1>1. IsValue(r.and) /\ r.andSkip \in BOOLEAN /\ ~r.signed
  BY DEF RecordOK
<1>2. IsValue(and)
  BY <1>1, Unboxed DEF TakenAnd
<1> HIDE DEF and
<1>3. CASE ~r.andSkip /\ and.type # "BOOL"
  BY <1>1, <1>3, FailsKeepsRecord DEF GoesToAtom, Inside, and
<1>4. CASE ~(~r.andSkip /\ and.type # "BOOL")
  <2>1. /\ Goes(r, q, new) /\ q.i = r.i /\ q.j = r.j + 1 /\ q.and = and
        /\ q.andSkip = (r.andSkip \/ ~and.v) /\ q.or = r.or /\ q.orSkip = r.orSkip
    BY <1>4 DEF GoesToAtom, and
  <2>2. r.i \in 1..Len(r.cond) /\ r.j \in 1..Len(r.cond[r.i]) /\ r.i \in DOMAIN r.cond /\ IsCondition(r.cond, DOMAIN fields)
    BY PlaceIs DEF Inside
  <2>3. Len(r.cond[r.i]) \in Nat
    BY <2>2, ConditionIs
  <2>4. q.i \in 1..Len(r.cond) /\ q.j \in 1..Len(r.cond[q.i])
    BY <2>1, <2>2, <2>3
  <2>5. q.andSkip \in BOOLEAN /\ q.orSkip \in BOOLEAN /\ IsValue(q.and) /\ IsValue(q.or)
    BY <1>2, <2>1 DEF RecordOK
  <2> QED BY <2>1, <2>4, <2>5, GoesKeepsRecord
<1> QED BY <1>3, <1>4

LEMMA JoinIs ==
  ASSUME NEW r, IsValue(r.and), IsValue(r.or)
  PROVE  IsValue(JoinOf(r)) /\ IsValue(TakenOr(r))
<1>1. IsValue(CompiledTruths(r.or, r.and)) /\ IsValue(Both(r.or, r.and, Or))
  BY CompiledIs, BothIs, TruthTables
<1>2. IsValue(JoinOf(r))
  BY <1>1 DEF JoinOf
<1> QED BY <1>2, Unboxed DEF TakenOr

LEMMA EndConjunctionKeepsRecord ==
  ASSUME NEW fields, NEW r, RecordOK(fields, r, "joined"),
         NEW q, NEW new, GoesToConjunction(r, q, new, JoinOf(r), TakenOr(r))
  PROVE  RecordOK(fields, q, new)
<1> DEFINE join == JoinOf(r)
           or == TakenOr(r)
           last == r.i = Len(r.cond)
<1>1. IsValue(r.and) /\ IsValue(r.or) /\ r.orSkip \in BOOLEAN /\ ~r.signed
  BY DEF RecordOK
<1>2. IsValue(join) /\ IsValue(or)
  BY <1>1, JoinIs
<1> HIDE DEF join, or
<1>3. CASE join.type = "ERROR" \/ (~last /\ ~r.orSkip /\ or.type # "BOOL")
  BY <1>1, <1>3, FailsKeepsRecord DEF GoesToConjunction, Inside, join, or
<1>4. CASE ~(join.type = "ERROR" \/ (~last /\ ~r.orSkip /\ or.type # "BOOL")) /\ last
  <2>1. /\ DOMAIN q = DOMAIN Fresh /\ new = "verdict" /\ q.or = or
        /\ SameAtom(q, r) /\ SameTerm(q, r) /\ q.acc = r.acc /\ q.signed = r.signed /\ q.reads = r.reads
    BY <1>4 DEF GoesToConjunction, join, or
  <2> QED BY <1>1, <1>2, <2>1 DEF RecordOK, SameAtom, SameTerm, Inside
<1>5. CASE ~(join.type = "ERROR" \/ (~last /\ ~r.orSkip /\ or.type # "BOOL")) /\ ~last
  <2>1. /\ Goes(r, q, new) /\ q.i = r.i + 1 /\ q.j = 1 /\ q.and = r.and /\ q.or = or
        /\ q.orSkip = (r.orSkip \/ or.v) /\ q.andSkip = (r.orSkip \/ or.v)
    BY <1>5 DEF GoesToConjunction, join, or
  <2>2. r.i \in 1..Len(r.cond) /\ IsCondition(r.cond, DOMAIN fields)
    BY PlaceIs DEF Inside
  <2>3. Len(r.cond) \in Nat /\ DOMAIN r.cond = 1..Len(r.cond)
    BY <2>2, ConditionIs
  <2>4. q.i \in 1..Len(r.cond) /\ q.i \in DOMAIN r.cond
    BY <1>5, <2>1, <2>2, <2>3
  <2>5. Len(r.cond[q.i]) \in Nat \ {0}
    BY <2>2, <2>4, ConditionIs
  <2>6. q.j \in 1..Len(r.cond[q.i])
    BY <2>1, <2>5
  <2>7. q.andSkip \in BOOLEAN /\ q.orSkip \in BOOLEAN /\ IsValue(q.and) /\ IsValue(q.or)
    BY <1>1, <1>2, <2>1
  <2> QED BY <2>1, <2>4, <2>6, <2>7, GoesKeepsRecord
<1> QED BY <1>3, <1>4, <1>5

-----------------------------------------------------------------------------
(* Compiling *)

\* What a rule that only compiles makes of one term more.
CompiledUpto(terms, n, acc) ==
  LET value == TypeOfTerm(terms[n])
  IN  IF n = 1 \/ value.type = "ERROR" THEN value ELSE CompiledNumber({acc.type, value.type})

LEMMA CompileStep ==
  ASSUME NEW terms, NEW z \in Nat \ {0}, Len(terms) = z, NEW n \in 1..z, NEW acc,
         n > 1 => TermsFit(terms, n - 1) /\ acc = TypeUpto(terms, n - 1)
  PROVE  LET new == CompiledUpto(terms, n, acc)
         IN  IF new.type = "ERROR" THEN ~TermsFit(terms, z)
             ELSE TermsFit(terms, n) /\ new = TypeUpto(terms, n)
<1> DEFINE value == TypeOfTerm(terms[n])
           new == CompiledUpto(terms, n, acc)
<1>1. new = IF n = 1 \/ value.type = "ERROR" THEN value ELSE CompiledNumber({acc.type, value.type})
  BY DEF CompiledUpto
<1>2. CASE value.type = "ERROR"
  BY <1>1, <1>2 DEF TermsFit
<1>3. CASE value.type # "ERROR" /\ n = 1
  BY <1>1, <1>3 DEF TermsFit, TypeUpto
<1>4. CASE value.type # "ERROR" /\ n # 1
  <2>1. TermsFit(terms, n - 1) /\ acc = TypeUpto(terms, n - 1)
    BY <1>4
  <2>2. new = IF "FLOAT" \in {acc.type, value.type} THEN Error ELSE V("DOUBLE", 0)
    BY <1>1, <1>4, CompiledNumberIs
  <2>3. 1 \in 1..n - 1 /\ n > 1 /\ 1 \in 1..z /\ z > 1
    BY <1>4
  <2>4. CASE value.type = "FLOAT"
    BY <2>2, <2>3, <2>4, ErrorIs DEF TermsFit
  <2>5. CASE value.type # "FLOAT" /\ acc.type = "FLOAT"
    <3>1. n - 1 = 1 /\ acc = TypeOfTerm(terms[1])
      BY <2>1, <2>5 DEF TypeUpto, V
    <3> QED BY <2>2, <2>3, <2>5, <3>1, ErrorIs DEF TermsFit
  <2>6. CASE value.type # "FLOAT" /\ acc.type # "FLOAT"
    <3>1. new = V("DOUBLE", 0) /\ new.type # "ERROR"
      BY <2>2, <2>6 DEF V
    <3>2. ASSUME NEW k \in 1..n PROVE TypeOfTerm(terms[k]).type \notin {"ERROR", "FLOAT"}
      <4>1. CASE k = n
        BY <1>4, <2>6, <4>1
      <4>2. CASE k < n /\ n - 1 > 1
        BY <2>1, <4>2 DEF TermsFit
      <4>3. CASE k < n /\ n - 1 = 1
        <5>1. k = 1 /\ acc = TypeOfTerm(terms[1])
          BY <2>1, <4>3 DEF TypeUpto
        <5> QED BY <2>1, <2>3, <2>6, <5>1 DEF TermsFit
      <4> QED BY <2>3, <4>1, <4>2, <4>3
    <3>3. TermsFit(terms, n)
      BY <3>2 DEF TermsFit
    <3>4. TypeUpto(terms, n) = V("DOUBLE", 0)
      BY <1>4 DEF TypeUpto
    <3> QED BY <3>1, <3>3, <3>4
  <2> QED BY <2>4, <2>5, <2>6
<1> QED BY <1>2, <1>3, <1>4

\* An atom with an operand that does not fit does not fit.
LEMMA OperandRefused ==
  ASSUME NEW atom, NEW names, IsAtom(atom, names), NEW s \in DOMAIN atom.operands,
         ~TermsFit(atom.operands[s], Len(atom.operands[s]))
  PROVE  ~Fits(atom)
<1>1. s \in {1, 2} /\ Len(atom.operands) \in {1, 2} /\ (Len(atom.operands) = 1 => s = 1)
  <2>1. DOMAIN atom.operands = 1..Len(atom.operands) /\ Len(atom.operands) \in {1, 2}
    BY AtomIs
  <2> QED BY <2>1
<1>2. OperandType(atom.operands[s]) = Error
  BY DEF OperandType
<1> DEFINE left  == OperandType(atom.operands[1])
           right == OperandType(atom.operands[2])
           value == IF Len(atom.operands) = 1 THEN left
                    ELSE IF "ERROR" \in {left.type, right.type} THEN Error
                    ELSE CompiledRelation(atom.op, left, right)
<1>3. AtomType(atom) = IF atom.not THEN CompiledTruth(value) ELSE value
  BY DEF AtomType
<1>4. s = 1 => left = Error
  BY <1>2
<1>5. s = 2 => right = Error
  BY <1>2
<1> HIDE DEF left, right
<1>6. value = Error
  BY <1>1, <1>4, <1>5, ErrorIs
<1> HIDE DEF value
<1>7. ~Accepts(Error) /\ ~Accepts(CompiledTruth(Error))
  BY ErrorIs, CompiledIs
<1> QED BY <1>3, <1>6, <1>7 DEF Fits

LEMMA ReadsCompile ==
  ASSUME NEW fields, NEW r, RecordOK(fields, r, "operand"), CompileOK(r, "operand"),
         NEW q, NEW new, Reads(r, q, new),
         r.andSkip => q.acc = CompiledUpto(OperandOf(r), r.t, r.acc)
  PROVE  CompileOK(q, new) /\ (r.andSkip /\ new = "verdict" => ~Fits(AtomOf(r)))
<1> DEFINE terms == OperandOf(r)
           z == Len(terms)
<1>1. /\ IsAtom(AtomOf(r), DOMAIN fields) /\ r.side \in DOMAIN AtomOf(r).operands
      /\ r.side \in 1..Len(AtomOf(r).operands) /\ r.t \in 1..z /\ z \in Nat \ {0}
  BY PlaceIs DEF Inside
<1>2. AtomOf(q) = AtomOf(r) /\ q.andSkip = r.andSkip
  BY DEF Reads, SameAtom, AtomOf
<1>3. new \in {"operand", "relate", "verdict"} /\ (new = "verdict" => q.acc.type = "ERROR")
  BY DEF Reads
<1>4. CASE ~r.andSkip
  BY <1>2, <1>4 DEF CompileOK
<1>5. CASE r.andSkip
  <2>1. r.t > 1 => TermsFit(terms, r.t - 1) /\ r.acc = TypeUpto(terms, r.t - 1)
    BY <1>1, <1>5 DEF CompileOK, TermsDone
  <2>2. r.side = 2 => r.left = OperandType(AtomOf(r).operands[1]) /\ r.left.type # "ERROR"
    BY <1>5 DEF CompileOK
  <2>3. q.acc = CompiledUpto(terms, r.t, r.acc)
    BY <1>5
  <2> HIDE DEF z, terms
  <2>4. IF q.acc.type = "ERROR" THEN ~TermsFit(terms, z)
        ELSE TermsFit(terms, r.t) /\ q.acc = TypeUpto(terms, r.t)
    <3>1. z = Len(terms) /\ z \in Nat \ {0} /\ r.t \in 1..z
      BY <1>1 DEF z
    <3> QED BY <2>1, <2>3, <3>1, CompileStep
  <2>5. CASE new = "verdict"
    <3>1. ~Fits(AtomOf(r))
      BY <1>1, <1>3, <2>4, <2>5, OperandRefused DEF z, terms, OperandOf
    <3> QED BY <2>5, <3>1 DEF CompileOK
  <2>6. CASE /\ new = "operand" /\ q.acc.type # "ERROR" /\ q.t = r.t + 1 /\ q.side = r.side /\ q.left = r.left
    <3>1. OperandOf(q) = terms /\ TermsDone(q, new) = r.t
      BY <1>1, <1>2, <2>6 DEF OperandOf, terms, TermsDone
    <3> QED BY <1>2, <2>2, <2>4, <2>6, <3>1 DEF CompileOK
  <2>7. CASE /\ new = "operand" /\ q.acc.type # "ERROR" /\ ~(r.t < z) /\ r.side < Len(AtomOf(r).operands)
             /\ q.t = 1 /\ q.side = 2 /\ q.left = q.acc
    <3>1. r.t = z /\ TermsDone(q, new) = 0
      BY <1>1, <2>7 DEF TermsDone
    <3>2. r.side = 1
      <4>1. Len(AtomOf(r).operands) \in {1, 2}
        BY <1>1, AtomIs
      <4>2. \A m, k : k \in {1, 2} /\ m \in 1..k /\ m < k => m = 1
        OBVIOUS
      <4> QED BY <1>1, <2>7, <4>1, <4>2
    <3>3. terms = AtomOf(r).operands[1]
      BY <3>2 DEF terms, OperandOf
    <3>4. q.left = OperandType(AtomOf(r).operands[1])
      BY <2>4, <2>7, <3>1, <3>3 DEF OperandType, z
    <3> QED BY <1>2, <2>7, <3>1, <3>4 DEF CompileOK
  <2>8. CASE /\ new = "relate" /\ q.acc.type # "ERROR" /\ SameTerm(q, r)
    <3>1. OperandOf(q) = terms /\ TermsDone(q, new) = r.t /\ q.side = r.side /\ q.left = r.left
      BY <1>2, <2>8 DEF OperandOf, terms, TermsDone, SameTerm
    <3> QED BY <1>2, <2>2, <2>4, <2>8, <3>1 DEF CompileOK
  <2> QED BY <2>5, <2>6, <2>7, <2>8 DEF Reads, z, terms
<1> QED BY <1>4, <1>5

\* The type that an atom is compiled to.
LEMMA AtomCompiled ==
  ASSUME NEW a, NEW fields, RecordOK(fields, p[a], "relate"), CompileOK(p[a], "relate"), p[a].andSkip
  PROVE  AtomValue(a) = AtomType(AtomOf(p[a]))
<1> DEFINE r == p[a]
           atom == AtomOf(r)
<1>1. /\ IsAtom(atom, DOMAIN fields) /\ r.side \in DOMAIN atom.operands
      /\ r.t \in 1..Len(OperandOf(r)) /\ r.side = Len(atom.operands) /\ r.t = Len(OperandOf(r))
  <2>1. r.side = Len(atom.operands) /\ r.t = Len(OperandOf(r))
    BY DEF RecordOK
  <2> QED BY <2>1, PlaceIs DEF Inside
<1>2. Atom(a) = atom /\ onlyCompile(a)
  BY DEF Atom, AtomOf, onlyCompile
<1>3. /\ r.t > 0 => TermsFit(OperandOf(r), r.t) /\ r.acc = TypeUpto(OperandOf(r), r.t)
      /\ r.side = 2 => r.left = OperandType(atom.operands[1]) /\ r.left.type # "ERROR"
  BY DEF CompileOK, TermsDone
<1>4. AtomValue(a) =
        LET value == IF Len(atom.operands) = 1 THEN r.acc ELSE CompiledRelation(atom.op, r.left, r.acc)
        IN  IF ~atom.not THEN value ELSE CompiledTruth(value)
  BY <1>2, Zenon DEF AtomValue
<1> HIDE DEF r, atom
<1>5. Len(atom.operands) \in {1, 2} /\ atom.not \in BOOLEAN
  BY <1>1, AtomIs
<1>6. r.t > 0 /\ TermsFit(OperandOf(r), Len(OperandOf(r)))
  BY <1>1, <1>3
<1>7. r.acc = OperandType(atom.operands[r.side]) /\ r.acc.type # "ERROR"
  <2>1. OperandOf(r) = atom.operands[r.side]
    BY DEF OperandOf, atom
  <2>2. r.acc = OperandType(OperandOf(r))
    BY <1>1, <1>3, <1>6 DEF OperandType
  <2> QED BY <1>1, <1>6, <2>1, <2>2, OperandTypes
<1>8. CASE Len(atom.operands) = 1
  BY <1>1, <1>4, <1>7, <1>8 DEF AtomType, r, atom
<1>9. CASE Len(atom.operands) = 2
  <2>1. r.side = 2 /\ r.left = OperandType(atom.operands[1]) /\ r.left.type # "ERROR" /\ r.acc = OperandType(atom.operands[2])
    BY <1>1, <1>3, <1>7, <1>9
  <2>2. "ERROR" \notin {r.left.type, r.acc.type}
    BY <1>7, <2>1
  <2> QED BY <1>4, <1>9, <2>1, <2>2 DEF AtomType, r, atom
<1> QED BY <1>5, <1>8, <1>9

-----------------------------------------------------------------------------
(* What compiling finds out about a condition *)

\* One atom, or one conjunction, that does not fit is enough.
LEMMA NotAllFit ==
  ASSUME NEW cond, NEW i \in DOMAIN cond, \/ ~ConjunctionFits(cond[i])
                                          \/ \E j \in DOMAIN cond[i] : ~Fits(cond[i][j])
  PROVE  ~AllFit(cond)
BY DEF AllFit, ConjunctionFits

LEMMA RefusedJudge ==
  ASSUME NEW q, ~AllFit(q.cond), q.or = Error
  PROVE  JudgeOK(q, "verdict")
BY ErrorIs DEF JudgeOK, Inside

LEMMA SignsJudge ==
  ASSUME NEW r, JudgeOK(r, "operand"), NEW q, NEW new, Signs(r, q, new)
  PROVE  JudgeOK(q, new)
<1>1. new = "operand" /\ q.cond = r.cond /\ q.i = r.i /\ q.j = r.j /\ q.and = r.and /\ q.or = r.or
      /\ q.andSkip = r.andSkip /\ q.orSkip = r.orSkip
  BY DEF Signs, SameAtom
<1>2. AtomsDone(q, new) = AtomsDone(r, "operand")
  BY <1>1 DEF AtomsDone
<1> QED BY <1>1, <1>2 DEF JudgeOK, Inside

LEMMA ReadsJudge ==
  ASSUME NEW fields, NEW r, RecordOK(fields, r, "operand"), JudgeOK(r, "operand"),
         NEW q, NEW new, Reads(r, q, new), new = "verdict" => ~Fits(AtomOf(r))
  PROVE  JudgeOK(q, new)
<1>1. q.cond = r.cond /\ q.i = r.i /\ q.j = r.j /\ q.and = r.and
      /\ q.andSkip = r.andSkip /\ q.orSkip = r.orSkip
  BY DEF Reads, SameAtom
<1>2. CASE new = "verdict" /\ q.or = Error
  <2>1. r.i \in DOMAIN r.cond /\ r.j \in DOMAIN r.cond[r.i] /\ ~Fits(r.cond[r.i][r.j])
    BY <1>2, PlaceIs DEF Inside, AtomOf
  <2>2. ~AllFit(q.cond)
    BY <1>1, <2>1, NotAllFit
  <2> QED BY <1>2, <2>2, RefusedJudge
<1>3. CASE new \in {"operand", "relate"} /\ q.or = r.or
  <2>1. AtomsDone(q, new) = AtomsDone(r, "operand")
    BY <1>1, <1>3 DEF AtomsDone
  <2> QED BY <1>1, <1>3, <2>1 DEF JudgeOK, Inside
<1> QED BY <1>2, <1>3 DEF Reads

LEMMA RelatesJudge ==
  ASSUME NEW fields, NEW r, RecordOK(fields, r, "relate"), JudgeOK(r, "relate"),
         NEW q, NEW new, Relates(r, q, new, AndOf(r, AtomType(AtomOf(r))))
  PROVE  JudgeOK(q, new)
<1> DEFINE type == AtomType(AtomOf(r))
           and == AndOf(r, type)
<1>1. /\ r.i \in DOMAIN r.cond /\ r.j \in DOMAIN r.cond[r.i] /\ r.j \in 1..Len(r.cond[r.i])
      /\ IsAtom(AtomOf(r), DOMAIN fields) /\ AtomOf(r) = r.cond[r.i][r.j]
      /\ DOMAIN r.cond[r.i] = 1..Len(r.cond[r.i]) /\ Len(r.cond[r.i]) \in Nat
  BY PlaceIs, ConditionIs, ZenonT(60) DEF Inside, AtomOf
<1>2. IsValue(type) /\ (Accepts(type) <=> Fits(r.cond[r.i][r.j]))
  BY <1>1, AtomTypes DEF Fits
<1>3. r.andSkip /\ r.orSkip /\ (r.j > 1 => (Accepts(r.and) <=> \A k \in 1..r.j - 1 : Fits(r.cond[r.i][k])))
  BY <1>1 DEF JudgeOK, Inside, AtomsDone
<1>4. and = IF r.j = 1 \/ type.type = "ERROR" THEN type ELSE CompiledTruths(r.and, type)
  BY <1>3 DEF AndOf
<1>5. IsValue(r.and)
  BY DEF RecordOK
<1> HIDE DEF type, and
<1>6. CompiledTruths(r.and, type).type \in {"BOOL", "ERROR"}
      /\ (CompiledTruths(r.and, type).type = "BOOL" <=> Accepts(r.and) /\ Accepts(type))
  BY <1>2, <1>5, CompiledIs
<1>7. type.type = "ERROR" => ~Accepts(type)
  BY NoneIsNoType DEF Accepts
<1>8. \A k \in 1..r.j : k \in DOMAIN r.cond[r.i]
  BY <1>1
<1>9. CASE and.type = "ERROR"
  <2>1. \E k \in 1..r.j : ~Fits(r.cond[r.i][k])
    <3>1. CASE ~Accepts(type)
      BY <1>1, <1>2, <3>1
    <3>2. CASE Accepts(type)
      <4>1. r.j > 1 /\ ~Accepts(r.and)
        BY <1>1, <1>4, <1>6, <1>7, <1>9, <3>2
      <4> QED BY <1>1, <1>3, <4>1
    <3> QED BY <3>1, <3>2
  <2>2. ~AllFit(r.cond)
    BY <1>1, <1>8, <2>1, NotAllFit
  <2>3. new = "verdict" /\ q.or = Error /\ q.cond = r.cond
    BY <1>9 DEF Relates, Fails, SameAtom, and, type
  <2> QED BY <2>2, <2>3, RefusedJudge
<1>10. CASE and.type # "ERROR"
  <2>1. /\ new = "joined" /\ q.and = and /\ q.cond = r.cond /\ q.i = r.i /\ q.j = r.j /\ q.or = r.or
        /\ q.andSkip = r.andSkip /\ q.orSkip = r.orSkip
    BY <1>10 DEF Relates, and, type
  <2>2. Accepts(and) <=> \A k \in 1..r.j : Fits(r.cond[r.i][k])
    <3>1. CASE r.j = 1
      BY <1>2, <1>4, <3>1
    <3>2. CASE r.j > 1
      <4>1. and.type = "BOOL" /\ and = CompiledTruths(r.and, type)
        BY <1>4, <1>6, <1>10, <3>2
      <4>2. Accepts(and) /\ Accepts(r.and) /\ Accepts(type)
        BY <1>6, <4>1 DEF Accepts
      <4>3. \A k \in 1..r.j : k \in 1..r.j - 1 \/ k = r.j
        BY <1>1
      <4> QED BY <1>2, <1>3, <3>2, <4>2, <4>3
    <3> QED BY <1>1, <3>1, <3>2
  <2>3. AtomsDone(q, new) = r.j
    BY <2>1 DEF AtomsDone
  <2> QED BY <2>1, <2>2, <2>3 DEF JudgeOK, Inside
<1> QED BY <1>9, <1>10

LEMMA NextAtomJudge ==
  ASSUME NEW fields, NEW r, RecordOK(fields, r, "joined"), JudgeOK(r, "joined"),
         NEW q, NEW new, GoesToAtom(r, q, new, TakenAnd(r))
  PROVE  JudgeOK(q, new)
<1>1. r.andSkip /\ r.orSkip /\ r.j \in Nat
  <2>1. r.j \in 1..Len(r.cond[r.i]) /\ r.i \in DOMAIN r.cond /\ IsCondition(r.cond, DOMAIN fields)
    BY PlaceIs DEF Inside
  <2>2. Len(r.cond[r.i]) \in Nat
    BY <2>1, ConditionIs
  <2> QED BY <2>1, <2>2 DEF JudgeOK, Inside
<1>2. /\ Goes(r, q, new) /\ q.i = r.i /\ q.j = r.j + 1 /\ q.and = r.and
      /\ q.andSkip /\ q.or = r.or /\ q.orSkip
  BY <1>1 DEF GoesToAtom, TakenAnd
<1>3. new = "operand" /\ q.cond = r.cond /\ AtomsDone(q, "operand") = r.j /\ AtomsDone(r, "joined") = r.j
  BY <1>1, <1>2 DEF Goes, AtomsDone
<1> QED BY <1>2, <1>3 DEF JudgeOK, Inside

LEMMA EndConjunctionJudge ==
  ASSUME NEW fields, NEW r, RecordOK(fields, r, "joined"), JudgeOK(r, "joined"), r.j = Len(r.cond[r.i]),
         NEW q, NEW new, GoesToConjunction(r, q, new, JoinOf(r), TakenOr(r))
  PROVE  JudgeOK(q, new)
<1> DEFINE join == JoinOf(r)
           last == r.i = Len(r.cond)
<1>1. /\ r.i \in DOMAIN r.cond /\ r.i \in 1..Len(r.cond) /\ r.j \in 1..Len(r.cond[r.i])
      /\ DOMAIN r.cond = 1..Len(r.cond) /\ Len(r.cond) \in Nat
      /\ DOMAIN r.cond[r.i] = 1..Len(r.cond[r.i]) /\ Len(r.cond[r.i]) \in Nat
  BY PlaceIs, ConditionIs DEF Inside
<1>2. r.andSkip /\ r.orSkip /\ IsValue(r.and) /\ IsValue(r.or)
  BY DEF JudgeOK, RecordOK, Inside
<1>3. Accepts(r.and) <=> ConjunctionFits(r.cond[r.i])
  BY <1>1 DEF JudgeOK, Inside, AtomsDone, ConjunctionFits
<1>4. r.i > 1 => (Accepts(r.or) <=> \A k \in 1..r.i - 1 : ConjunctionFits(r.cond[k]))
  BY DEF JudgeOK, Inside
<1>5. join = (IF r.i = 1 THEN r.and ELSE CompiledTruths(r.or, r.and)) /\ TakenOr(r) = join
  BY <1>2 DEF JoinOf, TakenOr
<1> HIDE DEF join
<1>6. CompiledTruths(r.or, r.and).type \in {"BOOL", "ERROR"}
      /\ (CompiledTruths(r.or, r.and).type = "BOOL" <=> Accepts(r.or) /\ Accepts(r.and))
  BY <1>2, CompiledIs
<1>7. Accepts(join) <=> \A k \in 1..r.i : ConjunctionFits(r.cond[k])
  <2>1. CASE r.i = 1
    BY <1>3, <1>5, <2>1
  <2>2. CASE r.i > 1
    <3>1. Accepts(join) <=> Accepts(r.or) /\ Accepts(r.and)
      BY <1>5, <1>6, <2>2, NoneIsNoType DEF Accepts
    <3>2. \A k \in 1..r.i : k \in 1..r.i - 1 \/ k = r.i
      BY <1>1
    <3> QED BY <1>1, <1>3, <1>4, <2>2, <3>1, <3>2
  <2> QED BY <1>1, <2>1, <2>2
<1>8. \A k \in 1..r.i : k \in DOMAIN r.cond
  BY <1>1
<1>9. CASE join.type = "ERROR"
  <2>1. ~Accepts(join)
    BY <1>9, NoneIsNoType DEF Accepts
  <2>2. ~AllFit(r.cond)
    BY <1>7, <1>8, <2>1, NotAllFit
  <2>3. new = "verdict" /\ q.or = Error /\ q.cond = r.cond
    BY <1>9 DEF GoesToConjunction, Fails, SameAtom, join
  <2> QED BY <2>2, <2>3, RefusedJudge
<1>10. CASE join.type # "ERROR" /\ last
  <2>1. new = "verdict" /\ q.or = join /\ q.cond = r.cond
    BY <1>2, <1>5, <1>10 DEF GoesToConjunction, SameAtom, join
  <2>2. Accepts(join) <=> AllFit(r.cond)
    BY <1>1, <1>7, <1>10 DEF AllFit
  <2> QED BY <2>1, <2>2 DEF JudgeOK, Inside
<1>11. CASE join.type # "ERROR" /\ ~last
  <2>1. Goes(r, q, new) /\ q.i = r.i + 1 /\ q.j = 1 /\ q.or = join /\ q.orSkip /\ q.andSkip
    BY <1>2, <1>5, <1>11 DEF GoesToConjunction, join
  <2>2. new = "operand" /\ q.cond = r.cond /\ AtomsDone(q, "operand") = 0 /\ q.i - 1 = r.i
    BY <1>1, <2>1 DEF Goes, AtomsDone
  <2> QED BY <1>7, <2>1, <2>2 DEF JudgeOK, Inside
<1> QED BY <1>9, <1>10, <1>11

-----------------------------------------------------------------------------
(* Values are values *)

LEMMA WorldIs ==
  ASSUME world \in Worlds
  PROVE  \A f \in DOMAIN world.fields : IsValue(world.fields[f])
BY WorldsAssumption

LEMMA TermValueIs ==
  ASSUME NEW a, world \in Worlds, IsTerm(Term(a), DOMAIN world.fields)
  PROVE  IsValue(TermValue(a))
<1> DEFINE t == Term(a)
           value == IF t.field = "" THEN Literal(t.lit) ELSE world.fields[t.field]
<1>1. TermValue(a) = IF t.minus /\ ~IsNumber(t) THEN Negative(value) ELSE value
  BY DEF TermValue
<1>2. CASE t.field = ""
  <2>1. t.lit.type \in Literals /\ IsValue(t.lit)
    BY <1>2 DEF IsTerm
  <2>2. IsValue(V("NUMBER", -t.lit.v))
    BY NoneIsNoType DEF IsValue, V, Types, Numbers
  <2>3. IsValue(value)
    BY <1>2, <2>1, <2>2 DEF Literal
  <2> HIDE DEF value, t
  <2> QED BY <1>1, <2>3, NegativeIs
<1>3. CASE t.field # ""
  <2>1. IsValue(value)
    BY <1>3, WorldIs DEF IsTerm
  <2> HIDE DEF value, t
  <2> QED BY <1>1, <2>1, NegativeIs
<1> QED BY <1>2, <1>3

LEMMA AccumulatedIs ==
  ASSUME NEW a, world \in Worlds, RecordOK(world.fields, p[a], "operand")
  PROVE  /\ IsValue(Accumulated(a))
         /\ p[a].andSkip => Accumulated(a) = CompiledUpto(OperandOf(p[a]), p[a].t, p[a].acc)
         /\ ~p[a].andSkip => Accumulated(a) = IF p[a].t = 1 \/ TermValue(a).type = "ERROR" THEN TermValue(a)
                                              ELSE Sum(p[a].acc, TermValue(a))
<1>1. Term(a) = OperandOf(p[a])[p[a].t]
  BY DEF Term, Operand, Atom, OperandOf, AtomOf
<1>2. IsTerm(Term(a), DOMAIN world.fields)
  BY <1>1, PlaceIs DEF Inside
<1>3. TermType(a) = TypeOfTerm(Term(a))
  BY DEF TermType, TypeOfTerm
<1>4. IsValue(TermType(a)) /\ IsValue(TermValue(a))
  BY <1>2, <1>3, TermTypes, TermValueIs
<1>5. CASE p[a].andSkip
  <2>1. Accumulated(a) = IF p[a].t = 1 \/ TermType(a).type = "ERROR" THEN TermType(a)
                         ELSE CompiledNumber({p[a].acc.type, TermType(a).type})
    BY <1>5 DEF Accumulated, onlyCompile
  <2>2. \A types : IsValue(CompiledNumber(types))
    BY CompiledNumberIs
  <2> QED BY <1>1, <1>3, <1>4, <1>5, <2>1, <2>2 DEF CompiledUpto
<1>6. CASE ~p[a].andSkip
  <2>1. Accumulated(a) = IF p[a].t = 1 \/ TermValue(a).type = "ERROR" THEN TermValue(a)
                         ELSE Sum(p[a].acc, TermValue(a))
    BY <1>6 DEF Accumulated, onlyCompile
  <2> QED BY <1>4, <1>6, <2>1, SumIs
<1> QED BY <1>5, <1>6

LEMMA AtomValueIs ==
  ASSUME NEW a, NEW fields, RecordOK(fields, p[a], "relate")
  PROVE  IsValue(AtomValue(a)) /\ IsValue(AndOf(p[a], AtomValue(a)))
<1> DEFINE atom  == Atom(a)
           value == IF Len(atom.operands) = 1 THEN p[a].acc
                    ELSE IF onlyCompile(a) THEN CompiledRelation(atom.op, p[a].left, p[a].acc)
                    ELSE Relation(atom.op, p[a].left, p[a].acc)
<1>1. AtomValue(a) = IF ~atom.not THEN value ELSE IF onlyCompile(a) THEN CompiledTruth(value) ELSE Not(value)
  BY DEF AtomValue
<1>2. atom = AtomOf(p[a])
  BY DEF Atom, AtomOf
<1>3. IsAtom(AtomOf(p[a]), DOMAIN fields)
  BY PlaceIs DEF Inside
<1>4. Len(atom.operands) \in {1, 2} /\ (Len(atom.operands) = 2 => atom.op \in Comparisons)
  BY <1>2, <1>3, AtomIs
<1>5. IsValue(p[a].acc) /\ IsValue(p[a].and)
  BY DEF RecordOK
<1> HIDE DEF atom
<1>6. IsValue(value)
  BY <1>4, <1>5, RelationIs, CompiledRelationIs
<1> HIDE DEF value
<1>7. IsValue(CompiledTruth(value)) /\ IsValue(Not(value))
  BY <1>6, CompiledIs, NotIs
<1>8. IsValue(AtomValue(a))
  BY <1>1, <1>6, <1>7
<1>9. IsValue(CompiledTruths(p[a].and, AtomValue(a))) /\ IsValue(Both(p[a].and, AtomValue(a), And))
  BY <1>5, <1>8, CompiledIs, BothIs, TruthTables
<1> QED BY <1>8, <1>9 DEF AndOf
-----------------------------------------------------------------------------
(* Evaluating *)

\* As long as the atoms, or the conjunctions, behind are neutral, the next one
\* is needed, and it decides if it is not.
LEMMA AtomGoesOn ==
  ASSUME NEW fields, NEW cond, NEW names, IsCondition(cond, names),
         NEW i \in DOMAIN cond, NEW j \in DOMAIN cond[i],
         \A k \in 1..j - 1 : TruthAt(fields, cond, i, k) = "true"
  PROVE  /\ j <= LastAtom(fields, cond, i)
         /\ TruthAt(fields, cond, i, j) # "true" \/ j = Len(cond[i]) =>
              LastAtom(fields, cond, i) = j /\ TruthOf(fields, cond, i) = TruthAt(fields, cond, i, j)
<1> DEFINE e == LastAtom(fields, cond, i)
           z == Len(cond[i])
<1>1. z \in Nat /\ DOMAIN cond[i] = 1..z
  BY ConditionIs
<1>2. e \in 1..z /\ (\A k \in 1..z : k < e => TruthAt(fields, cond, i, k) = "true")
      /\ (e < z => TruthAt(fields, cond, i, e) # "true")
  BY <1>1, LastAtomIs DEF TruthOf
<1>3. TruthOf(fields, cond, i) = TruthAt(fields, cond, i, e)
  BY DEF TruthOf
<1>4. j \in 1..z
  BY <1>1
<1> HIDE DEF e, z
<1>5. j <= e
  <2> SUFFICES ASSUME e < j PROVE FALSE
    BY <1>1, <1>2, <1>4
  <2>1. e \in 1..j - 1 /\ e < z
    BY <1>1, <1>2, <1>4
  <2> QED BY <1>2, <2>1
<1>6. ASSUME TruthAt(fields, cond, i, j) # "true" \/ j = z PROVE e = j
  <2> SUFFICES ASSUME j < e PROVE FALSE
    BY <1>1, <1>2, <1>4, <1>5
  <2>1. TruthAt(fields, cond, i, j) = "true" /\ j # z
    BY <1>1, <1>2, <1>4
  <2> QED BY <1>6, <2>1
<1> QED BY <1>3, <1>5, <1>6 DEF e, z

LEMMA ConjunctionGoesOn ==
  ASSUME NEW fields, NEW cond, NEW names, IsCondition(cond, names), NEW i \in DOMAIN cond,
         \A k \in 1..i - 1 : TruthOf(fields, cond, k) = "false"
  PROVE  /\ i <= LastConjunction(fields, cond)
         /\ TruthOf(fields, cond, i) # "false" \/ i = Len(cond) => LastConjunction(fields, cond) = i
<1> DEFINE e == LastConjunction(fields, cond)
           z == Len(cond)
<1>1. z \in Nat /\ DOMAIN cond = 1..z /\ i \in 1..z
  BY ConditionIs
<1>2. cond # <<>>
  BY <1>1
<1>3. e \in 1..z /\ (\A k \in 1..z : k < e => TruthOf(fields, cond, k) = "false")
      /\ (e < z => TruthOf(fields, cond, e) # "false")
  BY <1>1, <1>2, LastConjunctionIs
<1> HIDE DEF e, z
<1>5. i <= e
  <2> SUFFICES ASSUME e < i PROVE FALSE
    BY <1>1, <1>3
  <2>1. e \in 1..i - 1 /\ e < z
    BY <1>1, <1>3
  <2> QED BY <1>3, <2>1
<1>6. ASSUME TruthOf(fields, cond, i) # "false" \/ i = z PROVE e = i
  <2> SUFFICES ASSUME i < e PROVE FALSE
    BY <1>1, <1>3, <1>5
  <2>1. TruthOf(fields, cond, i) = "false" /\ i # z
    BY <1>1, <1>3
  <2> QED BY <1>6, <2>1
<1> QED BY <1>5, <1>6 DEF e, z

LEMMA FinalIs ==
  ASSUME NEW fields, NEW r, NEW names, IsCondition(r.cond, names), r.cond # <<>>, NEW verdict,
         verdict = TruthOf(fields, r.cond, LastConjunction(fields, r.cond)),
         r.reads \subseteq FieldsOf(NeededAtoms(fields, r.cond)),
         verdict # "error" =>
           \A i \in DOMAIN r.cond : \A j \in DOMAIN r.cond[i] :
             IsNeeded(fields, r.cond, i, j) => FieldsOf({r.cond[i][j]}) \subseteq r.reads
  PROVE  Final(fields, r, verdict)
<1>1. /\ Meaning(r.cond, fields).verdict = verdict
      /\ Meaning(r.cond, fields).needed = NeededAtoms(fields, r.cond)
  BY MeaningIs
<1>2. verdict # "error" => FieldsOf(NeededAtoms(fields, r.cond)) \subseteq r.reads
  BY NeededAll
<1> QED BY <1>1, <1>2 DEF Final

\* Where an evaluation fails, the condition has the verdict error.
LEMMA FailsFinal ==
  ASSUME NEW fields, NEW q, NEW names, IsCondition(q.cond, names), q.or = Error,
         NEW i \in DOMAIN q.cond, TruthOf(fields, q.cond, i) = "error",
         \A k \in 1..i - 1 : TruthOf(fields, q.cond, k) = "false",
         q.reads \subseteq FieldsOf(NeededAtoms(fields, q.cond))
  PROVE  EvalOK(fields, q, "verdict")
<1>1. LastConjunction(fields, q.cond) = i
  BY ConjunctionGoesOn
<1>2. q.cond # <<>>
  <2>1. DOMAIN q.cond = 1..Len(q.cond)
    BY ConditionIs
  <2> QED BY <2>1
<1>3. VerdictOf(getObjectValue(q.or)) = "error"
  BY ErrorIs, NoTruth
<1>4. Final(fields, q, VerdictOf(getObjectValue(q.or)))
  BY <1>1, <1>2, <1>3, FinalIs
<1> QED BY <1>4 DEF EvalOK, Inside

\* The value of a term is the one that is written: the sign of a number has
\* been noted, and not for another term.
LEMMA TermIsWritten ==
  ASSUME NEW a, RecordOK(world.fields, p[a], "operand"), isMinus = p[a].signed,
         IsNumber(Term(a)) /\ Term(a).minus => p[a].signed,
         ~LosesSign(Term(a), world.fields), TypeOfTerm(Term(a)).type # "ERROR"
  PROVE  TermValue(a) = Written(Term(a), world.fields)
<1> DEFINE t == Term(a)
           value == IF t.field = "" THEN Literal(t.lit) ELSE world.fields[t.field]
<1>1. TermValue(a) = IF t.minus /\ ~IsNumber(t) THEN Negative(value) ELSE value
  BY DEF TermValue
<1>2. t = OperandOf(p[a])[p[a].t]
  BY DEF Term, Operand, Atom, OperandOf, AtomOf
<1>3. p[a].signed => IsNumber(t) /\ t.minus
  BY <1>2 DEF RecordOK
<1>4. p[a].signed \in BOOLEAN
  BY DEF RecordOK
<1>5. IsNumber(t) <=> t.field = "" /\ t.lit.type \in Numbers
  BY DEF IsNumber
<1>6. Written(t, world.fields) =
        IF t.field # "" THEN IF t.minus THEN Negative(world.fields[t.field]) ELSE world.fields[t.field]
        ELSE IF t.minus THEN Negative(t.lit) ELSE t.lit
  BY DEF Written
<1>10. Written(Term(a), world.fields) = Written(t, world.fields)
  OBVIOUS
<1>7. CASE t.field # ""
  <2>1. value = world.fields[t.field] /\ ~IsNumber(t)
    BY <1>5, <1>7
  <2> HIDE DEF t, value
  <2>2. TermValue(a) = IF t.minus THEN Negative(value) ELSE value
    BY <1>1, <2>1
  <2>3. Written(t, world.fields) = IF t.minus THEN Negative(value) ELSE value
    BY <1>6, <1>7, <2>1
  <2> QED BY <1>10, <2>2, <2>3
<1>8. CASE t.field = "" /\ t.minus /\ t.lit.type \in Numbers
  <2>1. t.lit.type = "NUMBER"
    <3>1. t.lit.type # "DOUBLE"
      BY <1>8 DEF LosesSign
    <3>2. t.lit.type # "FLOAT"
      BY <1>8, CompiledNumberIs, ErrorIs DEF TypeOfTerm, V
    <3> QED BY <1>8, <3>1, <3>2 DEF Numbers
  <2>2. isMinus
    BY <1>5, <1>8
  <2>3. Literal(t.lit) = V("NUMBER", -t.lit.v)
    BY <2>1, <2>2 DEF Literal
  <2>4. Negative(t.lit) = V("NUMBER", -t.lit.v)
    BY <2>1 DEF Negative, getObjectValue, Numbers, Boxes
  <2>5. value = Literal(t.lit)
    BY <1>8
  <2> HIDE DEF t, value
  <2> QED BY <1>1, <1>5, <1>6, <1>8, <1>10, <2>3, <2>4, <2>5
<1>9. CASE t.field = "" /\ ~(t.minus /\ t.lit.type \in Numbers)
  <2>1. ~isMinus
    BY <1>3, <1>4, <1>5, <1>9
  <2>2. Literal(t.lit) = t.lit
    BY <2>1 DEF Literal
  <2>3. value = t.lit
    BY <1>9, <2>2
  <2> HIDE DEF t, value
  <2>4. TermValue(a) = IF t.minus THEN Negative(t.lit) ELSE t.lit
    BY <1>1, <1>5, <1>9, <2>3
  <2>5. Written(t, world.fields) = IF t.minus THEN Negative(t.lit) ELSE t.lit
    BY <1>6, <1>9
  <2> QED BY <1>10, <2>4, <2>5
<1> QED BY <1>7, <1>8, <1>9

\* What a rule that evaluates makes of one term more.
EvaluatedUpto(fields, terms, n, acc) ==
  LET value == Written(terms[n], fields)
  IN  IF n = 1 \/ value.type = "ERROR" THEN value ELSE Sum(acc, value)

LEMMA EvaluatedStep ==
  ASSUME NEW fields, NEW terms, IsList(terms), NEW n \in DOMAIN terms, NEW acc,
         n # 1 => acc = ValuesUpto(terms, fields)[n - 1]
  PROVE  /\ EvaluatedUpto(fields, terms, n, acc).type = "ERROR" => OperandValue(terms, fields).type = "ERROR"
         /\ EvaluatedUpto(fields, terms, n, acc).type # "ERROR" =>
              EvaluatedUpto(fields, terms, n, acc) = ValuesUpto(terms, fields)[n]
<1> DEFINE value == Written(terms[n], fields)
           values == ValuesUpto(terms, fields)
           new == EvaluatedUpto(fields, terms, n, acc)
<1>1. n = 1 => values[n] = value
  BY ValuesAre
<1>2. n # 1 => values[n] = Sum(values[n - 1], value)
  BY ValuesAre
<1>3. new = IF n = 1 \/ value.type = "ERROR" THEN value ELSE Sum(acc, value)
  BY DEF EvaluatedUpto
<1>4. values[n].type = "ERROR" => OperandValue(terms, fields).type = "ERROR"
  BY SumsFail
<1>5. n # 1 => acc = values[n - 1]
  OBVIOUS
<1> HIDE DEF values, value, new
<1>6. new.type # "ERROR" => new = values[n]
  BY <1>1, <1>2, <1>3, <1>5
<1>7. new.type = "ERROR" => values[n].type = "ERROR"
  BY <1>1, <1>2, <1>3, <1>5, ErrorsSpread
<1> QED BY <1>4, <1>6, <1>7 DEF new, values

LEMMA FittingTerm ==
  ASSUME NEW atom, NEW names, IsAtom(atom, names), Fits(atom), NEW s \in DOMAIN atom.operands,
         NEW k \in DOMAIN atom.operands[s]
  PROVE  TypeOfTerm(atom.operands[s][k]).type # "ERROR"
<1>1. TermsFit(atom.operands[s], Len(atom.operands[s])) /\ k \in 1..Len(atom.operands[s])
  BY OperandRefused, AtomIs
<1> QED BY <1>1 DEF TermsFit

\* A step within an atom leaves what is known of those behind.
LEMMA SameWay ==
  ASSUME NEW fields, NEW r, NEW place \in {"operand", "relate"}, NEW q, NEW new \in {"operand", "relate"},
         SameAtom(q, r), q.or = r.or, OrOK(fields, r), AndOK(fields, r, place), ReadsOK(fields, r, place),
         r.reads \subseteq q.reads, q.reads \subseteq FieldsOf(NeededAtoms(fields, q.cond))
  PROVE  OrOK(fields, q) /\ AndOK(fields, q, new) /\ ReadsOK(fields, q, new)
<1>1. AtomsDone(q, new) = AtomsDone(r, place)
  BY DEF AtomsDone, SameAtom
<1>2. q.cond = r.cond /\ q.i = r.i /\ q.j = r.j /\ q.and = r.and /\ q.andSkip = r.andSkip /\ q.orSkip = r.orSkip
  BY DEF SameAtom
<1>3. OrOK(fields, q)
  BY <1>2 DEF OrOK
<1>4. AndOK(fields, q, new)
  BY <1>1, <1>2 DEF AndOK
<1>5. ReadsOK(fields, q, new)
  BY <1>1, <1>2 DEF ReadsOK
<1> QED BY <1>3, <1>4, <1>5

LEMMA SignsEval ==
  ASSUME NEW fields, NEW r, EvalOK(fields, r, "operand"), NEW q, NEW new, Signs(r, q, new)
  PROVE  EvalOK(fields, q, new)
<1> SUFFICES ASSUME NoSignLost(fields, q.cond) PROVE EvalOK(fields, q, new)
  BY Zenon DEF EvalOK
<1>1. new = "operand" /\ SameAtom(q, r) /\ SameTerm(q, r) /\ q.acc = r.acc /\ q.or = r.or /\ q.reads = r.reads
  BY DEF Signs
<1>2. ValueOK(fields, r, "operand") /\ OrOK(fields, r) /\ AndOK(fields, r, "operand") /\ ReadsOK(fields, r, "operand")
  BY <1>1 DEF EvalOK, Inside, SameAtom
<1>3. OrOK(fields, q) /\ AndOK(fields, q, new) /\ ReadsOK(fields, q, new)
  <2>1. q.reads \subseteq FieldsOf(NeededAtoms(fields, q.cond))
    BY <1>1, <1>2 DEF ReadsOK, SameAtom
  <2> QED BY <1>1, <1>2, <2>1, SameWay
<1>4. ValueOK(fields, q, new)
  <2>1. AtomOf(q) = AtomOf(r) /\ OperandOf(q) = OperandOf(r) /\ TermsDone(q, new) = TermsDone(r, "operand")
        /\ q.andSkip = r.andSkip
    BY <1>1 DEF SameAtom, SameTerm, AtomOf, OperandOf, TermsDone
  <2> QED BY <1>1, <1>2, <2>1 DEF ValueOK, SameTerm
<1> QED BY <1>1, <1>3, <1>4 DEF EvalOK, Inside

LEMMA ReadsEval ==
  ASSUME NEW fields, NEW r, RecordOK(fields, r, "operand"), CompileOK(r, "operand"),
         EvalOK(fields, r, "operand"), AllFit(r.cond),
         NEW q, NEW new, Reads(r, q, new), CompileOK(q, new), r.andSkip => new # "verdict",
         NoSignLost(fields, r.cond) /\ ~r.andSkip =>
           q.acc = EvaluatedUpto(fields, OperandOf(r), r.t, r.acc)
  PROVE  EvalOK(fields, q, new)
<1>1. q.cond = r.cond /\ q.i = r.i /\ q.j = r.j /\ q.andSkip = r.andSkip /\ SameAtom(q, r) /\ AtomOf(q) = AtomOf(r)
  BY DEF Reads, SameAtom, AtomOf
<1> SUFFICES ASSUME NoSignLost(fields, r.cond) PROVE EvalOK(fields, q, new)
  BY <1>1, Zenon DEF EvalOK
<1> DEFINE i == r.i
           j == r.j
           atom == AtomOf(r)
           terms == OperandOf(r)
           t == terms[r.t]
<1>2. /\ IsCondition(r.cond, DOMAIN fields) /\ r.cond # <<>> /\ i \in DOMAIN r.cond /\ j \in DOMAIN r.cond[i]
      /\ IsAtom(atom, DOMAIN fields) /\ r.side \in DOMAIN atom.operands /\ r.t \in DOMAIN terms
      /\ r.t \in 1..Len(terms) /\ Len(terms) \in Nat /\ DOMAIN terms = 1..Len(terms) /\ IsList(terms)
  BY PlaceIs DEF Inside
<1>3. terms = atom.operands[r.side] /\ atom = r.cond[i][j]
  BY DEF OperandOf, AtomOf
<1>4. ValueOK(fields, r, "operand") /\ OrOK(fields, r) /\ AndOK(fields, r, "operand") /\ ReadsOK(fields, r, "operand")
  BY DEF EvalOK, Inside
<1>5. new \in {"operand", "relate"} => q.or = r.or
  BY DEF Reads
<1>6. CASE r.andSkip
  <2>1. new \in {"operand", "relate"} /\ q.reads = r.reads
    BY <1>6 DEF Reads
  <2>2. OrOK(fields, q) /\ AndOK(fields, q, new) /\ ReadsOK(fields, q, new)
    BY <1>1, <1>4, <1>5, <2>1, SameWay DEF ReadsOK
  <2>3. ValueOK(fields, q, new)
    BY <1>1, <1>6 DEF ValueOK
  <2> QED BY <2>1, <2>2, <2>3 DEF EvalOK, Inside
<1>7. CASE ~r.andSkip
  <2>1. q.acc = EvaluatedUpto(fields, terms, r.t, r.acc) /\ q.reads = r.reads \cup IF t.field # "" THEN {t.field} ELSE {}
    BY <1>7 DEF Reads
  <2>2. ~r.orSkip /\ (\A k \in 1..i - 1 : TruthOf(fields, r.cond, k) = "false")
    BY <1>4, <1>7 DEF OrOK
  <2>3. \A k \in 1..j - 1 : TruthAt(fields, r.cond, i, k) = "true"
    BY <1>4, <1>7, <2>2 DEF AndOK
  <2>4. IsNeeded(fields, r.cond, i, j)
    BY <1>2, <2>2, <2>3, AtomGoesOn, ConjunctionGoesOn DEF IsNeeded
  <2>5. q.reads \subseteq FieldsOf(NeededAtoms(fields, q.cond))
    <3>1. r.reads \subseteq FieldsOf(NeededAtoms(fields, r.cond))
      BY <1>4 DEF ReadsOK
    <3>2. FieldsOf({atom}) \subseteq FieldsOf(NeededAtoms(fields, r.cond))
      BY <1>2, <1>3, <2>4, NeededFields
    <3>3. t.field # "" => t.field \in FieldsOf({atom})
      BY <1>2, <1>3, FieldIsRead
    <3> QED BY <1>1, <2>1, <3>1, <3>2, <3>3
  <2>6. r.t > 1 => r.acc = ValuesUpto(terms, fields)[r.t - 1]
    <3>1. TermsDone(r, "operand") = r.t - 1
      BY DEF TermsDone
    <3>2. TermsDone(r, "operand") > 0 => r.acc = ValuesUpto(terms, fields)[TermsDone(r, "operand")]
      BY <1>4, <1>7 DEF ValueOK
    <3> HIDE DEF terms
    <3> QED BY <1>2, <3>1, <3>2
  <2>7. IF q.acc.type = "ERROR" THEN Truth(atom, fields) = "error" ELSE q.acc = ValuesUpto(terms, fields)[r.t]
    <3> HIDE DEF atom, terms, t
    <3>1. r.t # 1 => r.acc = ValuesUpto(terms, fields)[r.t - 1]
      BY <1>2, <2>6
    <3>4. IsList(terms) /\ r.t \in DOMAIN terms
      BY <1>2
    <3>5. /\ EvaluatedUpto(fields, terms, r.t, r.acc).type = "ERROR" => OperandValue(terms, fields).type = "ERROR"
          /\ EvaluatedUpto(fields, terms, r.t, r.acc).type # "ERROR" =>
               EvaluatedUpto(fields, terms, r.t, r.acc) = ValuesUpto(terms, fields)[r.t]
      BY <3>1, <3>4, EvaluatedStep
    <3>2. /\ q.acc.type = "ERROR" => OperandValue(terms, fields).type = "ERROR"
          /\ q.acc.type # "ERROR" => q.acc = ValuesUpto(terms, fields)[r.t]
      BY <2>1, <3>5
    <3>3. OperandValue(terms, fields).type = "ERROR" => Truth(atom, fields) = "error"
      BY <1>2, <1>3, OperandFails
    <3> QED BY <3>2, <3>3
  <2>8. \A k \in 1..r.t : terms[k].field # "" => terms[k].field \in q.reads
    <3>1. \A k \in 1..r.t - 1 : terms[k].field # "" => terms[k].field \in r.reads
      BY <1>4, <1>7 DEF ValueOK, TermsDone
    <3>2. \A k \in 1..r.t : k = r.t \/ k \in 1..r.t - 1
      BY <1>2
    <3> HIDE DEF terms
    <3> QED BY <2>1, <3>1, <3>2
  <2>9. r.side = 2 => /\ r.left = OperandValue(atom.operands[1], fields)
                      /\ \A x \in Range(atom.operands[1]) : x.field # "" => x.field \in q.reads
    <3>1. r.side = 2 => /\ r.left = OperandValue(atom.operands[1], fields)
                        /\ \A x \in Range(atom.operands[1]) : x.field # "" => x.field \in r.reads
      BY <1>4, <1>7 DEF ValueOK
    <3> HIDE DEF terms, atom
    <3> QED BY <2>1, <3>1
  <2> HIDE DEF terms, atom, i, j
  <2>10. CASE new = "verdict" /\ q.or = Error /\ q.acc.type = "ERROR"
    <3>1. TruthAt(fields, r.cond, i, j) = "error"
      BY <1>3, <2>7, <2>10 DEF TruthAt
    <3>2. TruthOf(fields, r.cond, i) = "error"
      BY <1>2, <2>3, <3>1, AtomGoesOn
    <3>3. EvalOK(fields, q, "verdict")
      BY <1>1, <1>2, <2>2, <2>5, <2>10, <3>2, FailsFinal
    <3> QED BY <2>10, <3>3
  <2>11. CASE new \in {"operand", "relate"} /\ q.acc.type # "ERROR"
    <3>1. OrOK(fields, q) /\ AndOK(fields, q, new) /\ ReadsOK(fields, q, new)
      BY <1>1, <1>4, <1>5, <2>1, <2>5, <2>11, SameWay, ZenonT(60)
    <3>2. q.acc = ValuesUpto(terms, fields)[r.t]
      BY <2>7, <2>11
    <3>3. ASSUME /\ q.side = r.side /\ q.left = r.left
               /\ \/ new = "operand" /\ q.t = r.t + 1
                  \/ new = "relate" /\ q.t = r.t
          PROVE  ValueOK(fields, q, new)
      <4>1. OperandOf(q) = terms /\ TermsDone(q, new) = r.t /\ AtomOf(q) = atom
        BY <1>1, <1>2, <1>3, <3>3 DEF OperandOf, TermsDone, atom
      <4> QED BY <2>8, <2>9, <3>2, <3>3, <4>1 DEF ValueOK
    <3>4. ASSUME /\ new = "operand" /\ ~(r.t < Len(terms)) /\ r.side < Len(atom.operands)
               /\ q.t = 1 /\ q.side = 2 /\ q.left = q.acc
          PROVE  ValueOK(fields, q, new)
      <4>1. TermsDone(q, new) = 0 /\ r.t = Len(terms) /\ AtomOf(q) = atom
        BY <1>1, <1>2, <3>4 DEF TermsDone, atom
      <4>2. r.side = 1
        <5>1. Len(atom.operands) \in {1, 2} /\ r.side \in 1..Len(atom.operands)
          BY <1>2, AtomIs
        <5>2. \A m, k : k \in {1, 2} /\ m \in 1..k /\ m < k => m = 1
          OBVIOUS
        <5> QED BY <3>4, <5>1, <5>2
      <4>3. terms = atom.operands[1] /\ IsList(terms)
        BY <1>2, <1>3, <4>2, AtomIs
      <4>4. q.left = OperandValue(terms, fields)
        BY <3>2, <3>4, <4>1, <4>3, ValuesAre
      <4>5. \A x \in Range(terms) : x.field # "" => x.field \in q.reads
        BY <1>2, <2>8, <4>1 DEF Range
      <4>6. ~(TermsDone(q, new) > 0) /\ \A k \in 1..TermsDone(q, new) : FALSE
        BY <4>1
      <4> QED BY <3>4, <4>1, <4>3, <4>4, <4>5, <4>6 DEF ValueOK
    <3>5. ValueOK(fields, q, new)
      BY <2>11, <3>3, <3>4 DEF Reads, SameTerm, terms, atom
    <3> QED BY <2>11, <3>1, <3>5 DEF EvalOK, Inside
  <2> QED BY <2>10, <2>11 DEF Reads
<1> QED BY <1>6, <1>7

LEMMA VerdictIs ==
  ASSUME NEW a, IsValue(a)
  PROVE  /\ VerdictOf(a) = "error" <=> a.type # "BOOL"
         /\ VerdictOf(a) = "true" <=> a.type = "BOOL" /\ a.v = TRUE
         /\ VerdictOf(a) = "false" <=> a.type = "BOOL" /\ a.v = FALSE
         /\ VerdictOf(a) \in {"error", "true", "false"}
         /\ a.type = "BOOL" => getObjectValue(a) = a
<1>1. a.type = "BOOL" => a.v \in BOOLEAN
  BY DEF IsValue
<1>2. VerdictOf(a) = IF a.type # "BOOL" THEN "error" ELSE IF a.v THEN "true" ELSE "false"
  BY DEF VerdictOf
<1>3. CASE a.type # "BOOL"
  BY <1>2, <1>3
<1>4. CASE a.type = "BOOL" /\ a.v = TRUE
  BY <1>2, <1>4, Unboxed DEF Boxes
<1>5. CASE a.type = "BOOL" /\ a.v = FALSE
  BY <1>2, <1>5, Unboxed DEF Boxes
<1> QED BY <1>1, <1>3, <1>4, <1>5

\* A neutral operand of && or || leaves the truth of the other one.
LEMMA Neutral ==
  ASSUME NEW a, NEW b, IsValue(a), IsValue(b), a.type = "BOOL",
         NEW truth, (truth = And /\ a.v = TRUE) \/ (truth = Or /\ a.v = FALSE)
  PROVE  /\ IsValue(Both(a, b, truth))
         /\ VerdictOf(getObjectValue(Both(a, b, truth))) = VerdictOf(getObjectValue(b))
         /\ Both(a, b, truth).type \in {"BOOL", "ERROR"}
<1> DEFINE both  == Both(a, b, truth)
           taken == getObjectValue(b)
<1>1. getObjectValue(a) = a
  BY Unboxed DEF Boxes
<1>2. IsValue(taken)
  BY Unboxed
<1>7. truth \in [BOOLEAN \X BOOLEAN -> BOOLEAN]
  BY TruthTables
<1>8. \A v \in BOOLEAN : truth[a.v, v] <=> v
  <2>1. CASE truth = And /\ a.v = TRUE
    BY <2>1, TruthTables
  <2>2. CASE truth = Or /\ a.v = FALSE
    BY <2>2, TruthTables
  <2> QED BY <2>1, <2>2
<1>6. /\ IsValue(both)
      /\ IF getObjectValue(a).type = "BOOL" /\ taken.type = "BOOL"
           THEN both.type = "BOOL" /\ both.v = truth[getObjectValue(a).v, taken.v]
           ELSE both.type = "ERROR"
  BY <1>7, BothIs
<1>3. /\ IsValue(both)
      /\ taken.type = "BOOL" => both.type = "BOOL" /\ both.v = truth[a.v, taken.v]
      /\ taken.type # "BOOL" => both.type = "ERROR"
  <2> HIDE DEF both, taken
  <2>1. IsValue(both)
    BY <1>6
  <2>2. getObjectValue(a).type = "BOOL"
    BY <1>1
  <2>3. taken.type = "BOOL" => both.type = "BOOL" /\ both.v = truth[getObjectValue(a).v, taken.v]
    BY <1>6, <2>2, Zenon
  <2>4. taken.type # "BOOL" => both.type = "ERROR"
    BY <1>6, Zenon
  <2>5. truth[getObjectValue(a).v, taken.v] = truth[a.v, taken.v]
    BY <1>1, Zenon
  <2> QED BY <2>1, <2>3, <2>4, <2>5, Zenon
<1> HIDE DEF both, taken
<1>4. CASE taken.type = "BOOL"
  <2>1. taken.v \in BOOLEAN /\ both.v \in BOOLEAN /\ both.type = "BOOL"
    BY <1>2, <1>3, <1>4 DEF IsValue
  <2>2. both.v <=> taken.v
    BY <1>3, <1>4, <1>8, <2>1
  <2>3. VerdictOf(both) = VerdictOf(taken)
    BY <1>4, <2>1, <2>2 DEF VerdictOf
  <2>4. getObjectValue(both) = both
    BY <1>3, <2>1, VerdictIs
  <2> QED BY <1>3, <2>1, <2>3, <2>4 DEF both, taken
<1>5. CASE taken.type # "BOOL"
  <2>1. VerdictOf(taken) = "error" /\ VerdictOf(getObjectValue(both)) = "error"
    BY <1>2, <1>3, <1>5, VerdictIs, NoTruth
  <2> QED BY <1>3, <1>5, <2>1 DEF both, taken
<1> QED BY <1>4, <1>5

\* The value of an atom is its truth.
LEMMA AtomEvaluated ==
  ASSUME NEW a, RecordOK(world.fields, p[a], "relate"), ValueOK(world.fields, p[a], "relate"), ~p[a].andSkip
  PROVE  VerdictOf(getObjectValue(AtomValue(a))) = Truth(AtomOf(p[a]), world.fields)
<1> DEFINE r == p[a]
           atom == AtomOf(r)
           fields == world.fields
<1>1. /\ IsAtom(atom, DOMAIN fields) /\ r.side \in DOMAIN atom.operands /\ IsList(OperandOf(r))
      /\ r.t \in 1..Len(OperandOf(r)) /\ r.side = Len(atom.operands) /\ r.t = Len(OperandOf(r))
  <2>1. r.side = Len(atom.operands) /\ r.t = Len(OperandOf(r))
    BY DEF RecordOK
  <2> QED BY <2>1, PlaceIs DEF Inside
<1>2. Atom(a) = atom /\ ~onlyCompile(a)
  BY DEF Atom, AtomOf, onlyCompile
<1>3. /\ r.t > 0 => r.acc = ValuesUpto(OperandOf(r), fields)[r.t]
      /\ r.side = 2 => r.left = OperandValue(atom.operands[1], fields)
  BY DEF ValueOK, TermsDone
<1>4. AtomValue(a) =
        LET value == IF Len(atom.operands) = 1 THEN r.acc ELSE Relation(atom.op, r.left, r.acc)
        IN  IF ~atom.not THEN value ELSE Not(value)
  BY <1>2, Zenon DEF AtomValue
<1>5. Truth(atom, fields) =
        LET first == OperandValue(atom.operands[1], fields)
            value == IF Len(atom.operands) = 1 THEN first
                     ELSE Relation(atom.op, first, OperandValue(atom.operands[2], fields))
        IN  VerdictOf(getObjectValue(IF atom.not THEN Not(value) ELSE value))
  BY Zenon DEF Truth
<1>6. Len(atom.operands) \in {1, 2} /\ atom.not \in BOOLEAN
  BY <1>1, AtomIs
<1>7. OperandOf(r) = atom.operands[r.side]
  BY DEF OperandOf
<1> HIDE DEF r, atom, fields
<1>8. r.acc = OperandValue(atom.operands[r.side], fields)
  BY <1>1, <1>3, <1>7, ValuesAre
<1>9. VerdictOf(getObjectValue(AtomValue(a))) = Truth(atom, fields)
  <2>1. CASE Len(atom.operands) = 1
    BY <1>1, <1>4, <1>5, <1>6, <1>8, <2>1
  <2>2. CASE Len(atom.operands) = 2
    BY <1>1, <1>3, <1>4, <1>5, <1>6, <1>8, <2>2
  <2> QED BY <1>6, <2>1, <2>2
<1> QED BY <1>9 DEF atom, r, fields

LEMMA RelatesEval ==
  ASSUME NEW fields, NEW r, RecordOK(fields, r, "relate"), EvalOK(fields, r, "relate"), AllFit(r.cond),
         NEW value, IsValue(value), r.andSkip => value = AtomType(AtomOf(r)),
         NoSignLost(fields, r.cond) /\ ~r.andSkip =>
           VerdictOf(getObjectValue(value)) = Truth(AtomOf(r), fields),
         NEW q, NEW new, Relates(r, q, new, AndOf(r, value))
  PROVE  EvalOK(fields, q, new)
<1> DEFINE and == AndOf(r, value)
           i == r.i
           j == r.j
           atom == r.cond[r.i][r.j]
<1>1. q.cond = r.cond /\ q.i = r.i /\ q.j = r.j /\ q.andSkip = r.andSkip /\ q.orSkip = r.orSkip /\ q.reads = r.reads
  BY DEF Relates, Fails, SameAtom
<1> SUFFICES ASSUME NoSignLost(fields, r.cond) PROVE EvalOK(fields, q, new)
  BY <1>1, Zenon DEF EvalOK
<1>2. /\ IsCondition(r.cond, DOMAIN fields) /\ r.cond # <<>> /\ i \in DOMAIN r.cond /\ j \in DOMAIN r.cond[i]
      /\ IsAtom(atom, DOMAIN fields) /\ r.side \in DOMAIN atom.operands
      /\ DOMAIN r.cond = 1..Len(r.cond) /\ DOMAIN r.cond[i] = 1..Len(r.cond[i])
      /\ i \in 1..Len(r.cond) /\ j \in 1..Len(r.cond[i])
      /\ Len(r.cond) \in Nat /\ Len(r.cond[i]) \in Nat
  BY PlaceIs, ConditionIs DEF Inside, AtomOf
<1>3. ValueOK(fields, r, "relate") /\ OrOK(fields, r) /\ AndOK(fields, r, "relate") /\ ReadsOK(fields, r, "relate")
  BY DEF EvalOK, Inside
<1>4. IsValue(r.and) /\ IsValue(r.or) /\ AtomOf(r) = atom
  BY DEF RecordOK, AtomOf
<1>5. AtomsDone(r, "relate") = j - 1
  BY DEF AtomsDone
<1>6. CASE r.andSkip
  <2>1. and = IF j = 1 \/ value.type = "ERROR" THEN value ELSE CompiledTruths(r.and, value)
    BY <1>6 DEF AndOf
  <2>2. Accepts(value)
    <3>1. value = AtomType(atom)
      BY <1>4, <1>6
    <3>2. Fits(atom)
      BY <1>2 DEF AllFit, ConjunctionFits
    <3> QED BY <3>1, <3>2 DEF Fits
  <2>3. j > 1 => Accepts(r.and)
    BY <1>2, <1>3, <1>5, <1>6 DEF AndOK
  <2>4. ~r.orSkip => j > 1 /\ r.and.type = "BOOL" /\ r.and.v = FALSE
                     /\ LastAtom(fields, r.cond, i) < j /\ TruthOf(fields, r.cond, i) = "false"
    BY <1>3, <1>6 DEF AndOK
  <2>5. value.type # "ERROR"
    BY <2>2, NoneIsNoType DEF Accepts
  <2>6. j > 1 => and = CompiledTruths(r.and, value) /\ and.type = "BOOL" /\ and.v = r.and.v
    BY <1>4, <2>1, <2>2, <2>3, <2>5, CompiledIs
  <2>7. Accepts(and) /\ and.type # "ERROR"
    BY <1>2, <2>1, <2>2, <2>5, <2>6 DEF Accepts
  <2>8. new = "joined" /\ q.and = and /\ q.or = r.or
    BY <2>7 DEF Relates
  <2> HIDE DEF and
  <2>9. OrOK(fields, q)
    BY <1>1, <1>3, <2>8 DEF OrOK
  <2>10. AndOK(fields, q, new)
    BY <1>1, <1>6, <2>4, <2>6, <2>7, <2>8 DEF AndOK
  <2>11. ~IsNeeded(fields, r.cond, i, j)
    <3>1. CASE r.orSkip
      <4>1. LastConjunction(fields, r.cond) < i
        BY <1>3, <3>1 DEF OrOK
      <4>2. LastConjunction(fields, r.cond) \in 1..Len(r.cond)
        BY <1>2, LastConjunctionIs
      <4> QED BY <1>2, <4>1, <4>2 DEF IsNeeded
    <3>2. CASE ~r.orSkip
      <4>1. LastAtom(fields, r.cond, i) \in 1..Len(r.cond[i])
        BY <1>2, LastAtomIs
      <4> QED BY <1>2, <2>4, <3>2, <4>1 DEF IsNeeded
    <3> QED BY <3>1, <3>2
  <2>12. ReadsOK(fields, q, new)
    <3>1. AtomsDone(q, new) = j
      BY <1>1, <2>8 DEF AtomsDone
    <3>2. \A k \in DOMAIN r.cond : \A l \in DOMAIN r.cond[k] :
            k = i /\ l <= j => (l <= j - 1) \/ (k = i /\ l = j)
      <4>1. \A l \in DOMAIN r.cond[i] : l \in Nat
        BY <1>2
      <4> QED BY <1>2, <4>1
    <3> QED BY <1>1, <1>3, <1>5, <2>11, <3>1, <3>2 DEF ReadsOK
  <2>13. ValueOK(fields, q, new)
    BY <2>8 DEF ValueOK
  <2> QED BY <2>8, <2>9, <2>10, <2>12, <2>13 DEF EvalOK, Inside
<1>7. CASE ~r.andSkip
  <2>1. ~r.orSkip /\ (\A k \in 1..i - 1 : TruthOf(fields, r.cond, k) = "false")
    BY <1>3, <1>7 DEF OrOK
  <2>2. \A k \in 1..j - 1 : TruthAt(fields, r.cond, i, k) = "true"
    BY <1>3, <1>7, <2>1 DEF AndOK
  <2>3. j > 1 => r.and.type = "BOOL" /\ r.and.v = TRUE
    BY <1>3, <1>7, <2>1 DEF AndOK
  <2>4. VerdictOf(getObjectValue(value)) = TruthAt(fields, r.cond, i, j)
    BY <1>4, <1>7 DEF TruthAt
  <2>5. and = IF j = 1 \/ value.type = "ERROR" THEN value ELSE Both(r.and, value, And)
    BY <1>7 DEF AndOf
  <2>6. IF and.type = "ERROR" THEN TruthAt(fields, r.cond, i, j) = "error"
        ELSE VerdictOf(getObjectValue(and)) = TruthAt(fields, r.cond, i, j)
    <3>1. CASE value.type = "ERROR"
      BY <2>4, <2>5, <3>1, NoTruth
    <3>2. CASE value.type # "ERROR" /\ j = 1
      BY <2>4, <2>5, <3>2
    <3>3. CASE value.type # "ERROR" /\ j # 1
      <4>1. j > 1
        BY <1>2, <3>3
      <4>2. r.and.type = "BOOL" /\ r.and.v = TRUE
        BY <2>3, <4>1
      <4>4. and = Both(r.and, value, And)
        BY <2>5, <3>3
      <4>5. VerdictOf(getObjectValue(and)) = VerdictOf(getObjectValue(value))
        <5>1. IsValue(r.and) /\ IsValue(value) /\ r.and.type = "BOOL" /\ And = And /\ r.and.v = TRUE
          BY <1>4, <4>2
        <5>2. VerdictOf(getObjectValue(Both(r.and, value, And))) = VerdictOf(getObjectValue(value))
          BY <5>1, Neutral
        <5> HIDE DEF and
        <5> QED BY <4>4, <5>2
      <4> HIDE DEF and
      <4> QED BY <2>4, <4>5, NoTruth
    <3> QED BY <3>1, <3>2, <3>3
  <2>7. CASE and.type = "ERROR"
    <3>1. new = "verdict" /\ q.or = Error
      BY <2>7 DEF Relates, Fails
    <3>2. TruthOf(fields, r.cond, i) = "error"
      BY <1>2, <2>2, <2>6, <2>7, AtomGoesOn
    <3>3. q.reads \subseteq FieldsOf(NeededAtoms(fields, q.cond))
      BY <1>1, <1>3 DEF ReadsOK
    <3> QED BY <1>1, <1>2, <2>1, <3>1, <3>2, <3>3, FailsFinal
  <2>8. CASE and.type # "ERROR"
    <3>1. new = "joined" /\ q.and = and /\ q.or = r.or
      BY <2>8 DEF Relates
    <3> HIDE DEF and
    <3>2. OrOK(fields, q)
      BY <1>1, <1>3, <3>1 DEF OrOK
    <3>3. AndOK(fields, q, new)
      BY <1>1, <1>7, <2>2, <2>6, <2>8, <3>1 DEF AndOK
    <3>4. FieldsOf({atom}) \subseteq r.reads
      <4>1. r.side = Len(atom.operands) /\ r.t = Len(OperandOf(r)) /\ OperandOf(r) = atom.operands[r.side]
        BY <1>4 DEF RecordOK, OperandOf
      <4>2. \A k \in 1..r.t : OperandOf(r)[k].field # "" => OperandOf(r)[k].field \in r.reads
        BY <1>3, <1>7 DEF ValueOK, TermsDone
      <4>3. r.side = 2 => \A x \in Range(atom.operands[1]) : x.field # "" => x.field \in r.reads
        BY <1>3, <1>4, <1>7 DEF ValueOK
      <4> HIDE DEF atom
      <4>4. \A s \in DOMAIN atom.operands : s = r.side \/ (s = 1 /\ r.side = 2)
        <5>1. DOMAIN atom.operands = 1..Len(atom.operands) /\ Len(atom.operands) \in {1, 2}
          BY <1>2, AtomIs
        <5> QED BY <4>1, <5>1
      <4>5. DOMAIN atom.operands[r.side] = 1..r.t
        BY <1>2, <4>1, AtomIs
      <4>8. \A k \in 1..r.t : atom.operands[r.side][k].field # "" => atom.operands[r.side][k].field \in r.reads
        <5> DEFINE terms == OperandOf(r)
        <5>1. terms = atom.operands[r.side] /\ \A k \in 1..r.t : terms[k].field # "" => terms[k].field \in r.reads
          BY <4>1, <4>2
        <5> HIDE DEF terms
        <5> QED BY <5>1
      <4>6. \A k \in DOMAIN atom.operands[r.side] :
              atom.operands[r.side][k].field # "" => atom.operands[r.side][k].field \in r.reads
        BY <4>5, <4>8
      <4>7. r.side = 2 => \A k \in DOMAIN atom.operands[1] :
              atom.operands[1][k].field # "" => atom.operands[1][k].field \in r.reads
        BY <4>3 DEF Range
      <4> QED BY <1>2, <4>4, <4>6, <4>7, AtomFields
    <3>5. ReadsOK(fields, q, new)
      <4>1. AtomsDone(q, new) = j
        BY <1>1, <3>1 DEF AtomsDone
      <4>2. \A k \in DOMAIN r.cond : \A l \in DOMAIN r.cond[k] :
              k = i /\ l <= j => (l <= j - 1) \/ (k = i /\ l = j)
        <5>1. \A l \in DOMAIN r.cond[i] : l \in Nat
          BY <1>2
        <5> QED BY <1>2, <5>1
      <4> QED BY <1>1, <1>3, <1>5, <3>4, <4>1, <4>2 DEF ReadsOK
    <3>6. ValueOK(fields, q, new)
      BY <3>1 DEF ValueOK
    <3> QED BY <3>1, <3>2, <3>3, <3>5, <3>6 DEF EvalOK, Inside
  <2> QED BY <2>7, <2>8
<1> QED BY <1>6, <1>7

\* At the beginning of an atom nothing is known of it.
LEMMA BeginsEval ==
  ASSUME NEW fields, NEW q, q.side = 1, q.t = 1, OrOK(fields, q), AndOK(fields, q, "operand"),
         ReadsOK(fields, q, "operand")
  PROVE  EvalOK(fields, q, "operand")
<1>1. TermsDone(q, "operand") = 0
  BY DEF TermsDone
<1>2. ~(TermsDone(q, "operand") > 0) /\ q.side # 2
  BY <1>1
<1>4. \A k \in 1..TermsDone(q, "operand") : OperandOf(q)[k].field # "" => OperandOf(q)[k].field \in q.reads
  <2>1. 1..TermsDone(q, "operand") = {}
    BY <1>1
  <2> QED BY <2>1, Zenon
<1>3. ValueOK(fields, q, "operand")
  BY <1>2, <1>4, Zenon DEF ValueOK
<1> QED BY <1>3 DEF EvalOK, Inside

LEMMA NextAtomEval ==
  ASSUME NEW fields, NEW r, RecordOK(fields, r, "joined"), EvalOK(fields, r, "joined"),
         r.j < Len(r.cond[r.i]), NEW q, NEW new, GoesToAtom(r, q, new, TakenAnd(r))
  PROVE  EvalOK(fields, q, new)
<1> DEFINE and == TakenAnd(r)
           i == r.i
           j == r.j
<1>1. q.cond = r.cond /\ q.reads = r.reads
  BY DEF GoesToAtom, Goes, Fails, SameAtom
<1> SUFFICES ASSUME NoSignLost(fields, r.cond) PROVE EvalOK(fields, q, new)
  BY <1>1, Zenon DEF EvalOK
<1>2. /\ IsCondition(r.cond, DOMAIN fields) /\ i \in DOMAIN r.cond /\ j \in DOMAIN r.cond[i]
      /\ j \in 1..Len(r.cond[i]) /\ Len(r.cond[i]) \in Nat /\ DOMAIN r.cond[i] = 1..Len(r.cond[i])
  BY PlaceIs, ConditionIs DEF Inside
<1>3. OrOK(fields, r) /\ AndOK(fields, r, "joined") /\ ReadsOK(fields, r, "joined")
  BY DEF EvalOK, Inside
<1>4. IsValue(r.and) /\ AtomsDone(r, "joined") = j
  BY DEF RecordOK, AtomsDone
<1>5. ASSUME q.j = j + 1, q.i = i, new = "operand"
      PROVE  ReadsOK(fields, q, new)
  <2>1. AtomsDone(q, new) = AtomsDone(r, "joined")
    BY <1>2, <1>4, <1>5 DEF AtomsDone
  <2> QED BY <1>1, <1>3, <1>5, <2>1 DEF ReadsOK
<1>6. CASE r.andSkip
  <2>1. and = r.and
    BY <1>6 DEF TakenAnd
  <2>2. /\ new = "operand" /\ q.i = i /\ q.j = j + 1 /\ q.and = r.and /\ q.andSkip
        /\ q.or = r.or /\ q.orSkip = r.orSkip /\ q.side = 1 /\ q.t = 1
    BY <1>6, <2>1 DEF GoesToAtom, Goes
  <2>3. OrOK(fields, q)
    BY <1>1, <1>3, <1>6, <2>2 DEF OrOK
  <2>4. AndOK(fields, q, new)
    <3>1. Accepts(r.and)
      BY <1>2, <1>3, <1>4, <1>6 DEF AndOK
    <3>2. ~r.orSkip => r.and.type = "BOOL" /\ r.and.v = FALSE
                       /\ LastAtom(fields, r.cond, i) < j /\ TruthOf(fields, r.cond, i) = "false"
      BY <1>3, <1>6 DEF AndOK
    <3>3. ~r.orSkip => LastAtom(fields, r.cond, i) < j + 1
      <4>1. LastAtom(fields, r.cond, i) \in 1..Len(r.cond[i])
        BY <1>2, LastAtomIs
      <4> QED BY <1>2, <3>2, <4>1
    <3>4. j + 1 > 1
      BY <1>2
    <3> QED BY <1>1, <2>2, <3>1, <3>2, <3>3, <3>4 DEF AndOK
  <2> QED BY <1>5, <2>2, <2>3, <2>4, BeginsEval
<1>7. CASE ~r.andSkip
  <2>1. and = getObjectValue(r.and) /\ IsValue(and)
    BY <1>4, <1>7, Unboxed DEF TakenAnd
  <2>2. ~r.orSkip /\ (\A k \in 1..i - 1 : TruthOf(fields, r.cond, k) = "false")
    BY <1>3, <1>7 DEF OrOK
  <2>3. /\ \A k \in 1..j - 1 : TruthAt(fields, r.cond, i, k) = "true"
        /\ VerdictOf(and) = TruthAt(fields, r.cond, i, j)
    BY <1>3, <1>7, <2>1, <2>2 DEF AndOK
  <2> HIDE DEF and
  <2>4. CASE and.type # "BOOL"
    <3>1. Fails(r, q, new)
      BY <1>7, <2>4 DEF GoesToAtom, and
    <3>2. TruthAt(fields, r.cond, i, j) = "error"
      BY <2>1, <2>3, <2>4, VerdictIs
    <3>3. TruthOf(fields, r.cond, i) = "error"
      BY <1>2, <2>3, <3>2, AtomGoesOn
    <3>4. new = "verdict" /\ q.or = Error
      BY <3>1 DEF Fails
    <3>5. q.reads \subseteq FieldsOf(NeededAtoms(fields, q.cond))
      BY <1>1, <1>3 DEF ReadsOK
    <3> QED BY <1>1, <1>2, <2>2, <3>3, <3>4, <3>5, FailsFinal
  <2>5. CASE and.type = "BOOL"
    <3>1. /\ new = "operand" /\ q.i = i /\ q.j = j + 1 /\ q.and = and /\ q.andSkip = ~and.v
          /\ q.or = r.or /\ q.orSkip = FALSE /\ q.side = 1 /\ q.t = 1
      <4>1. /\ Goes(r, q, new) /\ q.i = i /\ q.j = j + 1 /\ q.and = and
            /\ q.andSkip = (r.andSkip \/ ~and.v) /\ q.or = r.or /\ q.orSkip = r.orSkip
        BY <1>7, <2>5 DEF GoesToAtom, and
      <4>2. r.orSkip \in BOOLEAN
        BY DEF RecordOK
      <4> QED BY <1>7, <2>2, <4>1, <4>2 DEF Goes
    <3>2. and.v \in BOOLEAN
      BY <2>1, <2>5 DEF IsValue
    <3>3. OrOK(fields, q)
      BY <1>1, <1>3, <2>2, <3>1 DEF OrOK
    <3>4. AndOK(fields, q, new)
      <4>1. Accepts(and) /\ j + 1 > 1 /\ (j + 1) - 1 = j
        BY <1>2, <2>5 DEF Accepts
      <4>2. CASE and.v = TRUE
        <5>1. TruthAt(fields, r.cond, i, j) = "true"
          BY <2>1, <2>3, <2>5, <4>2, VerdictIs
        <5>2. \A k \in 1..j : TruthAt(fields, r.cond, i, k) = "true"
          <6>1. \A k \in 1..j : k = j \/ k \in 1..j - 1
            BY <1>2
          <6> QED BY <2>3, <5>1, <6>1
        <5> QED BY <1>1, <2>5, <3>1, <4>1, <4>2, <5>2 DEF AndOK
      <4>3. CASE and.v = FALSE
        <5>1. TruthAt(fields, r.cond, i, j) = "false"
          BY <2>1, <2>3, <2>5, <4>3, VerdictIs
        <5>2. LastAtom(fields, r.cond, i) = j /\ TruthOf(fields, r.cond, i) = "false"
          BY <1>2, <2>3, <5>1, AtomGoesOn
        <5>3. j < j + 1
          BY <1>2
        <5> QED BY <1>1, <2>5, <3>1, <4>1, <4>3, <5>2, <5>3 DEF AndOK
      <4> QED BY <3>2, <4>2, <4>3
    <3> QED BY <1>5, <3>1, <3>3, <3>4, BeginsEval
  <2> QED BY <2>4, <2>5
<1> QED BY <1>6, <1>7

\* The truth of a conjunction, and of the condition up to it.
LEMMA ConjunctionEvaluated ==
  ASSUME NEW fields, NEW r, RecordOK(fields, r, "joined"), OrOK(fields, r), AndOK(fields, r, "joined"),
         r.j = Len(r.cond[r.i]), ~r.orSkip
  PROVE  VerdictOf(getObjectValue(JoinOf(r))) = TruthOf(fields, r.cond, r.i)
<1>1. /\ IsCondition(r.cond, DOMAIN fields) /\ r.i \in DOMAIN r.cond /\ r.j \in DOMAIN r.cond[r.i]
      /\ Len(r.cond) \in Nat /\ r.i \in 1..Len(r.cond)
  BY PlaceIs, ConditionIs DEF Inside
<1>2. IsValue(r.and) /\ IsValue(r.or) /\ r.andSkip \in BOOLEAN
  BY DEF RecordOK
<1>3. VerdictOf(getObjectValue(r.and)) = TruthOf(fields, r.cond, r.i)
  <2>1. CASE r.andSkip
    <3>1. r.and.type = "BOOL" /\ r.and.v = FALSE /\ TruthOf(fields, r.cond, r.i) = "false"
      BY <2>1 DEF AndOK
    <3>2. getObjectValue(r.and) = r.and /\ VerdictOf(r.and) = "false"
      BY <1>2, <3>1, VerdictIs
    <3> QED BY <3>1, <3>2
  <2>2. CASE ~r.andSkip
    <3>1. /\ \A k \in 1..r.j - 1 : TruthAt(fields, r.cond, r.i, k) = "true"
          /\ VerdictOf(getObjectValue(r.and)) = TruthAt(fields, r.cond, r.i, r.j)
      BY <2>2 DEF AndOK
    <3>2. TruthOf(fields, r.cond, r.i) = TruthAt(fields, r.cond, r.i, r.j)
      BY <1>1, <3>1, AtomGoesOn
    <3> QED BY <3>1, <3>2
  <2> QED BY <2>1, <2>2
<1>4. CASE r.i = 1
  BY <1>3, <1>4 DEF JoinOf
<1>5. CASE r.i # 1
  <2>1. JoinOf(r) = Both(r.or, r.and, Or)
    BY <1>5 DEF JoinOf
  <2>2. r.or.type = "BOOL" /\ r.or.v = FALSE
    <3>1. r.i > 1
      BY <1>1, <1>5
    <3> QED BY <3>1 DEF OrOK
  <2>4. IsValue(r.or) /\ IsValue(r.and) /\ r.or.type = "BOOL" /\ Or = Or /\ r.or.v = FALSE
    BY <1>2, <2>2
  <2>3. VerdictOf(getObjectValue(Both(r.or, r.and, Or))) = VerdictOf(getObjectValue(r.and))
    <3> DEFINE truth == Or
               left == r.or
               right == r.and
    <3>1. IsValue(left) /\ IsValue(right) /\ left.type = "BOOL" /\ truth = Or /\ left.v = FALSE
      BY <2>4
    <3> HIDE DEF truth, left, right
    <3>2. VerdictOf(getObjectValue(Both(left, right, truth))) = VerdictOf(getObjectValue(right))
      BY <3>1, Neutral
    <3> QED BY <3>2 DEF truth, left, right
  <2> QED BY <1>3, <2>1, <2>3
<1> QED BY <1>4, <1>5

\* A conjunction that is skipped leaves TRUE.
LEMMA ConjunctionSkipped ==
  ASSUME NEW fields, NEW r, RecordOK(fields, r, "joined"), OrOK(fields, r), AndOK(fields, r, "joined"), r.orSkip
  PROVE  /\ r.andSkip /\ JoinOf(r).type = "BOOL" /\ JoinOf(r).v = TRUE /\ TakenOr(r) = JoinOf(r)
         /\ LastConjunction(fields, r.cond) < r.i
         /\ TruthOf(fields, r.cond, LastConjunction(fields, r.cond)) = "true"
         /\ LastConjunction(fields, r.cond) \in DOMAIN r.cond /\ r.i > 1
<1>1. /\ IsCondition(r.cond, DOMAIN fields) /\ r.i \in DOMAIN r.cond /\ r.j \in 1..Len(r.cond[r.i])
      /\ Len(r.cond) \in Nat /\ r.i \in 1..Len(r.cond) /\ DOMAIN r.cond = 1..Len(r.cond)
      /\ Len(r.cond[r.i]) \in Nat /\ r.cond # <<>>
  BY PlaceIs, ConditionIs DEF Inside
<1>2. /\ r.andSkip /\ r.or.type = "BOOL" /\ r.or.v = TRUE
      /\ LastConjunction(fields, r.cond) < r.i
      /\ TruthOf(fields, r.cond, LastConjunction(fields, r.cond)) = "true"
  BY DEF OrOK
<1>3. LastConjunction(fields, r.cond) \in 1..Len(r.cond)
  BY <1>1, LastConjunctionIs
<1>4. r.i > 1
  BY <1>1, <1>2, <1>3
<1>5. IsValue(r.and) /\ IsValue(r.or)
  BY DEF RecordOK
<1>6. Accepts(r.and) /\ Accepts(r.or)
  <2>1. AtomsDone(r, "joined") > 0
    BY <1>1 DEF AtomsDone
  <2> QED BY <1>2, <2>1 DEF AndOK, Accepts
<1>7. JoinOf(r) = CompiledTruths(r.or, r.and)
  BY <1>4 DEF JoinOf
<1>8. JoinOf(r).type = "BOOL" /\ JoinOf(r).v = TRUE
  BY <1>2, <1>5, <1>6, <1>7, CompiledIs
<1> QED BY <1>1, <1>2, <1>3, <1>4, <1>8 DEF TakenOr

LEMMA EndConjunctionEval ==
  ASSUME NEW fields, NEW r, RecordOK(fields, r, "joined"), EvalOK(fields, r, "joined"),
         r.j = Len(r.cond[r.i]), NEW q, NEW new, GoesToConjunction(r, q, new, JoinOf(r), TakenOr(r))
  PROVE  EvalOK(fields, q, new)
<1> DEFINE join == JoinOf(r)
           or == TakenOr(r)
           i == r.i
           last == r.i = Len(r.cond)
<1>1. q.cond = r.cond /\ q.reads = r.reads
  BY DEF GoesToConjunction, Goes, Fails, SameAtom
<1> SUFFICES ASSUME NoSignLost(fields, r.cond) PROVE EvalOK(fields, q, new)
  BY <1>1, Zenon DEF EvalOK
<1>2. /\ IsCondition(r.cond, DOMAIN fields) /\ i \in DOMAIN r.cond /\ i \in 1..Len(r.cond) /\ Len(r.cond) \in Nat
      /\ DOMAIN r.cond = 1..Len(r.cond) /\ r.cond # <<>>
      /\ DOMAIN r.cond[i] = 1..Len(r.cond[i]) /\ Len(r.cond[i]) \in Nat
  BY PlaceIs, ConditionIs DEF Inside
<1>3. OrOK(fields, r) /\ AndOK(fields, r, "joined") /\ ReadsOK(fields, r, "joined")
  BY DEF EvalOK, Inside
<1>4. IsValue(r.and) /\ IsValue(r.or) /\ IsValue(join) /\ IsValue(or) /\ r.orSkip \in BOOLEAN
  BY JoinIs DEF RecordOK
\* What is known of the conjunctions that are behind now.
<1>5. \A k \in DOMAIN r.cond : \A l \in DOMAIN r.cond[k] :
        k <= i /\ IsNeeded(fields, r.cond, k, l) => FieldsOf({r.cond[k][l]}) \subseteq r.reads
  <2>1. AtomsDone(r, "joined") = Len(r.cond[i])
    BY DEF AtomsDone
  <2>2. \A k \in DOMAIN r.cond : k <= i => k < i \/ k = i
    BY <1>2
  <2>3. \A l \in DOMAIN r.cond[i] : l <= Len(r.cond[i])
    BY <1>2
  <2> QED BY <1>3, <2>1, <2>2, <2>3 DEF ReadsOK
<1>6. r.reads \subseteq FieldsOf(NeededAtoms(fields, r.cond))
  BY <1>3 DEF ReadsOK
\* The step at the end of the last conjunction, and the one to the next.
<1>7. ASSUME last, new = "verdict", q.or = or, LastConjunction(fields, r.cond) <= i,
             VerdictOf(getObjectValue(or)) = TruthOf(fields, r.cond, LastConjunction(fields, r.cond))
      PROVE  EvalOK(fields, q, new)
  <2>1. \A k \in DOMAIN r.cond : k <= i
    BY <1>2, <1>7
  <2>2. \A k \in DOMAIN q.cond : \A l \in DOMAIN q.cond[k] :
          IsNeeded(fields, q.cond, k, l) => FieldsOf({q.cond[k][l]}) \subseteq q.reads
    BY <1>1, <1>5, <2>1
  <2>3. Final(fields, q, VerdictOf(getObjectValue(q.or)))
    BY <1>1, <1>2, <1>6, <1>7, <2>2, FinalIs
  <2> QED BY <1>7, <2>3 DEF EvalOK, Inside
<1>8. ASSUME new = "operand", q.i = i + 1, q.j = 1, q.side = 1, q.t = 1, OrOK(fields, q), q.orSkip = q.andSkip
      PROVE  EvalOK(fields, q, new)
  <2>1. AtomsDone(q, "operand") = 0
    BY <1>8 DEF AtomsDone
  <2>2. AndOK(fields, q, "operand")
    <3>1. ~(AtomsDone(q, "operand") > 0) /\ ~(q.j > 1) /\ \A k \in 1..q.j - 1 : FALSE
      BY <1>8, <2>1
    <3> QED BY <1>8, <3>1 DEF AndOK
  <2>3. \A k \in DOMAIN r.cond : \A l \in DOMAIN r.cond[k] :
          k < i + 1 \/ (k = i + 1 /\ l <= 0) => k <= i
    <3>1. \A k \in DOMAIN r.cond : k < i + 1 => k <= i
      BY <1>2
    <3>2. \A k \in DOMAIN r.cond : \A l \in DOMAIN r.cond[k] : ~(l <= 0)
      BY <1>2, ConditionIs
    <3> QED BY <3>1, <3>2
  <2>4. ReadsOK(fields, q, "operand")
    BY <1>1, <1>5, <1>6, <1>8, <2>1, <2>3 DEF ReadsOK
  <2> QED BY <1>8, <2>2, <2>4, BeginsEval
<1>9. CASE r.orSkip
  <2>1. /\ join.type = "BOOL" /\ join.v = TRUE /\ or = join
        /\ LastConjunction(fields, r.cond) < i
        /\ TruthOf(fields, r.cond, LastConjunction(fields, r.cond)) = "true"
        /\ LastConjunction(fields, r.cond) \in 1..Len(r.cond)
    BY <1>2, <1>3, <1>9, ConjunctionSkipped
  <2> HIDE DEF join, or
  <2>2. CASE last
    <3>1. new = "verdict" /\ q.or = or
      BY <1>9, <2>1, <2>2 DEF GoesToConjunction, join, or
    <3>2. VerdictOf(getObjectValue(or)) = "true"
      BY <1>4, <2>1, VerdictIs
    <3>3. LastConjunction(fields, r.cond) <= i
      BY <1>2, <2>1
    <3> QED BY <1>7, <2>1, <2>2, <3>1, <3>2, <3>3
  <2>3. CASE ~last
    <3>1. /\ new = "operand" /\ q.i = i + 1 /\ q.j = 1 /\ q.side = 1 /\ q.t = 1 /\ q.or = or
          /\ q.orSkip = TRUE /\ q.andSkip = TRUE
      BY <1>9, <2>1, <2>3 DEF GoesToConjunction, Goes, join, or
    <3>2. LastConjunction(fields, r.cond) < i + 1
      BY <1>2, <2>1
    <3>3. OrOK(fields, q)
      BY <1>1, <2>1, <3>1, <3>2 DEF OrOK
    <3> QED BY <1>8, <3>1, <3>3
  <2> QED BY <2>2, <2>3
<1>10. CASE ~r.orSkip
  <2>1. VerdictOf(getObjectValue(join)) = TruthOf(fields, r.cond, i)
    BY <1>3, <1>10, ConjunctionEvaluated
  <2>2. \A k \in 1..i - 1 : TruthOf(fields, r.cond, k) = "false"
    BY <1>3, <1>10 DEF OrOK
  <2>3. or = IF last THEN join ELSE getObjectValue(join)
    BY <1>10 DEF TakenOr
  <2> HIDE DEF join, or
  <2>4. CASE join.type = "ERROR" \/ (~last /\ or.type # "BOOL")
    <3>1. new = "verdict" /\ q.or = Error
      BY <1>10, <2>4 DEF GoesToConjunction, Fails, join, or
    <3>2. TruthOf(fields, r.cond, i) = "error"
      <4>1. CASE join.type = "ERROR"
        BY <2>1, <4>1, NoTruth
      <4>2. CASE ~last /\ or.type # "BOOL"
        BY <1>4, <2>1, <2>3, <4>2, VerdictIs
      <4> QED BY <2>4, <4>1, <4>2
    <3> QED BY <1>1, <1>2, <1>6, <2>2, <3>1, <3>2, FailsFinal
  <2>5. CASE join.type # "ERROR" /\ last
    <3>1. new = "verdict" /\ q.or = or
      BY <1>10, <2>5 DEF GoesToConjunction, join, or
    <3>2. LastConjunction(fields, r.cond) = i
      BY <1>2, <2>2, <2>5, ConjunctionGoesOn
    <3>3. VerdictOf(getObjectValue(or)) = TruthOf(fields, r.cond, LastConjunction(fields, r.cond))
      BY <2>1, <2>3, <2>5, <3>2
    <3>4. LastConjunction(fields, r.cond) <= i
      BY <1>2, <3>2
    <3> QED BY <1>7, <2>5, <3>1, <3>3, <3>4
  <2>6. CASE join.type # "ERROR" /\ ~last /\ or.type = "BOOL"
    <3>1. or.v \in BOOLEAN
      BY <1>4, <2>6 DEF IsValue
    <3>2. /\ new = "operand" /\ q.i = i + 1 /\ q.j = 1 /\ q.side = 1 /\ q.t = 1 /\ q.or = or
          /\ q.orSkip = or.v /\ q.andSkip = or.v
      <4>1. /\ Goes(r, q, new) /\ q.i = i + 1 /\ q.j = 1 /\ q.or = or
            /\ q.orSkip = (r.orSkip \/ or.v) /\ q.andSkip = (r.orSkip \/ or.v)
        BY <1>10, <2>6 DEF GoesToConjunction, join, or
      <4> QED BY <1>10, <3>1, <4>1 DEF Goes
    <3>3. VerdictOf(or) = TruthOf(fields, r.cond, i)
      BY <2>1, <2>3, <2>6
    <3>4. CASE or.v = TRUE
      <4>1. TruthOf(fields, r.cond, i) = "true"
        BY <1>4, <2>6, <3>3, <3>4, VerdictIs
      <4>2. LastConjunction(fields, r.cond) = i
        BY <1>2, <2>2, <4>1, ConjunctionGoesOn
      <4>3. i < i + 1
        BY <1>2
      <4>4. OrOK(fields, q)
        BY <1>1, <2>6, <3>2, <3>4, <4>1, <4>2, <4>3 DEF OrOK
      <4> QED BY <1>8, <3>2, <4>4
    <3>5. CASE or.v = FALSE
      <4>1. TruthOf(fields, r.cond, i) = "false"
        BY <1>4, <2>6, <3>3, <3>5, VerdictIs
      <4>2. \A k \in 1..(i + 1) - 1 : TruthOf(fields, r.cond, k) = "false"
        <5>1. \A k \in 1..(i + 1) - 1 : k = i \/ k \in 1..i - 1
          BY <1>2
        <5> QED BY <2>2, <4>1, <5>1
      <4>3. OrOK(fields, q)
        BY <1>1, <2>6, <3>2, <3>5, <4>2 DEF OrOK
      <4> QED BY <1>8, <3>2, <4>3
    <3> QED BY <3>1, <3>4, <3>5
  <2> QED BY <2>4, <2>5, <2>6
<1> QED BY <1>4, <1>9, <1>10

-----------------------------------------------------------------------------
(* The threads that do not move *)

LEMMA ActorsAre == monitor \in Actors /\ monitor \notin Dumpers /\ \A a \in Actors : a # monitor <=> a \in Dumpers
BY ActorsDiffer DEF Actors

\* While a thread is in the parser the others are not, or a file was read
\* during their evaluation.
LEMMA OthersOut ==
  ASSUME IInv, NEW a \in Actors, Busy(a), NEW b \in Actors, b # a, b # monitor, b \notin overlapped
  PROVE  ~Busy(b)
<1>1. b \in Dumpers
  BY ActorsAre
<1>2. CASE a = monitor
  BY <1>1, <1>2 DEF IInv, Noted
<1>3. CASE a # monitor
  BY <1>1, <1>3, ActorsAre DEF IInv, Holds, Busy
<1> QED BY <1>2, <1>3

LEMMA OthersKeep ==
  ASSUME IInv, ParserInv, NEW a \in Actors, world' = world, isMinus' = isMinus \/ Busy(a),
         \A b \in Actors \ {a} : p'[b] = p[b] /\ pc'[b] = pc[b] /\ (b \in overlapped => b \in overlapped')
  PROVE  \A b \in Actors \ {a} : ThreadOK(b)'
<1> SUFFICES ASSUME NEW b \in Actors, b # a PROVE ThreadOK(b)'
  OBVIOUS
<1>1. p'[b] = p[b] /\ pc'[b] = pc[b] /\ (Busy(b)' <=> Busy(b)) /\ (b \notin overlapped' => b \notin overlapped)
  BY DEF Busy
<1>2. ThreadOK(b)
  BY DEF ParserInv
<1>3. b # monitor /\ b \notin overlapped /\ Busy(b) => isMinus' = isMinus
  BY OthersOut
<1> QED BY <1>1, <1>2, <1>3 DEF ThreadOK

\* A step inside expr.
LEMMA ParsePuts ==
  ASSUME NEW a \in Actors, Parse(a)
  PROVE  (\E rec : p' = [p EXCEPT ![a] = rec]) /\ (isMinus \in BOOLEAN => isMinus' \in BOOLEAN)
<1>1. CASE UnaryMinus(a)
  BY <1>1 DEF UnaryMinus, Put
<1>2. CASE ReadTerm(a)
  <2>1. \E rec : Put(a, rec)
    BY <1>2, Zenon DEF ReadTerm
  <2>2. isMinus' = (isMinus /\ ~IsNumber(Term(a)))
    BY <1>2, Zenon DEF ReadTerm
  <2>3. isMinus' \in BOOLEAN
    BY <2>2
  <2> QED BY <2>1, <2>3 DEF Put
<1>3. CASE Relate(a)
  <2>1. (\E rec : Put(a, rec)) /\ UNCHANGED isMinus
    BY <1>3, Zenon DEF Relate, Fail
  <2> QED BY <2>1 DEF Put
<1>4. CASE NextAtom(a)
  <2>1. (\E rec : Put(a, rec)) /\ UNCHANGED isMinus
    BY <1>4, Zenon DEF NextAtom, Fail
  <2> QED BY <2>1 DEF Put
<1>5. CASE EndConjunction(a)
  <2>1. (\E rec : Put(a, rec)) /\ UNCHANGED isMinus
    BY <1>5, Zenon DEF EndConjunction, Fail
  <2> QED BY <2>1 DEF Put
<1> QED BY <1>1, <1>2, <1>3, <1>4, <1>5 DEF Parse

LEMMA ParseFrame ==
  ASSUME IInv, ParserInv, NEW a \in Actors, Parse(a)
  PROVE  /\ world' = world /\ overlapped' = overlapped /\ pc[a] \in Inside /\ pc'[a] \in Inside \cup {"verdict"}
         /\ WorldOK' /\ \A b \in Actors \ {a} : ThreadOK(b)'
         /\ DOMAIN p = Actors /\ pc \in [Actors -> Places] /\ DOMAIN p[a] = DOMAIN Fresh /\ world \in Worlds
<1>1. pc \in [Actors -> Places] /\ WorldOK /\ ThreadOK(a)
  BY DEF IInv, ParserInv
<1>2. Moves(a)
  BY <1>1, ParseMoves
<1>3. PICK place \in Inside \cup {"verdict"} : pc' = [pc EXCEPT ![a] = place]
  BY <1>2 DEF Moves
<1>4. UNCHANGED <<world, jvmEnv, owner, file, installed, calls, overlapped, crashed>> /\ pc[a] \in Inside
  BY <1>2 DEF Moves, outside, method
<1>5. PICK rec : p' = [p EXCEPT ![a] = rec]
  BY ParsePuts
<1>6. DOMAIN p = Actors /\ DOMAIN p' = Actors /\ isMinus' \in BOOLEAN
  BY <1>1, <1>5, ParsePuts DEF WorldOK
<1>7. WorldOK'
  BY <1>1, <1>4, <1>6 DEF WorldOK
<1>8. \A b \in Actors \ {a} : p'[b] = p[b] /\ pc'[b] = pc[b]
  BY <1>1, <1>3, <1>5, <1>6
<1>9. Busy(a)
  BY <1>4 DEF Busy, Inside
<1>10. \A b \in Actors \ {a} : ThreadOK(b)'
  BY <1>4, <1>8, <1>9, OthersKeep
<1>11. DOMAIN p[a] = DOMAIN Fresh /\ world \in Worlds
  BY <1>1 DEF ThreadOK, RecordOK, WorldOK
<1>12. pc'[a] = place
  BY <1>1, <1>3
<1> QED BY <1>1, <1>3, <1>4, <1>6, <1>7, <1>10, <1>11, <1>12

\* What ThreadOK asks of the thread that moves.
LEMMA MovedOK ==
  ASSUME NEW a \in Actors, ThreadOK(a), world' = world, overlapped' = overlapped,
         NEW r, r = p[a], NEW q, q = p'[a], NEW new, new = pc'[a],
         pc[a] \in Inside, new \in Inside \cup {"verdict"},
         RecordOK(world.fields, q, new), CompileOK(q, new), q.cond = r.cond,
         a = monitor => JudgeOK(q, new) /\ q.andSkip /\ q.orSkip,
         a # monitor /\ a \notin overlapped => EvalOK(world.fields, q, new) /\ isMinus' = q.signed
  PROVE  ThreadOK(a)'
<1>1. pc[a] # "idle" /\ pc[a] # "enter"
  BY DEF Inside
<1>2. a # monitor => AllFit(q.cond)
  BY <1>1 DEF ThreadOK
<1> QED BY <1>2 DEF ThreadOK

\* What ThreadOK says inside expr.
LEMMA InsideIs ==
  ASSUME NEW a \in Actors, ThreadOK(a), pc[a] \in Inside
  PROVE  /\ RecordOK(world.fields, p[a], pc[a]) /\ CompileOK(p[a], pc[a])
         /\ a = monitor => JudgeOK(p[a], pc[a]) /\ p[a].andSkip /\ p[a].orSkip
         /\ a # monitor => AllFit(p[a].cond)
         /\ a # monitor /\ a \notin overlapped => EvalOK(world.fields, p[a], pc[a]) /\ isMinus = p[a].signed
BY DEF ThreadOK, Busy, Inside

LEMMA UnaryMinusKeeps ==
  ASSUME IInv, ParserInv, NEW a \in Actors, UnaryMinus(a)
  PROVE  ThreadOK(a)'
<1> DEFINE r == p[a]
           q == p'[a]
           new == pc'[a]
<1>1. Parse(a)
  BY DEF Parse
<1>2. /\ world' = world /\ overlapped' = overlapped /\ pc[a] \in Inside /\ new \in Inside \cup {"verdict"}
      /\ DOMAIN p = Actors /\ DOMAIN r = DOMAIN Fresh
  BY <1>1, ParseFrame
<1>3. ThreadOK(a)
  BY DEF ParserInv
<1>4. pc[a] = "operand" /\ isMinus' = TRUE /\ Signs(r, q, new)
  BY <1>2, UnaryMinusIs
<1>5. /\ RecordOK(world.fields, r, "operand") /\ CompileOK(r, "operand")
      /\ a = monitor => JudgeOK(r, "operand") /\ r.andSkip /\ r.orSkip
      /\ a # monitor /\ a \notin overlapped => EvalOK(world.fields, r, "operand") /\ isMinus = r.signed
  BY <1>2, <1>3, <1>4, InsideIs
<1> HIDE DEF r, q, new
<1>6. RecordOK(world.fields, q, new)
  BY <1>4, <1>5, SignsKeepsRecord
<1>7. new = "operand" /\ SameAtom(q, r) /\ SameTerm(q, r) /\ q.acc = r.acc /\ q.signed = TRUE
  BY <1>4 DEF Signs
<1>8. CompileOK(q, new)
  <2>1. AtomOf(q) = AtomOf(r) /\ OperandOf(q) = OperandOf(r) /\ TermsDone(q, new) = TermsDone(r, "operand")
    BY <1>7 DEF SameAtom, SameTerm, AtomOf, OperandOf, TermsDone
  <2>2. q.andSkip = r.andSkip /\ q.side = r.side /\ q.left = r.left
    BY <1>7 DEF SameAtom, SameTerm
  <2> QED BY <1>5, <1>7, <2>1, <2>2 DEF CompileOK
<1>9. a = monitor => JudgeOK(q, new) /\ q.andSkip /\ q.orSkip
  BY <1>4, <1>5, <1>7, SignsJudge DEF SameAtom
<1>10. a # monitor /\ a \notin overlapped => EvalOK(world.fields, q, new) /\ isMinus' = q.signed
  BY <1>4, <1>5, <1>7, SignsEval
<1>11. q.cond = r.cond
  BY <1>7 DEF SameAtom
<1> QED BY <1>2, <1>3, <1>6, <1>8, <1>9, <1>10, <1>11, MovedOK DEF r, q, new

LEMMA ReadTermKeeps ==
  ASSUME IInv, ParserInv, NEW a \in Actors, ReadTerm(a)
  PROVE  ThreadOK(a)'
<1> DEFINE r == p[a]
           q == p'[a]
           new == pc'[a]
           fields == world.fields
<1>1. Parse(a)
  BY DEF Parse
<1>2. /\ world' = world /\ overlapped' = overlapped /\ pc[a] \in Inside /\ new \in Inside \cup {"verdict"}
      /\ DOMAIN p = Actors /\ pc \in [Actors -> Places] /\ DOMAIN r = DOMAIN Fresh /\ world \in Worlds
  BY <1>1, ParseFrame
<1>3. ThreadOK(a)
  BY DEF ParserInv
<1>4. /\ pc[a] = "operand" /\ q.acc = Accumulated(a) /\ Reads(r, q, new)
      /\ isMinus' = (isMinus /\ ~IsNumber(OperandOf(r)[r.t]))
      /\ IsNumber(OperandOf(r)[r.t]) /\ OperandOf(r)[r.t].minus => r.signed
  BY <1>2, ReadTermIs
<1>5. /\ RecordOK(fields, r, "operand") /\ CompileOK(r, "operand")
      /\ a = monitor => JudgeOK(r, "operand") /\ r.andSkip /\ r.orSkip
      /\ a # monitor => AllFit(r.cond)
      /\ a # monitor /\ a \notin overlapped => EvalOK(fields, r, "operand") /\ isMinus = r.signed
  BY <1>2, <1>3, <1>4, InsideIs
<1>6. /\ IsValue(q.acc)
      /\ r.andSkip => q.acc = CompiledUpto(OperandOf(r), r.t, r.acc)
      /\ ~r.andSkip => q.acc = IF r.t = 1 \/ TermValue(a).type = "ERROR" THEN TermValue(a)
                               ELSE Sum(r.acc, TermValue(a))
  BY <1>2, <1>4, <1>5, AccumulatedIs
<1>7. Term(a) = OperandOf(r)[r.t]
  BY DEF Term, Operand, Atom, OperandOf, AtomOf
<1>8. /\ r.i \in DOMAIN r.cond /\ r.j \in DOMAIN r.cond[r.i] /\ IsCondition(r.cond, DOMAIN fields)
      /\ IsAtom(AtomOf(r), DOMAIN fields) /\ r.side \in DOMAIN AtomOf(r).operands
      /\ r.t \in DOMAIN AtomOf(r).operands[r.side] /\ AtomOf(r) = r.cond[r.i][r.j]
  BY <1>5, PlaceIs DEF Inside, AtomOf, OperandOf
<1>9. a # monitor => Fits(AtomOf(r))
  BY <1>5, <1>8 DEF AllFit, ConjunctionFits
<1>10. a # monitor /\ a \notin overlapped /\ NoSignLost(fields, r.cond) => TermValue(a) = Written(Term(a), fields)
  <2> SUFFICES ASSUME a # monitor, a \notin overlapped, NoSignLost(fields, r.cond)
               PROVE  TermValue(a) = Written(Term(a), fields)
    OBVIOUS
  <2>1. Term(a) = AtomOf(r).operands[r.side][r.t]
    BY <1>7 DEF OperandOf
  <2>2. TypeOfTerm(Term(a)).type # "ERROR"
    BY <1>8, <1>9, <2>1, FittingTerm
  <2>3. ~LosesSign(Term(a), fields)
    <3>1. Term(a) \in TermsOf(AtomsOf(r.cond))
      BY <1>8, <2>1, TermIsThere
    <3> QED BY <3>1 DEF NoSignLost
  <2>4. isMinus = p[a].signed /\ (IsNumber(Term(a)) /\ Term(a).minus => p[a].signed)
        /\ RecordOK(world.fields, p[a], "operand")
    BY <1>4, <1>5, <1>7
  <2> QED BY <2>2, <2>3, <2>4, TermIsWritten
<1> HIDE DEF r, q, new, fields
<1>11. RecordOK(fields, q, new)
  BY <1>4, <1>5, <1>6, ReadsKeepsRecord
<1>12. CompileOK(q, new) /\ (r.andSkip /\ new = "verdict" => ~Fits(AtomOf(r)))
  BY <1>4, <1>5, <1>6, ReadsCompile
<1>13. q.cond = r.cond /\ q.signed = FALSE /\ q.andSkip = r.andSkip /\ q.orSkip = r.orSkip
  BY <1>4 DEF Reads, SameAtom
<1>14. a = monitor => JudgeOK(q, new) /\ q.andSkip /\ q.orSkip
  BY <1>4, <1>5, <1>12, <1>13, ReadsJudge
<1>15. a # monitor /\ a \notin overlapped => EvalOK(fields, q, new)
  <2> SUFFICES ASSUME a # monitor, a \notin overlapped PROVE EvalOK(fields, q, new)
    OBVIOUS
  <2>1. NoSignLost(fields, r.cond) /\ ~r.andSkip => q.acc = EvaluatedUpto(fields, OperandOf(r), r.t, r.acc)
    BY <1>6, <1>7, <1>10 DEF EvaluatedUpto
  <2>2. r.andSkip => new # "verdict"
    BY <1>9, <1>12
  <2> QED BY <1>4, <1>5, <1>12, <2>1, <2>2, ReadsEval
<1>16. a # monitor /\ a \notin overlapped => isMinus' = q.signed
  <2>1. r.signed \in BOOLEAN /\ (r.signed => IsNumber(OperandOf(r)[r.t]))
    BY <1>5 DEF RecordOK
  <2> QED BY <1>4, <1>5, <1>13, <2>1
<1> QED BY <1>2, <1>3, <1>11, <1>12, <1>13, <1>14, <1>15, <1>16, MovedOK DEF r, q, new, fields

LEMMA RelateKeeps ==
  ASSUME IInv, ParserInv, NEW a \in Actors, Relate(a)
  PROVE  ThreadOK(a)'
<1> DEFINE r == p[a]
           q == p'[a]
           new == pc'[a]
           fields == world.fields
           value == AtomValue(a)
<1>1. Parse(a)
  BY DEF Parse
<1>2. /\ world' = world /\ overlapped' = overlapped /\ pc[a] \in Inside /\ new \in Inside \cup {"verdict"}
      /\ DOMAIN p = Actors /\ pc \in [Actors -> Places] /\ DOMAIN r = DOMAIN Fresh /\ world \in Worlds
  BY <1>1, ParseFrame
<1>3. ThreadOK(a)
  BY DEF ParserInv
<1>4. pc[a] = "relate" /\ isMinus' = isMinus /\ Relates(r, q, new, AndOf(r, value))
  BY <1>2, RelateIs
<1>5. /\ RecordOK(fields, r, "relate") /\ CompileOK(r, "relate")
      /\ a = monitor => JudgeOK(r, "relate") /\ r.andSkip /\ r.orSkip
      /\ a # monitor => AllFit(r.cond)
      /\ a # monitor /\ a \notin overlapped => EvalOK(fields, r, "relate") /\ isMinus = r.signed
  BY <1>2, <1>3, <1>4, InsideIs
<1>6. IsValue(value) /\ IsValue(AndOf(r, value))
  BY <1>5, AtomValueIs
<1>7. r.andSkip => value = AtomType(AtomOf(r))
  BY <1>5, AtomCompiled
<1>8. a # monitor /\ a \notin overlapped /\ NoSignLost(fields, r.cond) /\ ~r.andSkip =>
        VerdictOf(getObjectValue(value)) = Truth(AtomOf(r), fields)
  <2> SUFFICES ASSUME a # monitor, a \notin overlapped, NoSignLost(fields, r.cond), ~r.andSkip
               PROVE  VerdictOf(getObjectValue(value)) = Truth(AtomOf(r), fields)
    OBVIOUS
  <2>1. ValueOK(fields, r, "relate")
    BY <1>5 DEF EvalOK, Inside
  <2> QED BY <1>5, <2>1, AtomEvaluated
<1> HIDE DEF r, q, new, fields, value
<1>9. RecordOK(fields, q, new)
  BY <1>4, <1>5, <1>6, RelatesKeepsRecord
<1>10. /\ q.cond = r.cond /\ q.signed = r.signed /\ q.andSkip = r.andSkip /\ q.orSkip = r.orSkip
       /\ new \notin {"operand", "relate"}
  BY <1>4 DEF Relates, Fails, SameAtom
<1>11. CompileOK(q, new)
  BY <1>10 DEF CompileOK
<1>12. a = monitor => JudgeOK(q, new) /\ q.andSkip /\ q.orSkip
  BY <1>4, <1>5, <1>7, <1>10, RelatesJudge
<1>13. a # monitor /\ a \notin overlapped => EvalOK(fields, q, new) /\ isMinus' = q.signed
  BY <1>4, <1>5, <1>6, <1>7, <1>8, <1>10, RelatesEval
<1> QED BY <1>2, <1>3, <1>9, <1>10, <1>11, <1>12, <1>13, MovedOK DEF r, q, new, fields

\* The operand in front of the next atom is not begun.
LEMMA GoesCompile ==
  ASSUME NEW r, NEW q, NEW new, Goes(r, q, new) \/ new = "verdict"
  PROVE  CompileOK(q, new)
<1>1. CASE new = "verdict"
  BY <1>1 DEF CompileOK
<1>2. CASE Goes(r, q, new)
  <2>1. new = "operand" /\ q.side = 1 /\ TermsDone(q, new) = 0
    BY <1>2 DEF Goes, TermsDone
  <2> QED BY <2>1 DEF CompileOK
<1> QED BY <1>1, <1>2

LEMMA NextAtomKeeps ==
  ASSUME IInv, ParserInv, NEW a \in Actors, NextAtom(a)
  PROVE  ThreadOK(a)'
<1> DEFINE r == p[a]
           q == p'[a]
           new == pc'[a]
           fields == world.fields
<1>1. Parse(a)
  BY DEF Parse
<1>2. /\ world' = world /\ overlapped' = overlapped /\ pc[a] \in Inside /\ new \in Inside \cup {"verdict"}
      /\ DOMAIN p = Actors /\ pc \in [Actors -> Places] /\ DOMAIN r = DOMAIN Fresh
  BY <1>1, ParseFrame
<1>3. ThreadOK(a)
  BY DEF ParserInv
<1>4. /\ pc[a] = "joined" /\ isMinus' = isMinus /\ r.j < Len(r.cond[r.i])
      /\ GoesToAtom(r, q, new, TakenAnd(r))
  BY <1>2, NextAtomIs
<1>5. /\ RecordOK(fields, r, "joined")
      /\ a = monitor => JudgeOK(r, "joined") /\ r.andSkip /\ r.orSkip
      /\ a # monitor /\ a \notin overlapped => EvalOK(fields, r, "joined") /\ isMinus = r.signed
  BY <1>2, <1>3, <1>4, InsideIs
<1> HIDE DEF r, q, new, fields
<1>6. RecordOK(fields, q, new)
  BY <1>4, <1>5, NextAtomKeepsRecord
<1>7. q.cond = r.cond /\ q.signed = r.signed /\ q.orSkip = r.orSkip /\ (r.andSkip => q.andSkip)
  BY <1>4 DEF GoesToAtom, Goes, Fails, SameAtom
<1>8. CompileOK(q, new)
  BY <1>4, GoesCompile DEF GoesToAtom, Fails
<1>9. a = monitor => JudgeOK(q, new) /\ q.andSkip /\ q.orSkip
  BY <1>4, <1>5, <1>7, NextAtomJudge
<1>10. a # monitor /\ a \notin overlapped => EvalOK(fields, q, new) /\ isMinus' = q.signed
  BY <1>4, <1>5, <1>7, NextAtomEval
<1> QED BY <1>2, <1>3, <1>6, <1>7, <1>8, <1>9, <1>10, MovedOK DEF r, q, new, fields

LEMMA EndConjunctionKeeps ==
  ASSUME IInv, ParserInv, NEW a \in Actors, EndConjunction(a)
  PROVE  ThreadOK(a)'
<1> DEFINE r == p[a]
           q == p'[a]
           new == pc'[a]
           fields == world.fields
<1>1. Parse(a)
  BY DEF Parse
<1>2. /\ world' = world /\ overlapped' = overlapped /\ pc[a] \in Inside /\ new \in Inside \cup {"verdict"}
      /\ DOMAIN p = Actors /\ pc \in [Actors -> Places] /\ DOMAIN r = DOMAIN Fresh
  BY <1>1, ParseFrame
<1>3. ThreadOK(a)
  BY DEF ParserInv
<1>4. /\ pc[a] = "joined" /\ isMinus' = isMinus /\ r.j = Len(r.cond[r.i])
      /\ GoesToConjunction(r, q, new, JoinOf(r), TakenOr(r))
  BY <1>2, EndConjunctionIs
<1>5. /\ RecordOK(fields, r, "joined")
      /\ a = monitor => JudgeOK(r, "joined") /\ r.andSkip /\ r.orSkip
      /\ a # monitor /\ a \notin overlapped => EvalOK(fields, r, "joined") /\ isMinus = r.signed
  BY <1>2, <1>3, <1>4, InsideIs
<1> HIDE DEF r, q, new, fields
<1>6. RecordOK(fields, q, new)
  BY <1>4, <1>5, EndConjunctionKeepsRecord
<1>7. q.cond = r.cond /\ q.signed = r.signed /\ (r.andSkip /\ r.orSkip => q.andSkip /\ q.orSkip)
  BY <1>4 DEF GoesToConjunction, Goes, Fails, SameAtom
<1>8. CompileOK(q, new)
  BY <1>4, GoesCompile DEF GoesToConjunction, Fails
<1>9. a = monitor => JudgeOK(q, new) /\ q.andSkip /\ q.orSkip
  BY <1>4, <1>5, <1>7, EndConjunctionJudge
<1>10. a # monitor /\ a \notin overlapped => EvalOK(fields, q, new) /\ isMinus' = q.signed
  BY <1>4, <1>5, <1>7, EndConjunctionEval
<1> QED BY <1>2, <1>3, <1>6, <1>7, <1>8, <1>9, <1>10, MovedOK DEF r, q, new, fields

LEMMA ParseKeeps ==
  ASSUME IInv, ParserInv, NEW a \in Actors, Parse(a)
  PROVE  ParserInv'
<1>1. WorldOK' /\ \A b \in Actors \ {a} : ThreadOK(b)'
  BY ParseFrame
<1>2. ThreadOK(a)'
  BY UnaryMinusKeeps, ReadTermKeeps, RelateKeeps, NextAtomKeeps, EndConjunctionKeeps DEF Parse
<1> QED BY <1>1, <1>2 DEF ParserInv

-----------------------------------------------------------------------------
(* The steps into expr and out of it *)

LEMMA PutIs ==
  ASSUME WorldOK, NEW a \in Actors, NEW rec, Put(a, rec)
  PROVE  DOMAIN p' = Actors /\ p'[a] = rec /\ \A b \in Actors \ {a} : p'[b] = p[b]
BY DEF WorldOK, Put

LEMMA StepKeeps ==
  ASSUME IInv, ParserInv, NEW a \in Actors, NEW rec, NEW place,
         p'[a] = rec, \A b \in Actors \ {a} : p'[b] = p[b], pc' = [pc EXCEPT ![a] = place],
         WorldOK', world' = world, isMinus' = isMinus \/ Busy(a),
         \A b \in Actors \ {a} : b \in overlapped => b \in overlapped',
         RecordOK(world.fields, rec, place), CompileOK(rec, place),
         a = monitor => JudgeOK(rec, place) /\ (place \notin {"idle", "done"} => rec.andSkip /\ rec.orSkip),
         a # monitor /\ place # "idle" => AllFit(rec.cond),
         a # monitor /\ a \notin overlapped' =>
           /\ EvalOK(world.fields, rec, place)
           /\ place \notin {"idle", "done", "enter"} => isMinus' = rec.signed
  PROVE  ParserInv'
<1>1. pc \in [Actors -> Places]
  BY DEF IInv
<1>2. p'[a] = rec /\ pc'[a] = place /\ \A b \in Actors \ {a} : p'[b] = p[b] /\ pc'[b] = pc[b]
  BY <1>1
<1>3. \A b \in Actors \ {a} : ThreadOK(b)'
  BY <1>2, OthersKeep
<1>4. ThreadOK(a)'
  BY <1>2 DEF ThreadOK, Busy
<1> QED BY <1>3, <1>4 DEF ParserInv

LEMMA FreshIs ==
  ASSUME NEW fields
  PROVE  RecordOK(fields, Fresh, "idle") /\ CompileOK(Fresh, "idle") /\ JudgeOK(Fresh, "idle")
         /\ EvalOK(fields, Fresh, "idle")
<1>1. /\ Fresh.signed = FALSE /\ Fresh.andSkip = FALSE /\ Fresh.orSkip = FALSE /\ Fresh.reads = {}
      /\ Fresh.acc = Unknown /\ Fresh.left = Unknown /\ Fresh.and = Unknown /\ Fresh.or = Unknown
      /\ Fresh.cond = <<>>
  BY DEF Fresh
<1>2. IsCondition(<<>>, DOMAIN fields)
  BY DEF IsCondition, IsList
<1>3. RecordOK(fields, Fresh, "idle")
  BY <1>1, <1>2, ErrorIs DEF RecordOK, Inside
<1>4. CompileOK(Fresh, "idle") /\ JudgeOK(Fresh, "idle") /\ EvalOK(fields, Fresh, "idle")
  BY DEF CompileOK, JudgeOK, EvalOK, Inside
<1> QED BY <1>3, <1>4

Begun(cond, skip)    == [Fresh EXCEPT !.cond = cond, !.andSkip = skip, !.orSkip = skip]
Ended(cond, verdict) == [Fresh EXCEPT !.cond = cond, !.verdict = verdict]

LEMMA BegunIs ==
  ASSUME NEW fields, NEW cond, IsCondition(cond, DOMAIN fields), cond # <<>>, NEW skip, skip \in BOOLEAN
  PROVE  /\ RecordOK(fields, Begun(cond, skip), "enter") /\ CompileOK(Begun(cond, skip), "enter")
         /\ Begun(cond, skip).cond = cond /\ Begun(cond, skip).andSkip = skip /\ Begun(cond, skip).orSkip = skip
         /\ skip => JudgeOK(Begun(cond, skip), "enter")
         /\ ~skip => EvalOK(fields, Begun(cond, skip), "enter")
<1> DEFINE rec == Begun(cond, skip)
<1>1. /\ rec.signed = FALSE /\ rec.andSkip = skip /\ rec.orSkip = skip /\ rec.reads = {}
      /\ rec.acc = Unknown /\ rec.left = Unknown /\ rec.and = Unknown /\ rec.or = Unknown
      /\ rec.cond = cond /\ rec.i = 1 /\ rec.j = 1 /\ rec.side = 1 /\ rec.t = 1 /\ DOMAIN rec = DOMAIN Fresh
  BY DEF Fresh, Begun
<1> HIDE DEF rec
<1>2. 1 \in 1..Len(cond) /\ 1 \in 1..Len(cond[1])
  <2>1. Len(cond) \in Nat \ {0} /\ DOMAIN cond = 1..Len(cond)
    BY ListIs DEF IsCondition
  <2>2. 1 \in DOMAIN cond
    BY <2>1
  <2>3. Len(cond[1]) \in Nat \ {0}
    BY <2>2, ConditionIs
  <2> QED BY <2>1, <2>3
<1>3. /\ 1 \in DOMAIN cond /\ 1 \in DOMAIN cond[1]
      /\ 1 \in DOMAIN cond[1][1].operands /\ 1 \in DOMAIN cond[1][1].operands[1]
  BY <1>2, BeginIs
<1>4. AtomOf(rec) = cond[1][1] /\ OperandOf(rec) = cond[1][1].operands[1]
  BY <1>1 DEF AtomOf, OperandOf
<1>5. RecordOK(fields, rec, "enter")
  BY <1>1, <1>3, <1>4, ErrorIs DEF RecordOK, Inside
<1>6. CompileOK(rec, "enter") /\ (skip => JudgeOK(rec, "enter")) /\ (~skip => EvalOK(fields, rec, "enter"))
  BY <1>1 DEF CompileOK, JudgeOK, EvalOK, Inside
<1> QED BY <1>1, <1>5, <1>6 DEF rec

LEMMA EndedIs ==
  ASSUME NEW fields, NEW cond, IsCondition(cond, DOMAIN fields), NEW verdict
  PROVE  /\ RecordOK(fields, Ended(cond, verdict), "done") /\ CompileOK(Ended(cond, verdict), "done")
         /\ Ended(cond, verdict).cond = cond /\ Ended(cond, verdict).verdict = verdict
<1> DEFINE rec == Ended(cond, verdict)
<1>1. /\ rec.signed = FALSE /\ rec.andSkip = FALSE /\ rec.orSkip = FALSE /\ rec.reads = {}
      /\ rec.acc = Unknown /\ rec.left = Unknown /\ rec.and = Unknown /\ rec.or = Unknown
      /\ rec.cond = cond /\ DOMAIN rec = DOMAIN Fresh /\ rec.verdict = verdict
  BY DEF Fresh, Ended
<1> HIDE DEF rec
<1>2. RecordOK(fields, rec, "done")
  BY <1>1, ErrorIs DEF RecordOK, Inside
<1>3. CompileOK(rec, "done")
  BY DEF CompileOK
<1> QED BY <1>1, <1>2, <1>3 DEF rec

LEMMA EnterKeeps ==
  ASSUME IInv, ParserInv, NEW a \in Actors, Enter(a)
  PROVE  ParserInv'
<1> DEFINE r == p[a]
           fields == world.fields
<1>1. /\ pc[a] = "enter" /\ pc' = [pc EXCEPT ![a] = "operand"] /\ p' = p /\ isMinus' = FALSE
      /\ UNCHANGED <<world, owner, file, installed, calls, overlapped, crashed>>
      /\ jvmEnv' = IF a = monitor THEN Null ELSE a
  BY DEF Enter, At, Goto, method
<1>2. ThreadOK(a) /\ WorldOK
  BY DEF ParserInv
<1>3. p'[a] = r /\ \A b \in Actors \ {a} : p'[b] = p[b]
  BY <1>1
<1>4. WorldOK'
  BY <1>1, <1>2, ActorsAre DEF WorldOK
<1>5. Busy(a)
  BY <1>1 DEF Busy
<1>6. RecordOK(fields, r, "enter") /\ (a = monitor => JudgeOK(r, "enter") /\ r.andSkip /\ r.orSkip)
      /\ (a # monitor => AllFit(r.cond)) /\ (a # monitor /\ a \notin overlapped => EvalOK(fields, r, "enter"))
  BY <1>1, <1>2, <1>5 DEF ThreadOK
<1>7. UNCHANGED <<world, overlapped>>
  BY <1>1
<1> HIDE DEF r, fields
<1>8. r.i = 1 /\ r.j = 1 /\ r.side = 1 /\ r.t = 1 /\ ~r.signed /\ r.reads = {} /\ r.signed \in BOOLEAN
  BY <1>6 DEF RecordOK
<1>9. RecordOK(fields, r, "operand")
  BY <1>6, <1>8 DEF RecordOK, Inside
<1>10. AtomsDone(r, "operand") = 0 /\ TermsDone(r, "operand") = 0
  BY <1>8 DEF AtomsDone, TermsDone
<1>11. CompileOK(r, "operand")
  BY <1>8, <1>10 DEF CompileOK
<1>12. a = monitor => JudgeOK(r, "operand")
  BY <1>6, <1>8, <1>10 DEF JudgeOK, Inside
<1>13. a # monitor /\ a \notin overlapped => EvalOK(fields, r, "operand")
  <2> SUFFICES ASSUME a # monitor, a \notin overlapped, NoSignLost(fields, r.cond) PROVE EvalOK(fields, r, "operand")
    BY Zenon DEF EvalOK
  <2>1. ~r.andSkip /\ ~r.orSkip
    BY <1>6 DEF EvalOK
  <2>2. /\ ~(r.i > 1) /\ ~(r.j > 1) /\ ~(AtomsDone(r, "operand") > 0)
        /\ r.i - 1 = 0 /\ r.j - 1 = 0
    BY <1>8, <1>10
  <2>3. 1..r.i - 1 = {} /\ 1..r.j - 1 = {}
    BY <2>2
  <2>4. OrOK(fields, r) /\ AndOK(fields, r, "operand")
    BY <2>1, <2>2, <2>3, Zenon DEF OrOK, AndOK
  <2>5. ReadsOK(fields, r, "operand")
    <3>1. IsCondition(r.cond, DOMAIN fields)
      BY <1>9 DEF RecordOK
    <3>2. \A k \in DOMAIN r.cond : k \in Nat \ {0}
      BY <3>1, ConditionIs
    <3>3. \A k \in DOMAIN r.cond : \A l \in DOMAIN r.cond[k] : l \in Nat \ {0}
      BY <3>1, ConditionIs
    <3>4. \A k \in DOMAIN r.cond : \A l \in DOMAIN r.cond[k] : ~(k < r.i \/ (k = r.i /\ l <= AtomsDone(r, "operand")))
      BY <1>8, <1>10, <3>2, <3>3
    <3> QED BY <1>8, <3>4 DEF ReadsOK
  <2> QED BY <1>8, <2>4, <2>5, BeginsEval
<1>14. isMinus' = r.signed
  BY <1>1, <1>8
<1> QED
  BY <1>1, <1>3, <1>4, <1>5, <1>6, <1>7, <1>9, <1>11, <1>12, <1>13, <1>14, StepKeeps DEF fields

\* A file is read: its condition is compiled from the start.
LEMMA ReadFileKeeps ==
  ASSUME IInv, ParserInv, ReadFile
  PROVE  ParserInv'
<1> DEFINE cond == world.files[file']
           fields == world.fields
<1>1. /\ file < Len(world.files) /\ file' = file + 1
      /\ overlapped' = overlapped \cup {d \in Dumpers : Busy(d)}
      /\ UNCHANGED <<world, jvmEnv, isMinus, owner, installed, calls, crashed>>
      /\ IF cond = <<>> THEN End(monitor, cond, "accepted") ELSE Start(monitor, cond)
  BY DEF ReadFile, method
<1>2. WorldOK /\ monitor \in Actors
  BY ActorsAre DEF ParserInv
<1>3. IsCondition(cond, DOMAIN fields) /\ file' \in 0..Len(world.files)
  <2>1. IsList(world.files) /\ \A n \in DOMAIN world.files : IsCondition(world.files[n], DOMAIN world.fields)
    BY <1>2, WorldsAssumption DEF WorldOK
  <2>2. Len(world.files) \in Nat /\ DOMAIN world.files = 1..Len(world.files)
    BY <2>1 DEF IsList
  <2>3. file' \in 1..Len(world.files) /\ file' \in 0..Len(world.files)
    BY <1>1, <1>2, <2>2 DEF WorldOK
  <2> QED BY <2>1, <2>2, <2>3
<1>4. overlapped' \subseteq Dumpers
  BY <1>1, <1>2 DEF WorldOK
<1> HIDE DEF cond, fields
<1>5. CASE cond = <<>>
  <2> DEFINE rec == Ended(cond, "accepted")
  <2>1. Goto(monitor, "done") /\ Put(monitor, rec)
    BY <1>1, <1>5 DEF End, Ended
  <2> HIDE DEF rec
  <2>2. RecordOK(fields, rec, "done") /\ CompileOK(rec, "done") /\ rec.cond = cond /\ rec.verdict = "accepted"
    BY <1>3, EndedIs DEF rec
  <2>3. DOMAIN p' = Actors /\ p'[monitor] = rec /\ \A b \in Actors \ {monitor} : p'[b] = p[b]
    BY <1>2, <2>1, PutIs
  <2>4. WorldOK'
    BY <1>1, <1>2, <1>3, <1>4, <2>3 DEF WorldOK
  <2>5. AllFit(cond)
    BY <1>5 DEF AllFit
  <2>6. JudgeOK(rec, "done")
    BY <2>2, <2>5 DEF JudgeOK, Inside
  <2>7. pc' = [pc EXCEPT ![monitor] = "done"]
    BY <2>1 DEF Goto
  <2> QED BY <1>1, <1>2, <2>2, <2>3, <2>4, <2>6, <2>7, StepKeeps DEF fields
<1>6. CASE cond # <<>>
  <2> DEFINE rec == Begun(cond, TRUE)
  <2>1. Goto(monitor, "enter") /\ Put(monitor, rec)
    <3>1. (monitor = monitor) = TRUE
      OBVIOUS
    <3> QED BY <1>1, <1>6, <3>1 DEF Start, Begun
  <2> HIDE DEF rec
  <2>2. RecordOK(fields, rec, "enter") /\ CompileOK(rec, "enter") /\ JudgeOK(rec, "enter") /\ rec.andSkip /\ rec.orSkip
    <3>1. TRUE \in BOOLEAN
      OBVIOUS
    <3> QED BY <1>3, <1>6, <3>1, BegunIs DEF rec
  <2>3. DOMAIN p' = Actors /\ p'[monitor] = rec /\ \A b \in Actors \ {monitor} : p'[b] = p[b]
    BY <1>2, <2>1, PutIs
  <2>4. WorldOK'
    BY <1>1, <1>2, <1>3, <1>4, <2>3 DEF WorldOK
  <2>7. pc' = [pc EXCEPT ![monitor] = "enter"]
    BY <2>1 DEF Goto
  <2> QED BY <1>1, <1>2, <2>2, <2>3, <2>4, <2>7, StepKeeps DEF fields
<1> QED BY <1>5, <1>6

\* A method is called: it evaluates what was accepted, from the start.
LEMMA CallKeeps ==
  ASSUME IInv, ParserInv, NEW d \in Dumpers, dumpstackForMethod(d)
  PROVE  ParserInv'
<1> DEFINE fields == world.fields
<1>1. /\ installed # None /\ calls > 0 /\ calls' = calls - 1 /\ owner' = d
      /\ overlapped' = IF Busy(monitor) THEN overlapped \cup {d} ELSE overlapped \ {d}
      /\ UNCHANGED <<world, jvmEnv, isMinus, file, installed, crashed>>
  BY DEF dumpstackForMethod, Call, Check
<1>2. WorldOK /\ d \in Actors /\ d # monitor
  BY ActorsAre DEF ParserInv, Actors
<1>3. IsCondition(installed, DOMAIN fields) /\ AllFit(installed)
  BY <1>1, <1>2 DEF WorldOK
<1>4. /\ overlapped' \subseteq Dumpers /\ calls' \in Nat
      /\ \A b \in Actors \ {d} : b \in overlapped => b \in overlapped'
  BY <1>1, <1>2 DEF WorldOK
<1>5. \/ End(d, installed, "limit")
      \/ installed = <<>> /\ End(d, installed, "true")
      \/ installed # <<>> /\ Start(d, installed)
  BY Zenon DEF dumpstackForMethod, Check
<1> HIDE DEF fields
<1>6. ASSUME NEW verdict, End(d, installed, verdict), verdict = "limit" \/ installed = <<>>
      PROVE  ParserInv'
  <2> DEFINE rec == Ended(installed, verdict)
  <2>1. Goto(d, "done") /\ Put(d, rec)
    BY <1>6 DEF End, Ended
  <2> HIDE DEF rec
  <2>2. RecordOK(fields, rec, "done") /\ CompileOK(rec, "done") /\ rec.cond = installed /\ rec.verdict = verdict
    BY <1>3, EndedIs DEF rec
  <2>3. DOMAIN p' = Actors /\ p'[d] = rec /\ \A b \in Actors \ {d} : p'[b] = p[b]
    BY <1>2, <2>1, PutIs
  <2>4. WorldOK'
    BY <1>1, <1>2, <1>4, <2>3 DEF WorldOK
  <2>5. EvalOK(fields, rec, "done")
    BY <1>6, <2>2 DEF EvalOK, Inside
  <2>6. pc' = [pc EXCEPT ![d] = "done"]
    BY <2>1 DEF Goto
  <2> QED BY <1>1, <1>2, <1>3, <1>4, <2>2, <2>3, <2>4, <2>5, <2>6, StepKeeps DEF fields
<1>7. CASE installed # <<>> /\ Start(d, installed)
  <2> DEFINE skip == d = monitor
             rec == Begun(installed, skip)
  <2>1. Goto(d, "enter") /\ Put(d, rec)
    BY <1>7 DEF Start, Begun
  <2>8. skip \in BOOLEAN /\ ~skip
    BY <1>2
  <2> HIDE DEF skip
  <2>2. RecordOK(fields, rec, "enter") /\ CompileOK(rec, "enter") /\ EvalOK(fields, rec, "enter") /\ rec.cond = installed
    BY <1>3, <1>7, <2>8, BegunIs
  <2> HIDE DEF rec
  <2>3. DOMAIN p' = Actors /\ p'[d] = rec /\ \A b \in Actors \ {d} : p'[b] = p[b]
    BY <1>2, <2>1, PutIs
  <2>4. WorldOK'
    BY <1>1, <1>2, <1>4, <2>3 DEF WorldOK
  <2>6. pc' = [pc EXCEPT ![d] = "enter"]
    BY <2>1 DEF Goto
  <2> QED BY <1>1, <1>2, <1>3, <1>4, <2>2, <2>3, <2>4, <2>6, StepKeeps DEF fields
<1> QED BY <1>5, <1>6, <1>7

\* The verdict of an evaluation is that of the value of the condition.
LEMMA VerdictKeeps ==
  ASSUME IInv, ParserInv, NEW d \in Dumpers, Verdict(d)
  PROVE  ParserInv'
<1> DEFINE fields == world.fields
           r == p[d]
           verdict == VerdictOf(IF r.or.type = "OBJECT_BOOLEAN" THEN getObjectValue(r.or) ELSE r.or)
           q == [r EXCEPT !.verdict = verdict]
<1>1. /\ pc[d] = "verdict" /\ pc' = [pc EXCEPT ![d] = "done"] /\ Put(d, q)
      /\ UNCHANGED <<world, jvmEnv, isMinus, owner, file, installed, calls, overlapped, crashed>>
  BY Zenon DEF Verdict, At, Goto
<1>2. WorldOK /\ d \in Actors /\ d # monitor /\ ThreadOK(d)
  BY ActorsAre DEF ParserInv, Actors
<1>3. DOMAIN p' = Actors /\ p'[d] = q /\ \A b \in Actors \ {d} : p'[b] = p[b]
  BY <1>1, <1>2, PutIs
<1>4. WorldOK'
  BY <1>1, <1>2, <1>3 DEF WorldOK
<1>5. RecordOK(fields, r, "verdict") /\ AllFit(r.cond) /\ (d \notin overlapped => EvalOK(fields, r, "verdict"))
  BY <1>1, <1>2 DEF ThreadOK
<1>6. UNCHANGED <<world, overlapped, isMinus>>
  BY <1>1
<1> HIDE DEF fields, r, verdict
<1>7. /\ DOMAIN q = DOMAIN Fresh /\ q.cond = r.cond /\ q.verdict = verdict /\ q.reads = r.reads
      /\ q.signed = r.signed /\ q.andSkip = r.andSkip /\ q.orSkip = r.orSkip
      /\ q.acc = r.acc /\ q.left = r.left /\ q.and = r.and /\ q.or = r.or
  BY <1>5 DEF RecordOK, Fresh
<1> HIDE DEF q
<1>8. RecordOK(fields, q, "done") /\ CompileOK(q, "done")
  BY <1>5, <1>7 DEF RecordOK, CompileOK, Inside
<1>9. verdict = VerdictOf(getObjectValue(r.or))
  <2>1. IsValue(r.or) /\ IsValue(getObjectValue(r.or))
    BY <1>5, Unboxed DEF RecordOK
  <2>2. CASE r.or.type = "OBJECT_BOOLEAN"
    BY <2>2 DEF verdict
  <2>3. CASE r.or.type = "BOOL"
    BY <2>1, <2>3, VerdictIs DEF verdict
  <2>4. CASE r.or.type \notin {"BOOL", "OBJECT_BOOLEAN"}
    <3>1. getObjectValue(r.or).type # "BOOL"
      BY <2>1, <2>4, Unboxed
    <3>2. VerdictOf(r.or) = "error" /\ VerdictOf(getObjectValue(r.or)) = "error"
      BY <2>1, <2>4, <3>1, VerdictIs
    <3> QED BY <2>4, <3>2 DEF verdict
  <2> QED BY <2>2, <2>3, <2>4
<1>10. d \notin overlapped => EvalOK(fields, q, "done")
  <2> SUFFICES ASSUME d \notin overlapped, NoSignLost(fields, q.cond) PROVE EvalOK(fields, q, "done")
    BY Zenon DEF EvalOK
  <2>1. Final(fields, r, verdict)
    BY <1>5, <1>7, <1>9 DEF EvalOK, Inside
  <2>2. Final(fields, q, q.verdict)
    BY <1>7, <2>1 DEF Final
  <2> QED BY <2>2 DEF EvalOK, Inside
<1> QED
  BY <1>1, <1>2, <1>3, <1>4, <1>5, <1>6, <1>7, <1>8, <1>10, StepKeeps DEF fields

LEMMA CompileVerdictKeeps ==
  ASSUME IInv, ParserInv, CompileVerdict
  PROVE  ParserInv'
<1> DEFINE fields == world.fields
           r == p[monitor]
           verdict == IF Accepts(r.or) THEN "accepted" ELSE "rejected"
           q == [r EXCEPT !.verdict = verdict]
<1>1. /\ pc[monitor] = "verdict" /\ pc' = [pc EXCEPT ![monitor] = "done"] /\ Put(monitor, q)
      /\ UNCHANGED <<world, jvmEnv, isMinus, owner, file, installed, calls, overlapped, crashed>>
  BY DEF CompileVerdict, At, Goto, outside, method
<1>2. WorldOK /\ monitor \in Actors /\ ThreadOK(monitor)
  BY ActorsAre DEF ParserInv
<1>3. DOMAIN p' = Actors /\ p'[monitor] = q /\ \A b \in Actors \ {monitor} : p'[b] = p[b]
  BY <1>1, <1>2, PutIs
<1>4. WorldOK'
  BY <1>1, <1>2, <1>3 DEF WorldOK
<1>5. RecordOK(fields, r, "verdict") /\ JudgeOK(r, "verdict")
  BY <1>1, <1>2 DEF ThreadOK
<1>6. UNCHANGED <<world, overlapped, isMinus>>
  BY <1>1
<1> HIDE DEF fields, r, verdict
<1>7. /\ DOMAIN q = DOMAIN Fresh /\ q.cond = r.cond /\ q.verdict = verdict /\ q.reads = r.reads
      /\ q.signed = r.signed /\ q.andSkip = r.andSkip /\ q.orSkip = r.orSkip
      /\ q.acc = r.acc /\ q.left = r.left /\ q.and = r.and /\ q.or = r.or
  BY <1>5 DEF RecordOK, Fresh
<1> HIDE DEF q
<1>8. RecordOK(fields, q, "done") /\ CompileOK(q, "done")
  BY <1>5, <1>7 DEF RecordOK, CompileOK, Inside
<1>9. JudgeOK(q, "done")
  BY <1>5, <1>7 DEF JudgeOK, Inside, verdict
<1> QED
  BY <1>1, <1>2, <1>3, <1>4, <1>6, <1>8, <1>9, StepKeeps DEF fields

\* The thread is out of the parser again; what it installs was accepted.
LEMMA LeaveKeeps ==
  ASSUME IInv, ParserInv, NEW a \in Actors, Goto(a, "idle"), Put(a, Fresh), WorldOK',
         UNCHANGED <<world, isMinus, overlapped>>
  PROVE  ParserInv'
<1> DEFINE fields == world.fields
<1>1. WorldOK /\ DOMAIN p' = Actors /\ p'[a] = Fresh /\ \A b \in Actors \ {a} : p'[b] = p[b]
  BY PutIs DEF ParserInv
<1>2. pc' = [pc EXCEPT ![a] = "idle"]
  BY DEF Goto
<1>3. RecordOK(fields, Fresh, "idle") /\ CompileOK(Fresh, "idle") /\ JudgeOK(Fresh, "idle")
      /\ EvalOK(fields, Fresh, "idle")
  BY FreshIs
<1> QED BY <1>1, <1>2, <1>3, StepKeeps

LEMMA ReturnKeeps ==
  ASSUME IInv, ParserInv, NEW d \in Dumpers, Return(d)
  PROVE  ParserInv'
<1>1. /\ Goto(d, "idle") /\ Put(d, Fresh) /\ owner' = Null
      /\ UNCHANGED <<world, jvmEnv, isMinus, file, installed, calls, overlapped, crashed>>
  BY DEF Return, method
<1>2. d \in Actors /\ WorldOK
  BY DEF Actors, ParserInv
<1>3. WorldOK'
  BY <1>1, <1>2, PutIs DEF WorldOK
<1> QED BY <1>1, <1>2, <1>3, LeaveKeeps

LEMMA FileEndsKeeps ==
  ASSUME IInv, ParserInv, KeepSetting \/ Install
  PROVE  ParserInv'
<1>1. /\ pc[monitor] = "done" /\ Goto(monitor, "idle") /\ Put(monitor, Fresh)
      /\ UNCHANGED <<world, jvmEnv, isMinus, owner, file, calls, overlapped, crashed>>
  BY DEF KeepSetting, Install, At, outside, method
<1>2. WorldOK /\ monitor \in Actors /\ ThreadOK(monitor)
  BY ActorsAre DEF ParserInv
<1>3. installed' # None => IsCondition(installed', DOMAIN world.fields) /\ AllFit(installed')
  <2>1. CASE KeepSetting
    BY <1>2, <2>1 DEF KeepSetting, outside, method, WorldOK
  <2>2. CASE Install
    <3>1. installed' = p[monitor].cond /\ p[monitor].verdict = "accepted"
      BY <2>2 DEF Install
    <3>2. IsCondition(p[monitor].cond, DOMAIN world.fields)
      BY <1>2 DEF ThreadOK, RecordOK
    <3>3. p[monitor].verdict = IF AllFit(p[monitor].cond) THEN "accepted" ELSE "rejected"
      BY <1>1, <1>2 DEF ThreadOK, JudgeOK
    <3> QED BY <3>1, <3>2, <3>3
  <2> QED BY <2>1, <2>2
<1>4. WorldOK'
  BY <1>1, <1>2, <1>3, PutIs DEF WorldOK
<1> QED BY <1>1, <1>2, <1>4, LeaveKeeps

LEMMA UnmovedKeeps ==
  ASSUME ParserInv, UNCHANGED <<world, jvmEnv, isMinus, owner, file, installed, calls, overlapped, pc, p>>,
         crashed' \in BOOLEAN
  PROVE  ParserInv'
<1>1. WorldOK /\ WorldOK'
  BY DEF ParserInv, WorldOK
<1>2. ASSUME NEW a \in Actors PROVE ThreadOK(a)'
  <2>1. ThreadOK(a)
    BY DEF ParserInv
  <2>2. UNCHANGED <<world, isMinus, overlapped, pc, p>>
    OBVIOUS
  <2> QED BY <2>1, <2>2 DEF ThreadOK, Busy
<1> QED BY <1>1, <1>2 DEF ParserInv

LEMMA InitParserInv ==
  ASSUME Init
  PROVE  ParserInv
<1>1. /\ world \in Worlds /\ jvmEnv = Null /\ isMinus = FALSE /\ owner = Null /\ file = 0 /\ installed = None
      /\ calls = world.calls /\ overlapped = {} /\ crashed = FALSE
      /\ pc = [a \in Actors |-> "idle"] /\ p = [a \in Actors |-> Fresh]
  BY DEF Init
<1>2. world.calls \in Nat /\ 0 \in 0..Len(world.files)
  BY <1>1, WorldsAssumption DEF IsList
<1>3. WorldOK
  BY <1>1, <1>2 DEF WorldOK
<1>4. ASSUME NEW a \in Actors PROVE ThreadOK(a)
  <2>1. p[a] = Fresh /\ pc[a] = "idle"
    BY <1>1
  <2> QED BY <2>1, FreshIs DEF ThreadOK, Busy
<1> QED BY <1>3, <1>4 DEF ParserInv

\* The parser keeps its places, its types and the values of what it read.
THEOREM ParserInvHolds == Spec => []ParserInv
<1>1. IInv /\ ParserInv /\ [Next]_vars => ParserInv'
  <2> SUFFICES ASSUME IInv, ParserInv, [Next]_vars PROVE ParserInv'
    OBVIOUS
  <2>1. CASE ReadFile BY <2>1, ReadFileKeeps
  <2>2. CASE CompileVerdict BY <2>2, CompileVerdictKeeps
  <2>3. CASE KeepSetting \/ Install BY <2>3, FileEndsKeeps
  <2>4. ASSUME NEW d \in Dumpers, dumpstackForMethod(d) PROVE ParserInv' BY <2>4, CallKeeps
  <2>5. ASSUME NEW d \in Dumpers, Verdict(d) PROVE ParserInv' BY <2>5, VerdictKeeps
  <2>6. ASSUME NEW d \in Dumpers, Return(d) PROVE ParserInv' BY <2>6, ReturnKeeps
  <2>7. ASSUME NEW d \in Dumpers, Crash(d) PROVE ParserInv' BY <2>7, UnmovedKeeps DEF Crash, method
  <2>8. ASSUME NEW a \in Actors, Enter(a) PROVE ParserInv' BY <2>8, EnterKeeps
  <2>9. ASSUME NEW a \in Actors, Parse(a) PROVE ParserInv' BY <2>9, ParseKeeps
  <2>10. CASE UNCHANGED vars
    <3>1. crashed \in BOOLEAN
      BY DEF ParserInv, WorldOK
    <3> QED BY <2>10, <3>1, UnmovedKeeps DEF vars, outside, method
  <2> QED
    BY <2>1, <2>2, <2>3, <2>4, <2>5, <2>6, <2>7, <2>8, <2>9, <2>10 DEF Next
<1>2. Init => ParserInv
  BY InitParserInv
<1> QED BY <1>1, <1>2, IInvHolds, PTL DEF Spec

\* Types of the globals and of the places and values of every thread, whatever
\* the conditions are.
THEOREM TypesHold == Spec => []TypeOK
<1>1. IInv /\ ParserInv => TypeOK
  <2> SUFFICES ASSUME IInv, ParserInv PROVE TypeOK
    OBVIOUS
  <2>1. pc \in [Actors -> Places] /\ dumpCount \in Nat
    BY DEF IInv
  <2>2. ASSUME NEW a \in Actors
        PROVE  /\ IsValue(p[a].acc) /\ IsValue(p[a].left) /\ IsValue(p[a].and) /\ IsValue(p[a].or)
               /\ p[a].reads \subseteq DOMAIN world.fields
    BY DEF ParserInv, ThreadOK, RecordOK
  <2>3. Busy(monitor) => p[monitor].andSkip /\ p[monitor].orSkip
    BY ActorsAre DEF ParserInv, ThreadOK
  <2>4. WorldOK
    BY DEF ParserInv
  <2> QED BY <2>1, <2>2, <2>3, <2>4 DEF TypeOK, WorldOK, Places
<1> QED BY <1>1, IInvHolds, ParserInvHolds, PTL

\* expr(isCompile) rejects nothing that could be evaluated, but for literals of
\* type float.
THEOREM RejectedIsWrongHolds == Spec => []RejectedIsWrong
<1>1. ParserInv => RejectedIsWrong
  <2> SUFFICES ASSUME ParserInv, pc[monitor] = "done", p[monitor].verdict = "rejected",
                      \A t \in TermsOf(AtomsOf(p[monitor].cond)) : t.field # "" \/ t.lit.type # "FLOAT",
                      NEW fields \in [FieldsOf(AtomsOf(p[monitor].cond)) -> FieldValues]
               PROVE  \E atom \in AtomsOf(p[monitor].cond) : Truth(atom, fields) = "error"
    BY DEF RejectedIsWrong
  <2> DEFINE cond == p[monitor].cond
  <2>1. IsCondition(cond, DOMAIN world.fields) /\ ~AllFit(cond)
    BY ActorsAre DEF ParserInv, ThreadOK, RecordOK, JudgeOK
  <2>2. \A t \in TermsOf(AtomsOf(cond)) : t.field # "" \/ t.lit.type # "FLOAT"
    OBVIOUS
  <2> HIDE DEF cond
  <2>3. PICK i \in DOMAIN cond : \E j \in DOMAIN cond[i] : ~Fits(cond[i][j])
    BY <2>1 DEF AllFit, ConjunctionFits
  <2>4. PICK j \in DOMAIN cond[i] : ~Fits(cond[i][j])
    BY <2>3
  <2>5. IsAtom(cond[i][j], DOMAIN world.fields)
    BY <2>1, <2>3, <2>4, ConditionIs
  <2>6. \A s \in DOMAIN cond[i][j].operands : NoFloat(cond[i][j].operands[s])
    BY <2>2, <2>3, <2>4, TermIsThere DEF NoFloat
  <2>7. Truth(cond[i][j], fields) = "error"
    BY <2>4, <2>5, <2>6, RefusedAtom
  <2>8. cond[i][j] \in AtomsOf(cond)
    <3>1. 1 \in DOMAIN cond[i][j].operands /\ 1 \in DOMAIN cond[i][j].operands[1]
      BY <2>5, AtomIs
    <3> QED BY <2>3, <2>4, <3>1, TermIsThere
  <2> QED BY <2>7, <2>8 DEF cond
<1> QED BY <1>1, ParserInvHolds, PTL

\* The parser, which never builds a tree, gives the verdict of the condition as
\* it is written, and reads the fields that the short circuit needs.
THEOREM EvaluatedAsWrittenHolds == Spec => []EvaluatedAsWritten
<1>1. ParserInv => EvaluatedAsWritten
  <2> SUFFICES ASSUME ParserInv, NEW d \in Dumpers,
                      pc[d] = "done", p[d].verdict \in {"true", "false", "error"},
                      p[d].cond # <<>>, d \notin overlapped,
                      \A t \in TermsOf(AtomsOf(p[d].cond)) : ~LosesSign(t, world.fields)
               PROVE  Final(world.fields, p[d], p[d].verdict)
    BY Zenon DEF EvaluatedAsWritten, Final
  <2>1. d \in Actors /\ d # monitor
    BY ActorsAre DEF Actors
  <2>2. EvalOK(world.fields, p[d], "done")
    BY <2>1 DEF ParserInv, ThreadOK
  <2>3. NoSignLost(world.fields, p[d].cond)
    BY DEF NoSignLost
  <2> QED BY <2>2, <2>3 DEF EvalOK
<1> QED BY <1>1, ParserInvHolds, PTL
=============================================================================
