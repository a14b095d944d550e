--------------------------- MODULE CodeInsertion ---------------------------
(***************************************************************************)
(* The rewriting of one method of a monitored class.                       *)
(* ClassFile::insertByteCodeToClass puts a call of Callbacks at the entry  *)
(* of the method, before each of its exits, or both, and a call that       *)
(* registers the new object into a constructor, behind the first           *)
(* invokespecial.  Everything behind an insertion moves: one pass over the *)
(* code notes where how many bytes are added (byteCodeLineChangeMap), a    *)
(* second one copies the code and corrects the branches, and the exception *)
(* and variable tables are corrected last.  The padding of a switch        *)
(* depends on where it lands, so that a switch may grow or shrink.         *)
(*                                                                         *)
(* Positions are byte offsets into the code behind the invokespecial of a  *)
(* constructor (tempPos), or into the whole code of another method.        *)
(***************************************************************************)
EXTENDS Integers, Sequences, SequencesExt, Functions

CONSTANT Methods \* the methods to rewrite, see below

(* code:   instructions [op, to], to being the numbers of the instructions *)
(*         that they branch to, the default of a switch first;             *)
(* prefix: bytes up to the first invokespecial of a constructor, 0 for     *)
(*         another method; that may be of an object that is an argument of *)
(*         super;                                                          *)
(* escapes: numbers of the instructions that branches of the prefix lead   *)
(*         to, as in super(s == null ? new Foo() : s);                     *)
(* lines:  where lines start inside the prefix, but for the first one;     *)
(* instance: bytes of the call that registers the object, 0 if none;       *)
(* hooked: does the definition name the method (insertForMethod)?          *)
(* where:  nDumpPosition, 0 both, 1 start, 2 finish;                       *)
(* bytes:  of the call of Callbacks, 6 with ldc_w;                         *)
(* locals: max_locals;                                                     *)
(* wide:   does it return a long or a double?                              *)
(* followed: has it a LocalVariableTable with other bytes than two zeros   *)
(*         behind it?                                                      *)

Branches == {"jump", "jump_w"}                 \* isJumpOperand
Switches == {"lookupswitch", "tableswitch"}    \* isSwitchOperand
Exits    == {"return", "vreturn", "athrow"}    \* isReturnOperand
Results  == {"call"}  \* isInvokeCode, isGetFieldCode, isLdcCode, isMethodOpCode
Ops      == Branches \cup Switches \cup Exits \cup {"call", "convert", "plain"}

\* What a compiler produces: the code starts with an empty stack, nothing is
\* behind an exit that it starts with, and what is converted or returned was
\* computed by the instruction ahead of it.  A switch has a default.
Compiled(code) ==
  /\ code # <<>>
  /\ \A i \in DOMAIN code : /\ code[i] \in [op : Ops, to : Seq(DOMAIN code)]
                            /\ code[i].op \in Switches => code[i].to # <<>>
  /\ code[1].op \notin {"vreturn", "convert"}
  /\ code[1].op \in Exits => Len(code) = 1
  /\ \A i \in DOMAIN code \ {1} : code[i].op \in {"vreturn", "convert"} =>
       code[i - 1].op \in {"plain", "call", "convert"}

\* Only monitored methods and constructors are rewritten.
ASSUME MethodsAssumption ==
  \A m \in Methods :
    /\ m.prefix \in Nat /\ m.instance \in Nat /\ m.locals \in Nat
    /\ m.hooked \in BOOLEAN /\ m.where \in 0..2 /\ m.bytes \in {5, 6}
    /\ m.wide \in BOOLEAN /\ m.followed \in BOOLEAN
    /\ m.hooked \/ m.instance # 0
    /\ m.prefix = 0 => m.instance = 0 /\ m.escapes = {}
    /\ m.escapes \subseteq DOMAIN m.code /\ m.lines \subseteq 1..m.prefix - 1
    /\ m.code \in Seq([op : Ops, to : Seq(Nat)]) /\ Compiled(m.code)

VARIABLES
  method,  \* the method being rewritten
  phase,
  next,    \* number of the instruction that nPos is at
  newPos,  \* nNewPos
  pre,     \* operation of preOpcode
  changes, \* byteCodeLineChangeMap
  added,   \* bNeedAddLocal
  locals,  \* nMaxLocal
  out      \* what was written behind outputPos

vars == <<method, phase, next, newPos, pre, changes, added, locals, out>>

\* Zero bytes between the operation code of a switch and the default.
Padding(pos) == (4 - (pos % 4)) % 4

\* getOpCodeSkipLength, for an instruction of the original code at pos
Size(instr, pos) ==
  CASE instr.op = "call"         -> 3
    [] instr.op = "jump"         -> 3
    [] instr.op = "jump_w"       -> 5
    [] instr.op = "lookupswitch" -> 1 + Padding(pos + 1) + 8 * Len(instr.to)
    [] instr.op = "tableswitch"  -> 1 + Padding(pos + 1) + 8 + 4 * Len(instr.to)
    [] OTHER                     -> 1

\* Where the instructions of a method start; the last one is the end.
Starts(m) ==
  LET start[i \in 1..Len(m.code) + 1] ==
        IF i = 1 THEN 0 ELSE start[i-1] + Size(m.code[i-1], start[i-1])
  IN  start

nPos == Starts(method)[next]
End  == Starts(method)[Len(method.code) + 1]
Op   == method.code[next].op
More == next <= Len(method.code)

\* bBeforeEnd: a position that something was inserted before keeps it ahead.
getCodePosAfterInsertCallbacks(oldPos, bBeforeEnd) ==
  oldPos + SumFunctionOnSet(changes,
             {p \in DOMAIN changes : p < oldPos \/ (p = oldPos /\ ~bBeforeEnd)})

\* map::insert leaves an entry that is already there.
Insert(pos, bytes) == IF pos \in DOMAIN changes THEN changes
                      ELSE [p \in DOMAIN changes \cup {pos} |->
                              IF p = pos THEN bytes ELSE changes[p]]

InsertedForMethod(m) == IF m.hooked THEN m.bytes ELSE 0

\* size, what the method grows by before its exits and switches are looked at
GrowthAtEntry(m) == m.instance + InsertedForMethod(m)

\* Where outputPos stands.
Written == IF out = <<>> THEN 0 ELSE Last(out).at + Last(out).size

\* An item written at pos: of is the instruction it was, 0 for what is new.
Item(op, of, pos, size, to) == [op |-> op, of |-> of, at |-> pos, size |-> size, to |-> to]

Callback(pos) == Item("callback", 0, pos, method.bytes, <<>>)

Init ==
  /\ method \in Methods
  /\ phase = "enter"
  /\ next = 1
  /\ newPos = 0
  /\ pre = "none"
  /\ changes = <<>>
  /\ added = FALSE
  /\ locals = method.locals
  /\ out = <<>>

\* The call at the entry.
Enter ==
  /\ phase = "enter"
  /\ phase' = "find"
  /\ IF method.hooked /\ method.where # 2
       THEN /\ out' = <<Callback(0)>>
            /\ changes' = Insert(0, method.bytes)
            /\ newPos' = method.bytes
       ELSE UNCHANGED <<out, changes, newPos>>
  /\ UNCHANGED <<method, next, pre, added, locals>>
-----------------------------------------------------------------------------
(* The first pass: findReturnPos, or findSwitchPos if only the start of    *)
(* the method is monitored.                                                *)

AtExits == method.where # 1

\* A value that came from a call or the like is kept in a new local variable
\* while Callbacks runs; preOpcode is read as if it had been initialised.
KeepsResult(op) == op = "vreturn" /\ pre \in Results

\* insertLocalParamBeforeReturn
LocalBytes(n) == IF n < 4 THEN 2 ELSE IF n < 256 THEN 4 ELSE 8

FindExit ==
  /\ phase = "find" /\ More /\ AtExits /\ Op \in Exits
  /\ changes' = Insert(nPos, method.bytes +
                  IF KeepsResult(Op) THEN LocalBytes(locals) ELSE 0)
  /\ added' = (added \/ KeepsResult(Op))
  /\ next' = next + 1
  /\ UNCHANGED <<method, phase, newPos, pre, locals, out>>

\* Mutant: the padding that was there before is forgotten.
PaddingAdded(pos) == Padding(getCodePosAfterInsertCallbacks(pos, FALSE))

\* By how much the padding of a switch whose operands start at pos changes.
getSwitchCodeAddedSize(pos) ==
  Padding(getCodePosAfterInsertCallbacks(pos, FALSE)) - Padding(pos)

\* The padding is reckoned from tempPos, the JVM counts from the first byte.
Misaligned == method.prefix % 4 # 0

FindSwitch ==
  /\ phase = "find" /\ More /\ Op \in Switches /\ ~Misaligned
  /\ changes' = Insert(nPos + 1, getSwitchCodeAddedSize(nPos + 1))
  /\ next' = next + 1
  /\ UNCHANGED <<method, phase, newPos, pre, added, locals, out>>

\* Then other words are taken for the default and the number of cases, and
\* what follows is not known.
Misread ==
  /\ phase = "find" /\ More /\ Op \in Switches /\ Misaligned
  /\ phase' = "misread"
  /\ UNCHANGED <<method, next, newPos, pre, changes, added, locals, out>>

\* Mutant: a conversion hides the result that it converts.
FindOtherConvert ==
  /\ phase = "find" /\ More /\ Op \notin Switches /\ ~(AtExits /\ Op \in Exits)
  /\ pre' = IF AtExits THEN Op ELSE pre
  /\ next' = next + 1
  /\ UNCHANGED <<method, phase, newPos, changes, added, locals, out>>

\* Conversions between the result and the return are overlooked.
FindOther ==
  /\ phase = "find" /\ More /\ Op \notin Switches /\ ~(AtExits /\ Op \in Exits)
  /\ pre' = IF AtExits /\ Op # "convert" THEN Op ELSE pre
  /\ next' = next + 1
  /\ UNCHANGED <<method, phase, newPos, changes, added, locals, out>>

Has(ops) == \E i \in DOMAIN method.code : method.code[i].op \in ops

\* Did the pass find what calls for the second one?
Found == Has(IF AtExits THEN Exits ELSE Switches)

\* Mutant: the second pass starts ahead of the first instruction.
FoundAllEarly ==
  /\ phase = "find" /\ ~More
  /\ phase' = IF Found THEN "copy" ELSE "raw"
  /\ next' = 0
  /\ pre' = "none"
  /\ UNCHANGED <<method, newPos, changes, added, locals, out>>

FoundAll ==
  /\ phase = "find" /\ ~More
  /\ phase' = IF Found THEN "copy" ELSE "raw"
  /\ next' = 1
  /\ pre' = "none"
  /\ UNCHANGED <<method, newPos, changes, added, locals, out>>
-----------------------------------------------------------------------------
(* The second pass: insertCallbackFuncBeforeReturn, or                     *)
(* copyByteCodeWithSwitch if only the start of the method is monitored.    *)

\* Mutant: a branch to an exit leads behind its call, as without bBeforeEnd.
modifyJumpTargetBehind(instr) ==
  [k \in DOMAIN instr.to |->
     getCodePosAfterInsertCallbacks(Starts(method)[instr.to[k]], FALSE)
     - getCodePosAfterInsertCallbacks(nPos, FALSE)]

\* Mutant: every branch leads ahead of what was inserted, also at the entry.
modifyJumpTargetAhead(instr) ==
  [k \in DOMAIN instr.to |->
     getCodePosAfterInsertCallbacks(Starts(method)[instr.to[k]], TRUE)
     - getCodePosAfterInsertCallbacks(nPos, FALSE)]

\* New offsets of a branch; bBeforeEnd is set if the exits are monitored.
\* Offsets are taken to fit into their two bytes.
modifyJumpTarget(instr) ==
  [k \in DOMAIN instr.to |->
     getCodePosAfterInsertCallbacks(Starts(method)[instr.to[k]], AtExits)
     - getCodePosAfterInsertCallbacks(nPos, FALSE)]

Write(items, bytes) ==
  /\ out' = out \o items
  /\ newPos' = newPos + bytes
  /\ next' = next + 1

CopyJump ==
  /\ phase = "copy" /\ More /\ Op \in Branches
  /\ LET size == Size(method.code[next], nPos)
     IN  Write(<<Item(Op, next, Written, size, modifyJumpTarget(method.code[next]))>>, size)
  /\ UNCHANGED <<method, phase, pre, changes, added, locals>>

\* Mutant: the padding is copied with the rest of the switch.
CopySwitchOldPadding ==
  /\ phase = "copy" /\ More /\ Op \in Switches
  /\ LET size == Size(method.code[next], nPos)
     IN  Write(<<Item(Op, next, Written, size, modifyJumpTarget(method.code[next]))>>, size)
  /\ UNCHANGED <<method, phase, pre, changes, added, locals>>

\* modifySwitchTarget: the old padding is dropped, the new one is written.
CopySwitch ==
  /\ phase = "copy" /\ More /\ Op \in Switches
  /\ LET size == Size(method.code[next], nPos) - Padding(nPos + 1) + Padding(newPos + 1)
     IN  Write(<<Item(Op, next, Written, size, modifyJumpTarget(method.code[next]))>>, size)
  /\ UNCHANGED <<method, phase, pre, changes, added, locals>>

\* A long or a double takes two local variables.
Slots == IF method.wide THEN 2 ELSE 1

\* The local variable, the call, and the exit itself.  The size of the local
\* variable's number is that of the original max_locals (nLocalNum).
CopyExit ==
  /\ phase = "copy" /\ More /\ AtExits /\ Op \in Exits
  /\ LET keep == IF KeepsResult(Op) THEN LocalBytes(method.locals) ELSE 0
         save == IF KeepsResult(Op) THEN <<Item("keep", 0, Written, keep, <<>>)>> ELSE <<>>
     IN  Write(save \o <<Callback(Written + keep),
                         Item(Op, next, Written + keep + method.bytes, 1, <<>>)>>,
               keep + method.bytes + 1)
  /\ locals' = IF KeepsResult(Op) /\ locals = method.locals THEN locals + Slots ELSE locals
  /\ UNCHANGED <<method, phase, pre, changes, added>>

CopyOther ==
  /\ phase = "copy" /\ More
  /\ Op \notin Branches \cup Switches /\ ~(AtExits /\ Op \in Exits)
  /\ pre' = IF AtExits /\ Op # "convert" THEN Op ELSE pre
  /\ LET size == Size(method.code[next], nPos)
     IN  Write(<<Item(Op, next, Written, size, <<>>)>>, size)
  /\ UNCHANGED <<method, phase, changes, added, locals>>

CopiedAll ==
  /\ phase = "copy" /\ ~More
  /\ phase' = "done"
  /\ UNCHANGED <<method, next, newPos, pre, changes, added, locals, out>>

\* Nothing was found: the rest of the code is copied as it is.
CopyRaw ==
  /\ phase = "raw"
  /\ out' = out \o [i \in DOMAIN method.code |->
       Item(method.code[i].op, i, Written + Starts(method)[i],
            Starts(method)[i + 1] - Starts(method)[i],
            [k \in DOMAIN method.code[i].to |->
               Starts(method)[method.code[i].to[k]] - Starts(method)[i]])]
  /\ phase' = "done"
  /\ next' = Len(method.code) + 1
  /\ UNCHANGED <<method, newPos, pre, changes, added, locals>>

Next ==
  \/ Enter
  \/ FindExit \/ FindSwitch \/ Misread \/ FindOther \/ FoundAll
  \/ CopyJump \/ CopySwitch \/ CopyExit \/ CopyOther \/ CopiedAll
  \/ CopyRaw

Spec == Init /\ [][Next]_vars
-----------------------------------------------------------------------------
(* What is written about the code once it is done.                         *)

\* Mutant: the sum of the map, also if one entry stands for two calls.
AddedSizeSum == SumFunction(changes)

\* getAddedSizeAfterInsertCallbacks; an empty method that is monitored at both
\* ends has one entry for two calls.
AddedSize ==
  LET sum == SumFunction(changes)
  IN  IF End = 1 /\ method.where = 0 /\ DOMAIN changes = {0} THEN 2 * sum ELSE sum

\* The new code_length.
CodeLength == method.prefix + End + GrowthAtEntry(method)
              + (IF AddedSize = 0 THEN 0 ELSE AddedSize - method.bytes)

\* Mutant: the call at the entry is counted twice.
TablePosWithEntry(oldPos) ==
  GrowthAtEntry(method) +
    (IF changes = <<>> THEN oldPos ELSE getCodePosAfterInsertCallbacks(oldPos, FALSE))

\* The new place of a position of the exception, line or variable table; oldPos
\* counts from the first byte of the method.
getTablePosAfterInsertCallbacks(oldPos) ==
  GrowthAtEntry(method) +
    (IF changes = <<>> THEN oldPos
                       ELSE getCodePosAfterInsertCallbacks(oldPos, FALSE) - method.bytes)

Constructor == method.prefix > 0

\* An entry of the line table; the first one of a constructor, at 0, is spared.
LineStart(pos) ==
  IF Constructor /\ pos = 0 THEN pos ELSE getTablePosAfterInsertCallbacks(pos)

\* The variable that is live in [from, to): a parameter remains live from 0;
\* the first instruction of another one is found by the last byte of the store
\* ahead of it.
VariableStart(from) == IF from = 0 THEN 0 ELSE getTablePosAfterInsertCallbacks(from - 1) + 1
VariableEnd(to)     == getTablePosAfterInsertCallbacks(to)

\* The entry for the new local variable.  One entry too many is read ahead of
\* it: if it starts with two zeros it is taken for a parameter, and copied.
AddedVariable ==
  IF added /\ method.followed THEN <<[from |-> 0, length |-> CodeLength, slot |-> locals - Slots]>>
                              ELSE <<>>

\* The prefix is copied byte by byte, and a branch out of it to instruction t
\* keeps its offset: where that leads, counted as out is.
EscapeTarget(t) == Starts(method)[t] - method.instance
-----------------------------------------------------------------------------
(* Properties *)

TypeOK ==
  /\ phase \in {"enter", "find", "misread", "copy", "raw", "done"}
  /\ next \in 1..Len(method.code) + 1
  /\ newPos \in Nat
  /\ pre \in Ops \cup {"none"}
  /\ DOMAIN changes \subseteq 0..End
  /\ added \in BOOLEAN
  /\ locals \in Nat
  /\ \A k \in DOMAIN out : /\ out[k].of \in 0..Len(method.code)
                           /\ out[k].op \in Ops \cup {"callback", "keep"}

\* A method that never ends, monitored at its exits, is copied as it is
\* although its size and tables are changed; see the README.
Endless == AtExits /\ ~Has(Exits)

Rewritten == phase = "done" /\ ~Endless

\* The number of the item that instruction i became.
Place(i) == CHOOSE k \in DOMAIN out : out[k].of = i

\* The two passes agree: the second pass writes every instruction where the
\* first one said that it would stand, also behind a switch whose padding
\* changed and a return that got a local variable, and nNewPos tells where
\* outputPos stands (ClassFile::findReturnPos, insertCallbackFuncBeforeReturn).
PassesAgree ==
  phase = "copy" /\ next > 1 =>
    /\ newPos = Written
    /\ More => newPos = getCodePosAfterInsertCallbacks(nPos, TRUE)

\* Nothing is inserted between the prefix and instruction t.
NothingAhead(t) ==
  /\ method.instance = 0
  /\ ~(method.hooked /\ method.where # 2)
  /\ AtExits => \A i \in 1..t - 1 : method.code[i].op \notin Exits

\* Every branch of the rewritten method leads to the instruction it led to,
\* over nothing but inserted code: if that is a monitored exit, over its
\* call of Callbacks, and never into the middle of an instruction
\* (ClassFile::modifyJumpTarget, modifySwitchTarget).  A branch out of the
\* prefix of a constructor, which is not corrected, does so exactly if nothing
\* is inserted between the prefix and its instruction; to the first instruction
\* it leads to what was inserted ahead of that.
Reaches(pos, i) ==
  \E k \in 1..Place(i) :
    /\ out[k].at = pos
    /\ \A l \in k..Place(i) - 1 : out[l].of = 0
    /\ AtExits /\ out[Place(i)].op \in Exits =>
         k < Place(i) /\ out[Place(i) - 1].op = "callback"

BranchesKept ==
  Rewritten =>
    /\ \A k \in DOMAIN out : out[k].of # 0 => \A b \in DOMAIN out[k].to :
        Reaches(out[k].at + out[k].to[b], method.code[out[k].of].to[b])
    /\ \A t \in method.escapes \ {1} : Reaches(EscapeTarget(t), t) <=> NothingAhead(t)

\* A method that is monitored at its start reports its entry once: a loop to
\* its first instruction does not go through the call of Callbacks again.
EntryReportedOnce ==
  Rewritten /\ method.hooked /\ method.where = 1 =>
    \A k \in DOMAIN out : \A b \in DOMAIN out[k].to : out[k].at + out[k].to[b] # 0

\* The length written for the code of a method that is monitored is the length
\* of the code, also if the call at the entry and the one at the only exit
\* share an entry of the map (getAddedSizeAfterInsertCallbacks).
LengthMatches ==
  Rewritten /\ method.hooked =>
    CodeLength = method.prefix + method.instance + Written

\* The operands of a switch start at a multiple of four of the code, as the
\* JVM expects them (modifySwitchCommon), in a method that is no constructor.
OperandsAligned ==
  \A k \in DOMAIN out : out[k].op \in Switches =>
    LET code == method.code[out[k].of]
        operands == Size(code, 0) - 1 - Padding(1)
    IN  (method.prefix + method.instance + out[k].at + out[k].size - operands) % 4 = 0

SwitchesAligned == Rewritten /\ ~Constructor => OperandsAligned

\* The tables follow the code: a position that an exception range, a handler or
\* a line starts or ends at becomes the position of the same instruction, a
\* variable is live in the same instructions as before, and the new one, which
\* is the last, in the whole code (getTablePosAfterInsertCallbacks).  In a
\* constructor this holds if it is monitored at its start at most and has no
\* switch; and of the lines that start in its prefix, which does not move, the
\* first one stays where it is and no other does.
TablesFollow ==
  Rewritten /\ End > 1 /\ (Constructor => ~AtExits /\ ~Has(Switches)) =>
    LET base == method.prefix + method.instance
        Old(i) == method.prefix + Starts(method)[i]
        New(i) == IF i > Len(method.code) THEN base + Written ELSE base + out[Place(i)].at
        LiveFrom(i) == VariableStart(IF i = 1 THEN 0 ELSE Old(i))
    IN  /\ \A i \in DOMAIN Starts(method) : getTablePosAfterInsertCallbacks(Old(i)) = New(i)
        /\ \A i, l \in DOMAIN method.code, j \in DOMAIN Starts(method) :
             i < j => ((i <= l /\ l < j)
                        <=> (LiveFrom(i) <= New(l) /\ New(l) < VariableEnd(Old(j))))
        /\ added /\ method.followed =>
             AddedVariable = <<[from |-> 0, length |-> base + Written, slot |-> method.locals]>>
        /\ Constructor => \A pos \in method.lines \cup {0} : LineStart(pos) = pos <=> pos = 0

\* A new local variable is used only if the method was given one more, and the
\* pass that decides about it agrees with the one that counts it
\* (bNeedAddLocal and nMaxLocal).
LocalsAgree ==
  Rewritten =>
    /\ added = (locals > method.locals)
    /\ added = (\E k \in DOMAIN out : out[k].op = "keep")
=============================================================================
