# Excat for Java agent: verification project

Excat for Java is a JVMTI agent (C++, `src/src`) that writes dumps of a running
JVM: when a monitored exception is raised, when a monitored method is entered
or left, when the JVM receives a data dump request, and on a
StackOverflowError. A dump is an XML file with the stack of one or all threads
and the objects that their variables refer to. The agent inserts calls into
monitored classes, keeps a small Java class `Callbacks` in the JVM, and watches
its configuration file, which it replaces while everything runs.

This directory holds TLA+ modules of the agent, the TLC instances that check
them and the theorems that TLAPS proves about them.

## 1. The system

### 1.1 Components

| Component | State | Operations | Module |
|---|---|---|---|
| Dump protocol: `AgentCallbackHandler`, `AgentRoutine`, `Monitor`, `Global` | `configMonitor`, `Callbacks.myLock`, `Callbacks.inMyself`, `Callbacks.exceptionList`, `Global::config`, `Config::outputSetting`, `Global::errorStatus`, suspended threads | `exceptionEvent`, `Java_Callbacks_dumpstack`, `Java_Callbacks_dumpstackForMethod`, `dumpstackStackOverFlowError`, `dataDumpRequest`, `dumpAllThreadsForSignal`, `sendMailMethod`, reload in `monitorThread` | `DumpProtocol`, `DumpSession` |
| Life of the agent | `isJVMToUnload`, `monitorThreadStatus`, `errorStatus`, `Global::config` | `Agent_OnLoad`, `vmInitCallBack`, `monitorThread`, `vmDeathCallBack`, `Agent_OnUnload` | `AgentLifecycle` |
| Automatic deletion | dump files, directories, one task file per day | `makeDumpDir`, `writeToFile`, `appendAutoDelFileName`, `doOldTaskOfDelDumpFile`, `delDumpFile`, `removeDirUntil` | `DumpFileDeletion` |
| Duplicate dumps | `Global::stackTraceCache` | `isDuplicate`, `SimpleStackTrace::operator==`, thread end | `DuplicateCache` |
| Object pool: `ObjectPool`, `Attribute`, `SuperClass`, `TypedElement`, `Instance` | entries, identity map, tags, `curAttrDepth`, filter flags, size of the dump | `getObjectId`, `addObject`, `expandObject`, `addArrayElements`, `filterUselessObject` | `ObjectPool` |
| Stack traces and frames: `StackTrace`, `Method`, `Frame` | the data of one dump | choice of variables; `shouldExclude`, `validateExceptionPlace`, `validateExcludePlace` | the parts that touch shared state, in the modules above |
| Instances: `registerInstance`, `removeInstance` | `instanceMap` of weak references | register, remove, show | planned |
| Redefinition of classes and table of methods: `redefineClasses*`, `MonitoringClass`, `MonitoringMethod`, `classFileLoadHook` | `loaders`, `classToRedefine`, `loadedClassInfo`, `methodDumpInfo` | load, redefine, merge of definitions at a reload | `ClassRedefinition` |
| Lists of exceptions: `ExceptionNameMan`, `ExceptionTableMan`, `ExcludeClass` | names, tables of catch clauses | add, remove, look up | planned |
| Configuration: `Config`, `OutputSetting` | one object per read of the file | parse; `setOutputSetting`, `setStackOverflowErrorOutputSetting` | look-ups in `DumpProtocol` |
| Insertion of bytecode: `ClassFile`, `OpCodeScan`, `AttributeInfo` | one class file | insert calls, relocate branches, switches, exception, line and variable tables | `CodeInsertion` |
| Condition expressions: `ccat.g`, `CcatParser`, `CcatTypeValue` | the static `jvmEnv` and `isMinus` of the parser, the dump count of a method | check a condition when the file is read, evaluate it when the method runs | `ConditionCheck` |
| XML output, helper functions, logger, system information | none beyond one dump | formatting, file input and output | not modelled |
| Java side: `Callbacks`, mail | lock, counter and list | `callback`, `callback_for_method` | external, modelled from its uses |
| ANTLR runtime, Xerces, SRegex, license library | | | vendored, not modelled |

### 1.2 Interaction

* Any application thread may raise an exception. The JVM calls
  `exceptionEvent` on that thread. Depending on the configuration it calls
  `Callbacks.callback`, which takes `myLock`, looks the class up in
  `exceptionList` and calls back into `Java_Callbacks_dumpstack`, or it dumps
  from the native side (all Throwables, StackOverflowError). Inserted code calls
  `Callbacks.callback_for_method` and so `Java_Callbacks_dumpstackForMethod`.
* Every dump takes `configMonitor`, selects `Config::outputSetting`, suspends all
  other threads for the time it reads the JVM, resumes them, writes the file and
  may send a mail. Mail is Java code that raises exceptions itself, which enter
  `exceptionEvent` again on the same thread. `inMyself` keeps those from dumping that come
  through `Callbacks`; in automatic mode, and for a StackOverflowError, nobody looks at it,
  and the thread dumps again under the re-entrant `configMonitor`.
* `monitorThread` wakes every few seconds. If the configuration file has changed
  it parses it, sends the new list to `Callbacks` and then, under
  `configMonitor`, replaces and deletes the old `Config` and redefines classes.
  It also deletes old dump files.
* The agent thread of the JVM calls `dataDumpRequest` for a signal.
* `Agent_OnUnload` waits for `monitorThread` by polling a status variable.

### 1.3 What is hard

* Two re-entrant locks of different worlds (a Java monitor and a JVMTI raw
  monitor), taken in one order by callbacks and touched in the other by a reload.
* Suspension: while one thread dumps all others stand still, with their locks.
* Pointers to `Config` that are read without a lock.
* Handlers that run inside handlers, on the same thread.
* C++ exceptions that leave a function by another path than its author expected.
* Files shared without a lock by dumps and sweeps, across restarts, under a clock.
* A depth first search over a cyclic object graph that takes results back.
* Bytecode whose every position moves, by amounts that depend on the moves.
* A parser that computes while it parses, with state shared by all threads.

## 2. Modules

### DumpProtocol, DumpSession

`DumpProtocol` has one program counter per thread: application threads `App`,
the `Signal` thread, and `Monitor`. A thread moves between places of the code at
which others can interfere: `mode` (a handler has loaded `Global::config`
without a lock), `callback` (waits for `myLock`), `scan`, `acquire` (waits for
`configMonitor`), `enter`, `init`, `dump` (all others suspended), `mail`, `exit`,
`uncount`, and the places of a reload. Actions bear the names of the functions.
A lock is an owner and a depth. `outer[t]` is the stack of the calls of `t` that nested
exceptions interrupted; `MaxNesting` bounds its length and so cuts off the rest of
an endless recursion, in which the mail of every automatic dump raises the exception of the next. `live` is the set of `Config` objects that are not deleted,
`contents` what each says, `setting` the field `outputSetting` with the thread
that chose it. `Faults` lets C++ code throw; `NestedRaises` names the Java code
that may raise monitored exceptions. A nested exception goes the way of any other, by the mode of
the `Config` it finds: `ReadMode` and `NestedExceptionEvent` have no guard of their own, because the
code has none that works (section 5, `exceptionInMail`).

`DumpSession` is the abstract specification: dumps and reloads are sessions of
which there is one at a time; within its session a thread chooses the setting,
stops the others and resumes them; the configuration changes only at the start
of a session. `Sessions` in `DumpProtocol` maps it: the holder is the owner of
`configMonitor`, the version is the installed `Config`.

Abstractions: a suspended thread takes no step, although native code would only
stop at its next return to Java; `dumpAllThreadsForCondition` takes
`configMonitor` a second time, which is not counted; there is one signal thread;
the sleep of `monitorThread` and its look at the file are one step that may happen at any time; an unreadable configuration file is a step that changes
nothing; application threads do not start or end; the Java code of a mail calls no method that is
itself monitored.

### AgentLifecycle

`vm` and `mon` are the places of the thread of the JVM and of `monitorThread`;
the flags are the globals by which they agree. Failures at every stage of the
load are included. A reload has three places at which it waits for others: for
the lock of `Callbacks`, for `configMonitor`, and for what it calls under it (`Waits`). A dump of
another thread suspends `monitorThread` (`stopped`) and need not resume it. `DumpProtocol` says
when these waits end; here each may end or not. `waited` records that `Agent_OnUnload` has waited for the
thread, so that `FreedAfterItsUse` can say what the wait is for.

### DumpFileDeletion

A dump is four steps (directory, file, task file opened, name appended); a sweep
is open, read line by line, close, unlink. A clock of ticks, `HalfDay` of them to
12 hours, drives all dates. `Stop` is the end of the process at any moment. Every call that can
fail may fail: the making of the directory of task files, the opening of a task file,
the unchecked `fwrite` of the name (`RegistrationFails`), the opening and locking in a sweep, and
the unchecked `remove` of a dump or task file. `forgotten` are the dumps whose registration
a kill cut off, `failed` those whose registration or removal failed. Assumed: one JVM, a dump registered within half a day of its writing, a clock
that is not set back, and `saveDays` not 0 (0 switches deletion off).

### DuplicateCache

One step per check, because `isDuplicate` runs under `configMonitor`. A reload
may change the three settings between any two checks. A dump counts as made when
the check has let it pass. `Erase` states the loops that remove entries by the
positions that stay. Assumed: the clock is not set back, and JVMTI gives
the frames of the current thread.

### ObjectPool

The search of one dump is sequential. Its recursion is a variable, `calls`: the calls of
`expandObject` that have not returned, each with the member that it has come to, what
it read when it began (`once`, `expandedOnce` of the object) and the sizes to which it will cut
the pool if the object is a value (`nPos`, `nObjNumberBak`). `Variable` and
`ObjRefIdFromObjectPool` start the search from an object (`root`); `MeetMember` comes to the
next field or element of the innermost call, which adds its object to the pool and may
call `expandObject` for it; `NoteMember` is the `TypedElement` that keeps the reference;
`Return` ends the call and, at the end of a value, takes back what was added
(`filterUselessObject`); `Finish` notes the number of the starting object. The exception of the
dump limit (`thrown`) ends the search between any two of these. `phase` says whether variables
are shown or already the exception and the monitor, which do not reset the depth. The
state that outlives a dump, the JVMTI tags and the static `curAttrDepth`, is carried into the next
one (`EndDump`). The fields of a class and of its superclasses are one list: each class of the chain
keeps its own `expandedOnce`, and all are set by the same expansion. An object is looked up
by its `Key`: its identity hash code (`graph.hash`), which objects may share, or (IBM) its
tag. One that shares its hash code with an entry is taken for that entry's object, and what is done with
its members, their references included, is done to the other's entry. `Distinct` says
that the keys differ; it is a premise of the two claims about references and depths, not
of the model. Left out are the error return of `GetObjectHashCode`, and the text of a value that is
taken for another object.
The reference definition, `Around` and `Depth`, is breadth first and does not
mention the pool: `Reach` is a least closed set. Assumed of the constants are that there are
finitely many objects (`ObjectsAssumption`) and that a heap gives each a kind, a hash code and a list of
objects or nulls (`HeapsAssumption`).

### ClassRedefinition

`classFileLoadHook` is four steps of the thread that loads a class: the name is
looked up (`LoadClass`), after a call of Java code for the url the definition
(`MatchClass`), the bytecode is inserted and the tables are changed (`RecordClass`),
and the JVM takes the class (`DefineClass`). A reload is the two loops of
`redefineClasses`, one key at a time; `RedefineClass` includes the hook that the JVM
calls for the new bytes, and waits while another thread loads the class, as
`ClassLoader.loadClass` does. `raced` remembers the classes that were recorded for a
`Config` which had been replaced meanwhile. Abstractions: bytecode is the type of
monitoring, the set of methods and where the calls of each are inserted (`at`); a url identifies a class (two loaders of one
url are told apart by the code neither); redefinition by the JVM succeeds; the
sorted vectors are functions, and "found" is membership, which their order makes
the early `break`s compute; registered instances and dump counts are left out.

### CodeInsertion

`insertByteCodeToClass` for one method. An instruction has an operation and the
numbers of the instructions it branches to; sizes and positions are in bytes, as in
the code. Both passes are modelled one instruction per step: `FindExit`,
`FindSwitch`, `FindOther*` fill the map `changes` (`byteCodeLineChangeMap`) and
count the local variable; `CopyJump`, `CopySwitch*`, `CopyExit`, `CopyOther` write
`out`, the list of what stands where, with branches corrected by
`modifyJumpTarget*`. `Misread` and
`CopyRaw` are the ways of the code through
constructors whose prefix is not a multiple of 4 and through methods without exits or
switches. The operators at the end
compute the tables that are corrected last, with the entry that is added for a new local
variable, and where a branch out of the prefix of a constructor leads, which is copied
uncorrected (`escapes`). The prefix ends at the first invokespecial, that of an inner `new`
included; that the first byte `0xb7` is one, and not an operand, is assumed. `MethodsAssumption` says which methods there
are: `Compiled` is what a compiler guarantees of code of any length (it starts with an
empty stack, and what is returned or converted was computed by the instruction ahead; behind
a prefix that ends inside an expression the stack is not empty, but nothing is returned there
and a conversion of a private method's result by way of `invokespecial` is left out), and
the lengths of a call are the two that `insertCallbacksFunc` writes. Left out: the reading of a class file,
the constant pool, what the inserted instructions say, and offsets beyond 16 bits.

### ConditionCheck

A thread that reads a file compiles a condition, threads that run the method
evaluate it under `configMonitor`; both are the same steps of the parser (`ReadTerm`,
`UnaryMinus`, `Relate`, `Join` and so on) with the flags `andSkip` and `orSkip` that the
rules hand down as `onlyCompile`. `jvmEnv` and `isMinus` are global as in the code.
A condition is a disjunction of conjunctions of atoms; an atom is a value or a
relation of two sums, perhaps negated. Values have the types of `CcatTypeValue`;
numbers are counted in halves so that integers and fractions can be compared.
`overlapped` names the evaluations during which a file was read, `crashed` says
that one of them used the `NULL` environment. `Meaning` is the reference: the short
circuit value of the whole condition by recursion over its parts, and the fields
that it needs. `WorldsAssumption` says what the grammar makes of a condition
(`IsCondition`: any number of atoms, operands and terms, whose fields there are) and that
fields have values of the types of the code. Left out: parentheses, products, arrays, paths of fields, dates and
characters, and the lexer.

## 3. Runs

| Run | Instance | Shows |
|---|---|---|
| `dump_safe` | 2 application threads, signal, 1 reload between 3 contents, exceptions inside the mail, inside the mail of a nested dump and under the reload, C++ exceptions anywhere (2.6 million states) | lock balance, exact `inMyself`, a dump runs alone, one through `Callbacks` is never nested in another, its setting is its own; `DumpProtocol` implements `DumpSession` |
| `dump_live` | 2 contents, one level of exceptions inside the mail, no C++ exceptions, fairness | the installed `Config` is live; every holder of `configMonitor` releases it, if it finds its setting; suspended threads run again |
| `unload` | the whole module | `FreedAfterItsUse`; `UnloadEnds`, if no reload is stuck in a wait and `monitorThread` does not stay suspended |
| `delete_files` | 2 dumps, 1 day of saving, half day of 2 ticks, 9 ticks, failures of every call (3.4 million states) | files kept long enough, and listed for deletion unless a kill or a failure of their own calls prevented it |
| `duplicates` | 2 threads, 2 stacks, limits 0 to 2, 5 seconds | suppression is exact; no entry outlives its thread |
| `object_pool` | all heaps of 3 objects with up to 2 references (nest depth 2, by hash, by tag, with a limit) and of 4 with one (nest depth 1), objects that share a hash code or do not, 2 starting objects, every step of the search (1.6 million states) | the count of the nest depth and the pool fit together; if keys differ, numbers name their objects at every point of the search, and every object is shown to its shortest depth |
| `redefine` | 3 classes of 2 names in 3 loaders, 3 keys of which 2 overlap, configurations that differ in definitions, methods or positions, 2 reloads at any time (1.5 million states) | between reloads the loaded classes carry the bytecode of the installed `Config`, but for positions that changed alone, and their methods find its output settings |
| `code_insertion` | all methods of up to 4 instructions that a compiler may produce, with up to 6 instructions and branches together; 3 places of monitoring, 2 lengths of a call, 3 sizes of local variable numbers, constructors of up to 3 instructions with 3 prefixes, one of which has two lines and a branch out of it (1.6 million states) | both passes agree; branches, switches, tables, local variables and length fit the code that is written |
| `conditions` | up to 3 atoms in every arrangement of `&&` and `\|\|`, relations between every two kinds of terms, 12 assignments of fields; 2 threads, limit 1, 2 files | the flags compute the short circuit meaning; types are rejected only if always wrong; an evaluation keeps its environment unless a file is read; the limit of dumps is kept |
| `find_*` | see 5 | one property each, violated |

Bounds. Two application threads are enough for one to hold each lock while the
signal thread or the reload is a third party; one reload already separates old and new `Config`, list and setting, and `MaxReloads` bounds nothing else. `MaxNesting` 2 lets a
callback be nested in an automatic dump inside a callback. The
contents cover both modes of `exceptionEvent`, a class that only one of them
names and both entries for StackOverflowError. Two dumps let one file share a directory or
a task file with another that is being written; the three days of the clock contain a
registration, its due day, a missed noon and a restart. In the cache two
threads and two stacks distinguish every case of `operator==`, and five seconds
exceed twice the greatest limit. Four objects are the fewest with which an entry
can lose its references to a value (section 5), and three with two references
each give cycles, shared objects and paths of different length. Two reloads let a
definition go and come back; two classes under one key show the order of urls,
and a class that lacks a method the skipped insertion. Four instructions hold a
switch, a branch over it, a value that is returned and an exit behind it, and the
sizes 5 and 6 of a call with every padding of a switch; a variable number below 4,
below 256 and above it takes 2, 4 or 8 bytes. Three atoms are needed for an operand that is
skipped between two that are not, and for `||` behind a skipped `&&`. Permuting
threads, files, stacks or objects is a symmetry of the safety instances; the
liveness runs use none.

`CHECK_DEADLOCK FALSE` appears in `dump_safe`, where a failed dump leaves the
others suspended and a reload and a callback can wait for each other, in `dump_live`, where
a thread that did not find its setting does not go on (a null pointer), in the
runs that look for such states, in the run of `AgentLifecycle`, which ends, in `redefine`, where all classes
may be loaded and the reloads used up, in `code_insertion`, which ends when the
method is rewritten, and in `conditions`, where the calls and files are used up.

Fairness. `DumpProtocol`: each thread that is not suspended and whose next step
is possible takes it eventually (weak fairness of its call and of the reload),
and the Java code of a mail raises finitely many exceptions (strong fairness of
`SendMail` at each level of nesting, for application threads and `monitorThread`). Nothing is
assumed about who gets a lock, so that a thread may
starve and the two properties only speak of the holder. `ConfigMonitorFreed` has the premise
`SettingFound`: what a dump does that was not given an output setting is undefined. `AgentLifecycle`:
`Agent_OnUnload` is scheduled, and so is `monitorThread` where it waits for nobody and is not
suspended. Nothing is assumed of the waits of a reload, because the code guarantees nothing:
`find_lock_order` and `find_left_stopped` show two that never end, and `Agent_OnUnload` then
polls for ever. `UnloadEnds` therefore says under which condition, `Unhindered`, it ends, and a
reload that fails, the error status and an unload during the start do not belong to it.

## 4. Proofs

`DumpProtocolProofs` proves, for any set of application threads, any targets,
contents and number of reloads, with and without faults and nested exceptions,
from the assumptions named in `DumpProtocol`:

* `TypesHold`, `LocksStayBalanced`, `InMyselfStaysExact`, `DumpersRunAlone`,
  `CallbackDumpsDoNotNest`, `SettingsAreOwn`: the invariants of `dump_safe`;
* `ConfigStaysLive`: without faults the installed `Config` is never a deleted one (a
  reload that fails deletes it). It needs `ConfigsLive`: from its reading on the new
  `Config` is live as well, and only a failing reload deletes the installed one;
* `DumpsImplementSessions`: the refinement of `DumpSession`.

None of these is inductive alone. `IInv` joins them with `CallShape`, which says
for each place by which path and inside which call a thread can be there, and
so which locks it has entered. With it the depth of each lock is a sum over the
calls of its owner, and `OwnerCounts` ties `inMyself` to them. There is one lemma
per action or group of actions that touch the same locks (`QuietStep` for those
that touch none), and `NextIInv` collects them. The refinement needs in addition
that the thread which leaves `configMonitor` is the holder and that it leaves
nobody suspended unless `Faults` (`StopsEndStep`, `ReleaseEnds`).

`AgentLifecycleProofs` proves `TypesHold` and `FreedAfterUse`. The strengthening
`IInv` relates the place of each side to the flags it has set, so that status 0
together with the wait implies that `monitorThread` is done.

`DuplicateCacheProofs` proves all four properties of the run for any threads,
stack traces and time limits: `TypesHold`, `EntriesStayOfLiveThreads`,
`DuplicatesStaySuppressed`, `SuppressionsEnd`. The invariant says that the cache is
sorted by time, has nothing from the future, lists only what was dumped, and lists
all of it that threads still running have dumped within the limit. Sortedness is what makes the
loop that stops at the first young entry remove all old ones (`EvictedIsRecent`).

`DumpFileDeletionProofs` proves `TypesHold`, `StaysListedForDeletion` and
`NeverDeletedEarly` for any number of dumps, days to save and lengths of the half
day, from the assumption that the clock covers at least one day. The crux is
arithmetic (`TaskDateAhead`): the task file of a dump is not due within half a day of
the dump, so that a name is never appended to a task file which a sweep may have
read (`DumpOK`), and a sweep that unlinks a task file has deleted all that it lists, except for those
whose removal failed (`SweepOK`). Kills and failures of any call are part of the specification
that it is proved of. The guard that a dump is registered within half a day is used there.

`ClassRedefinitionProofs` proves `TypesHold`, `ClassesStayInstrumented`,
`MethodsStayKnown` and `SettingsStayCurrent` for any classes, loaders, keys,
configurations and number of reloads. The invariant holds of each class at any time: it is
in the hook, or as the installed `Config` prescribes (`AsIn`), or chosen for
redefinition (`work`), or still as the old `Config` prescribed while the loops of the reload
have its keys before them (`Ahead`). "As prescribed" is `Carries`: with positions of an earlier
`Config`, if the definition has changed in nothing else since (`OnlyMoved`), which is what
`needRedefine` computes and no more. For the settings it is joined with the same
statement about the pointer of each listed url (`Known`, `Renewed`).

`CodeInsertionProofs` proves all eight properties of the run for methods of any length, with
branches to anywhere and calls of both lengths. The invariant (`IInv`) says of the first pass that
the map is right for the instructions looked at (`ChangesOK`: it notes the entry, the
monitored exits and the switches, each with the bytes that it grows by, `Growth`), and of the
second that the new code is right for those copied (`CopyOK`: instruction `i` stands at
`NewPlace(i)`, its branches at `Target`, and inserted code lies nowhere else). What joins them is
a sum: `Group(i)`, the position at which the second pass arrives at instruction `i`, is its
old position and all that the map adds ahead of it (`Shift`). The sum is not known before the
padding of the switches in it is, and each padding depends on the sum of those ahead;
`GroupIs` shows that the map's entry for a switch is the difference of two paddings modulo 4,
and so that the switch ends where the next instruction begins, and `GroupsGrow` that
no two instructions change their order, from which the branches and tables follow
(`CodePos`, `PosIs`). A value that is returned is computed by what both passes
remember in `pre` (`PreOK`, `KeepsIs`), which is why they agree about the local variable. The
empty method that is monitored at both places has two calls at one position of the map
(`Merged`) and is a case of its own throughout; so are a method that is copied as it is
(`CopyRaw`) and one without exits (`Endless`), of which the properties do not speak. Of constructors
`BranchesKept` is an equivalence: every branch reaches its instruction, except for those
out of the prefix ahead of whose target something was inserted (`Apart`, `EscapeLeads`), and
these miss it. `TablesFollow` says likewise which line entries inside the prefix go wrong.

`ConditionCheckProofs` proves all five properties of the run for any threads, conditions of any
size, fields and files. `EnvStaysOwn` and `DumpsStayWithinLimit` rest on `IInv`: whoever is past
its call owns `configMonitor` (`Holds`), it was allowed by the count, which nobody
else can have raised since (`Allowed`), and a file being read has marked those who
evaluate (`Noted`). `TypesHold`, `RejectedIsWrongHolds` and `EvaluatedAsWrittenHolds` rest on
`ParserInv`, which is inductive relative to `IInv`. For each thread it says four things: its
place is one of the condition and its values have types (`RecordOK`); a thread that
compiles has found out the types of all it has read, skipped parts too (`CompileOK`, `JudgeOK`);
one that evaluates has the sum of the terms it has read (`ValueOK`), the
conjunction and disjunction of the atoms behind it (`AndOK`, `OrOK`) and has read the
fields that their short circuit needs, and no other (`ReadsOK`); and the flags `andSkip` and
`orSkip` are set exactly if the result is already decided. The static sign is the thread's own as long as no file
is read meanwhile. The argument needs no tree: `GoesOn` lemmas state how the meaning
of a condition depends on the next term, atom or conjunction, and `RefusedAtom` that the two
hierarchies of type rules, of compiling and of evaluating, fit together for every pair of types.

`ObjectPoolProofs` proves all three properties of the run for every heap, cyclic or not,
every nest depth and limit, and dumps of any number of objects. What is said of a pool is said
of any pool and list of calls, so that the parts of a step (an entry is added, a reference
noted, a call begun or ended) are lemmas of their own. The invariants are these:

* `TypesHold` is proved of every heap, objects with equal hash codes included. It has an invariant of
  its own, `TypeInv`: numbers are those of entries, the calls are nested one level each,
  elements of arrays none, and `curAttrDepth` is that of the innermost (`Nested`, `Counted`). The
  other layers hold if `Distinct`, and are proved in the form `Spec => [](Distinct => IInv)`, which
  suffices as the heap and its hash codes do not change.
* `Fits`, if keys differ: the map numbers exactly the entries (`Indexed`); each call is for the
  member that the one around it has come to (`Stacked`); each is one level further down, elements of
  arrays none, and the innermost at `curAttrDepth` (`Depths`; the first starts at 0, or at a stale
  depth); the outermost value among the calls owns the filter (`FilterFits`); the references of an entry are
  those that its call has passed, all, or none (`RefsCounted`). After the
  exception of the limit only a part of it is left, and is enough, since nothing but `Finish` and
  `EndDump` follows.
* `Sound`, if values own their parts: an entry refers to entries of what its fields hold
  (`RefsRight`); an entry that will be kept refers to none that will be taken back
  (`RefsKept`), because what is met inside a value (`Inside`) is part of a value, and what
  is both a part and elsewhere is a string, which refers to nothing; no object is noted at a
  lesser depth than some path has (`Near`). `RefsNameTheirObjectsHolds` rests on this.
* `Thorough`, if the search began at depth 0: each entry that was expanded, and is kept, has its
  members in the pool at most one level deeper than itself, but for those that its call has
  still to come to (`Followed`), and the references of each were noted (`ShownOnce`).

When no call is left, what the pool holds up to depth `d` is closed under arrays
and leads to what it holds up to `d + 1`, so that it contains `Around` of what the search
started from (`AroundLeast`), while `Near` says that it contains no more; from this follows
`ShownToTheirDepthHolds`, although the search is depth first.

Induction. `CountUp` is induction up to a bound, stated about the set of the numbers that have
the property instead of an operator. `SubsetsGrow` in `CodeInsertionProofs` is the same for the
subsets of a finite set; with it `SumDef`, `SumWithout` and `SumWith` show that
`SumFunctionOnSet` computes a sum, which its definition by `CHOOSE` does not.

Every invariant that a run checks is proved. Only model-checked are `ConfigMonitorFreed`,
`WorldResumed` and `UnloadEnds`, which need fairness and `ENABLED`, out of reach of the provers
used here.

## 5. What the code does otherwise than it says

* `find_lock_order`: Java code that a reload runs under `configMonitor` raises an
  exception, whose callback waits for `myLock`, while its holder waits for
  `configMonitor`. The comments at `AgentCallbackHandler.cpp:520` and `883` show that
  this order was to be avoided.
* `find_freed_config`: `exceptionEvent` and `dataDumpRequest` use the `Config` that a
  reload deletes.
* `find_left_stopped`: a `std::exception` in a dump is not caught where the threads
  are resumed.

Seen while modelling, described by the models and not made runs of their own:

* Between the change of the Java list and the change of the `Config`, a dump asks for
  an output setting that does not exist (`AgentCallbackHandler.cpp:886`); `Select` with
  `NoTarget` stands for it.
* A monitored exception that the Java code of a mail raises is dumped, by the same thread inside its own
  dump, if everything is monitored (`AgentCallbackHandler.cpp:419`) or it is a
  StackOverflowError; with mail configured for automatic dumps this recurs. `StackTrace::exceptionInMail`
  (`StackTrace.cpp:774`) was to prevent it, but looks for a frame of
  `Callbacks$SendMailThread`, while `sendMailMethod` sends in the dumping thread itself.
* An automatic dump whose `Config` a reload has replaced by one without automatic mode finds no
  setting (`Select` with `NoTarget`) and dereferences `end()`; `SettingFound` excludes it
  from `ConfigMonitorFreed`.
* `Agent_OnUnload` polls without a limit (`AgentRoutine.cpp:528`): it never ends if the reload is in a
  deadlock or `monitorThread` was left suspended.
* `Agent_OnUnload` does not wait for a `monitorThread` that was started and has not
  announced itself (`AgentRoutine.cpp:526`); `waited` excludes it.
* A dump of a method or signal tests the error status before it waits for
  `configMonitor`; it may dump after the status was set (`AgentRoutine.cpp:995`, `1113`).
* A sweep removes a directory that has just become empty although a dump has
  made it anew and is about to write there; the dump is lost (`WriteDump`).
* A dump whose name could not be appended to its task file is never deleted: `appendAutoDelFileName`
  logs and returns (`StackTrace.cpp:1095`, `1111`), does not look at the result of `fwrite`
  (`1121`), and nobody tries again; a file whose `remove` fails is likewise dropped from the list (`failed`).
* Noon and midnight are recognised only if `monitorThread` wakes in that very
  second (`AgentCallbackHandler.cpp:823`); otherwise the sweep is left out.
* `ObjectPool`: two objects with one identity hash code are one to the agent without tags
  (`ObjectPool.cpp:675`): the second is not shown, and references to it name the
  first. Hash codes of 25 to 32 bits collide among some ten thousand objects (`Distinct`).
* `ObjectPool`: `ValuesOwnTheirParts` is needed. If an object was met at the nest
  depth, is met again at a lesser depth inside a value, and has references of its
  own, these are noted and then removed with the value; the entry keeps numbers
  that belong to no object or to another. An array of values met again at a
  lesser depth shows its items twice. On an IBM JVM tags of removed objects are
  never cleared and come to mean other objects; `Init` leaves that combination out.
  After a dump that hit the limit, a dump without variables shows its exception
  with the stale `curAttrDepth`.

* `ClassRedefinition` needs three conditions. A class whose hook has matched a
  definition before a reload and records it afterwards (`raced`) is instrumented by a
  deleted definition, and the reload does not find it. A class that lacked a
  method of its definition, or matched two, is not redefined when the obstacle goes
  unless its definition is new or has no other class (`WellDefined`).
  `MonitoringClassLoadInfo::addClassUrl` (`MonitoringMethod.cpp:638`) never appends a
  url greater than all others, so that a reload leaves the method of such a class
  with the output setting of the deleted `Config` (`SettingsAreCurrent` speaks of
  listed urls). Besides, `MonitoringMethod::needRedefine` (`MonitoringMethod.cpp:368`) does not compare
  the position of a method's dump, on which the inserted code depends
  (`ClassFile.cpp:1045`): after a reload that changes nothing else of its definition a class keeps the
  calls where they were, until something else of it changes (`OnlyMoved`).

* `CodeInsertion`. A method without an exit that is monitored at its finish is copied as
  it is, although its length and tables are changed (`Endless`). Of a method monitored at
  both places a loop to the first instruction reports the entry again;
  `EntryReportedOnce` speaks of the start alone. In constructors the padding of
  switches is computed without the prefix, and the positions of the map count from
  behind the prefix while the tables count from the start of the code: a switch is
  misaligned and tables are wrong (`SwitchesAligned` and `TablesFollow` exclude them),
  unlike the comments at `ClassFile.cpp:1683` and `1732`. The prefix of a constructor is copied
  byte by byte (`ClassFile.cpp:988`): a branch out of it, as in
  `super(s == null ? new Foo() : s)`, is not corrected and misses its instruction as soon
  as anything is inserted ahead of that; `BranchesKept` says so, as an equivalence. Of the lines that start
  inside the prefix only the first one is spared (`ClassFile.cpp:1180`); the others are moved
  although their instructions are not, as `TablesFollow` says. The entry for the new local
  variable is only written if the two bytes behind the `LocalVariableTable`, which are read as
  one entry more (`ClassFile.cpp:1224`), are not zero (`followed`): they are, if the table is the last
  attribute of its method and the next method has no access flags. A constructor whose objects are registered
  and which is no monitored method takes its place of monitoring from behind the end of
  `insertMethodPosition` (`ClassFile.cpp:902`). An exception range or handler that starts at
  an exit starts behind the inserted call. `StackMapTable` is left as it is, so that only class
  files without one (before version 50, or verified by the old verifier) can be
  rewritten. Branches that no longer fit into 16 bits are written
  truncated; the buffer is twice the size of the class file and 512 bytes; both are beyond the
  instance.
* `ConditionCheck`. A changed file is compiled without `configMonitor`, which sets the
  static `jvmEnv` to `NULL` and resets `isMinus` under an evaluating thread (`overlapped`,
  `crashed`), while `README.md:9` says that conditions can be changed in real time. Sums
  with a `float` literal are rejected because of a test `== CTYPE_FLOAT` where others test
  for a mismatch (`RejectedIsWrong` excludes them); the sign of a `double` literal is lost
  (`CcatParser.cpp:1379`) and the negation of a boxed number is 0
  (`CcatTypeValue.cpp:1075`), see `LosesSign`. To compare a null field with a literal is an error, not
  false. Read and not modelled: `Long` read with `GetIntField`
  (`CcatTypeValue.cpp:1772`), the range test that looks for `INF` in the output of `printf`.
* Instances: `removeInstance` stops at the first url that matches
  (`AgentCallbackHandler.cpp:2058`), and `registerInstance` changes `instanceMap` under
  another lock than `removeInstance` (`AgentRoutine.cpp:1470`).
* At the end of a task file without a line break the last line is treated twice
  (`AgentCallbackHandler.cpp:1158`), which is harmless.
* An entry of the cache of duplicates is made before the dump: if that fails, its
  repetitions are suppressed (`StackTrace.cpp:1194`).

## 6. Coverage and what is not modelled

`src/include` holds the headers of Xerces, ANTLR and a C++ library, which are most of
the lines of the repository; the agent's own code is some 22000 lines. The modules
translate some 6400 of these. Not modelled are, by choice:

* vendored libraries and the license library;
* the writing of XML and of values, character conversion, logging and
  system information: pure formatting without state beyond one dump;
* the parsing of the configuration file, of class files and of condition expressions
  as text: only what is done with their contents;
* the data races on `std::map` and on the tables freed by `vmDeathCallBack`, whose
  outcomes are undefined;
* the locks of class loaders, the end of application threads in `DumpProtocol`, a
  clock that is set back and two JVMs with one directory: next in the plan.

## 7. Plan

In this order; each with its instance and its proofs.

1. `InstanceRegistry`: weak references that are registered under `myLock` and
   removed under `configMonitor`. Composed with the locks of `DumpProtocol`.
2. `ExceptionFilters`: `shouldExclude`, `validateExceptionPlace` and the table of catch
   clauses, with the throwable path that remembers the last exceptions
   (`isSameExceptionObject`).
3. `ClassRedefinition` composed with `DumpProtocol`: the locks of class loaders; the dump counts
   of methods across reloads.
4. `DumpFileDeletion` with two JVMs; `DuplicateCache` with a clock that is set back.
