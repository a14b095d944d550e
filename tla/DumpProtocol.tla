---------------------------- MODULE DumpProtocol ----------------------------
(***************************************************************************)
(* How the threads of a monitored JVM come to dump, one at a time:         *)
(*   - application threads, whose exceptions (exceptionEvent) and          *)
(*     instrumented methods (Callbacks.callback_for_method) ask for a dump; *)
(*   - the agent thread that dumps on a signal (dumpAllThreadsForSignal);  *)
(*   - monitorThread, which replaces the configuration while they run.     *)
(*                                                                         *)
(* They meet at two re-entrant locks, the Java monitor myLock of Callbacks *)
(* ("my") and the JVMTI raw monitor Global::configMonitor ("config"), at   *)
(* the suspension of every other thread during a dump, at the counter      *)
(* inMyself, at the one-way Global::errorStatus, and at Global::config,    *)
(* which several readers take without a lock.                              *)
(*                                                                         *)
(* A suspended thread takes no step.  Config objects are numbered; the     *)
(* object that is freed leaves the set "live".                             *)
(***************************************************************************)
EXTENDS Integers, Sequences, FiniteSets

CONSTANTS
  App,          \* application threads
  Signal,       \* the agent thread that serves a data dump request
  Monitor,      \* the thread that watches the configuration file
  NoThread,     \* nobody: the owner of a free lock
  Targets,      \* names of monitored Throwable classes
  Throwable,    \* "java.lang.Throwable": automatic monitoring of everything
  Overflow,     \* the targets under which a StackOverflowError is looked up, in order
  NoTarget,     \* no name: an absent argument, or a lookup that found nothing
  Contents,     \* what configuration files may say
  MaxReloads,   \* bound: how often the configuration file changes
  NestedRaises, \* places whose Java code raises a monitored exception itself
  MaxNesting,   \* bound: how many calls of a thread are interrupted by such exceptions
  Faults        \* can C++ code throw std::exception while it works?

Threads == App \cup {Signal, Monitor}

Content == [targets : SUBSET Targets, signal : BOOLEAN]

ASSUME ThreadsAssumption ==
  /\ Signal \notin App
  /\ Monitor \notin App
  /\ Signal # Monitor
  /\ NoThread \notin Threads

ASSUME ContentsAssumption ==
  /\ Throwable \in Targets
  /\ NoTarget \notin Targets
  /\ Contents \subseteq Content
  /\ Contents # {}

ASSUME OverflowAssumption == Overflow \in Seq(Targets)

ASSUME BoundsAssumption ==
  /\ MaxReloads \in Nat
  /\ MaxNesting \in Nat
  /\ NestedRaises \subseteq {"mail", "redefine"}
  /\ Faults \in BOOLEAN

VARIABLES
  pc,            \* where each thread is
  path,          \* which entry point it came through
  outer,         \* the calls that nested exceptions interrupted, the first one first
  ref,           \* the Config pointer an unlocked reader has loaded, or -1
  target,        \* the monitored class whose setting it asks for
  scope,         \* does it dump its own stack or that of all threads?
  suspended,     \* threads stopped by SuspendThreadList
  lock,          \* owner and depth of each lock
  inMyself,      \* Callbacks.inMyself
  exceptionList, \* Callbacks.exceptionList
  config,        \* Global::config: the number of the installed Config
  contents,      \* what each Config object says
  live,          \* the Config objects not freed yet
  setting,       \* Config::outputSetting, with the thread that selected it
  errorStatus    \* Global::errorStatus

thread == <<pc, path, outer, ref, target, scope>>
java   == <<inMyself, exceptionList>>
conf   == <<config, contents, live>>
vars   == <<thread, suspended, lock, java, conf, setting, errorStatus>>

Paths == {"none", "exception", "throwable", "overflow", "method", "signal"}

\* Entry points that go through the Java class Callbacks and its lock.
JavaPaths == {"exception", "method"}

\* Entry points that send a mail after a dump.
MailPaths == {"exception", "throwable", "method"}

\* What a nested exception interrupts: the mail of such a call, or a reload.
Interrupted == MailPaths \cup {"reload"}

\* Calls of a thread, each interrupted by the next one.
CallStacks == Seq(Interrupted)

\* Places that only monitorThread reaches.
ReloadPCs == {"setlist", "reload", "redefine", "unload", "fail", "stopped"}

PCs == {"run", "mode", "callback", "scan", "acquire", "enter", "init", "dump",
        "mail", "exit", "uncount", "ask"} \cup ReloadPCs

Locks == {"my", "config"}

NoSetting == [by |-> NoThread, key |-> NoTarget]
Keys == Targets \cup {NoTarget, "method", "signal"}

Init ==
  /\ pc = [t \in Threads |-> "run"]
  /\ path = [t \in Threads |-> "none"]
  /\ outer = [t \in Threads |-> <<>>]
  /\ ref = [t \in Threads |-> -1]
  /\ target = [t \in Threads |-> NoTarget]
  /\ scope = [t \in Threads |-> "one"]
  /\ suspended = {}
  /\ lock = [l \in Locks |-> [owner |-> NoThread, depth |-> 0]]
  /\ inMyself = 0
  /\ config = 0
  /\ contents \in [0..MaxReloads -> Contents]
  /\ exceptionList = contents[0].targets
  /\ live = {0}
  /\ setting = NoSetting
  /\ errorStatus = FALSE

-----------------------------------------------------------------------------
(* Threads and locks *)

At(t, place) == pc[t] = place /\ t \notin suspended

Go(t, place) == pc' = [pc EXCEPT ![t] = place]

\* Both locks are re-entrant: Java's monitors and JVMTI's raw monitors are.
Acquire(t, l) ==
  /\ lock[l].owner \in {NoThread, t}
  /\ lock' = [lock EXCEPT ![l] = [owner |-> t, depth |-> lock[l].depth + 1]]

\* Mutant: one exit frees the lock however often it was entered.
ReleaseAll(t, l) ==
  lock' = [lock EXCEPT ![l] = [owner |-> NoThread, depth |-> 0]]

Release(t, l) ==
  lock' = [lock EXCEPT ![l] = IF lock[l].depth = 1
                                THEN [owner |-> NoThread, depth |-> 0]
                                ELSE [owner |-> t, depth |-> lock[l].depth - 1]]

\* The call that the present one interrupted, and the calls that that one did.
Beneath(t) == outer[t][Len(outer[t])]

Popped(calls) == SubSeq(calls, 1, Len(calls) - 1)

\* Where a finished call returns to: the application, or the agent code that
\* was running when a nested exception was raised.
ReturnPlace(t) ==
  IF outer[t] = <<>> THEN "run" ELSE IF Beneath(t) = "reload" THEN "redefine" ELSE "mail"

Return(t) ==
  /\ Go(t, ReturnPlace(t))
  /\ path' = [path EXCEPT ![t] = IF ReturnPlace(t) = "mail" THEN Beneath(t) ELSE "none"]
  /\ outer' = [outer EXCEPT ![t] = Popped(outer[t])]
  /\ ref' = [ref EXCEPT ![t] = -1]
  /\ target' = [target EXCEPT ![t] = NoTarget]
  /\ scope' = [scope EXCEPT ![t] = "one"]

-----------------------------------------------------------------------------
(* exceptionEvent *)

\* An exception is raised in application code, and the handler loads the
\* pointer Global::config; no lock is held.
ExceptionEvent(t) ==
  /\ t \in App
  /\ At(t, "run")
  /\ Go(t, "mode")
  /\ ref' = [ref EXCEPT ![t] = config]
  /\ UNCHANGED <<path, outer, target, scope, suspended, lock, java, conf, setting, errorStatus>>

\* The same handler, for an exception raised and caught inside Java code that
\* the agent itself calls: while it sends a mail, on the thread that dumped, or
\* while it looks classes up to redefine them.
NestedExceptionEvent(t) ==
  /\ Len(outer[t]) < MaxNesting
  /\ \/ /\ "mail" \in NestedRaises
        /\ At(t, "mail")
        /\ outer' = [outer EXCEPT ![t] = Append(outer[t], path[t])]
     \/ /\ "redefine" \in NestedRaises
        /\ At(t, "redefine")
        /\ outer' = [outer EXCEPT ![t] = Append(outer[t], "reload")]
  /\ Go(t, "mode")
  /\ path' = [path EXCEPT ![t] = "none"]
  /\ ref' = [ref EXCEPT ![t] = config]
  /\ UNCHANGED <<target, scope, suspended, lock, java, conf, setting, errorStatus>>

\* Config::isMonitorAllExceptionMode through the loaded pointer.  Reading an
\* object that has been freed may return either answer.
MonitorAll(g) ==
  IF g \in live THEN {Throwable \in contents[g].targets} ELSE BOOLEAN

\* Automatic mode goes to dumpstackForAny if the exception is not excluded and
\* ExceptionNameMan::shouldDump finds a monitored catcher.  Otherwise a
\* StackOverflowError goes to its own entry point, which tests the error status
\* before it takes any lock, and every other exception to Callbacks.callback.
\* Nothing here asks whether the exception is nested.
ReadMode(t) ==
  /\ At(t, "mode")
  /\ \E all \in MonitorAll(ref[t]) :
       \/ /\ all
          /\ path' = [path EXCEPT ![t] = "throwable"]
          /\ target' = [target EXCEPT ![t] = Throwable]
          /\ ref' = [ref EXCEPT ![t] = -1]
          /\ Go(t, "acquire")
          /\ UNCHANGED <<outer, scope>>
       \/ /\ all \/ errorStatus
          /\ Return(t)
       \/ /\ ~all /\ ~errorStatus
          /\ path' = [path EXCEPT ![t] = "overflow"]
          /\ ref' = [ref EXCEPT ![t] = -1]
          /\ Go(t, "acquire")
          /\ UNCHANGED <<outer, target, scope>>
       \/ /\ ~all
          /\ path' = [path EXCEPT ![t] = "exception"]
          /\ ref' = [ref EXCEPT ![t] = -1]
          /\ Go(t, "callback")
          /\ UNCHANGED <<outer, target, scope>>
  /\ UNCHANGED <<suspended, lock, java, conf, setting, errorStatus>>

-----------------------------------------------------------------------------
(* The Java class Callbacks *)

\* Callbacks.callback enters synchronized(myLock).
EnterCallback(t) ==
  /\ At(t, "callback")
  /\ path[t] = "exception"
  /\ Acquire(t, "my")
  /\ Go(t, "scan")
  /\ UNCHANGED <<path, outer, ref, target, scope, suspended, java, conf, setting, errorStatus>>

\* Mutant: the first callback dumps whether another is being served or not.
MayDumpAlways == TRUE

\* Callbacks dumps only for the outermost exception, not for one raised while
\* it is already in a dump.
MayDump == inMyself = 0

\* Mutant: the count of a call is lost.
CountNothing == UNCHANGED inMyself

CountIn == inMyself' = inMyself + 1

\* Mutant: an exception leaves callback_for_method without inMyself--.
CountOutUnlessMethod(t) ==
  inMyself' = IF path[t] = "method" THEN inMyself ELSE inMyself - 1

CountOut(t) == inMyself' = inMyself - 1

\* The class of the exception and its superclasses are looked for in the list.
ScanExceptionList(t) ==
  /\ At(t, "scan")
  /\ \/ \E e \in exceptionList :
          /\ CountIn
          /\ IF MayDump
               THEN /\ target' = [target EXCEPT ![t] = e]
                    /\ Go(t, "acquire")
               ELSE /\ Go(t, "uncount")
                    /\ UNCHANGED target
          /\ UNCHANGED <<path, outer, ref, scope, lock>>
     \/ /\ Release(t, "my")
        /\ Return(t)
        /\ UNCHANGED inMyself
  /\ UNCHANGED <<suspended, exceptionList, conf, setting, errorStatus>>

\* An instrumented method of an application class calls callback_for_method.
MethodEvent(t) ==
  /\ t \in App
  /\ At(t, "run")
  /\ path' = [path EXCEPT ![t] = "method"]
  /\ Go(t, "callback")
  /\ UNCHANGED <<outer, ref, target, scope, suspended, lock, java, conf, setting, errorStatus>>

\* It counts itself under myLock and calls the native dumpstackForMethod, which
\* tests the error status before it asks for configMonitor.
EnterMethodCallback(t) ==
  /\ At(t, "callback")
  /\ path[t] = "method"
  /\ Acquire(t, "my")
  /\ CountIn
  /\ Go(t, IF errorStatus THEN "uncount" ELSE "acquire")
  /\ UNCHANGED <<path, outer, ref, target, scope, suspended, exceptionList, conf, setting,
                 errorStatus>>

\* The end of either callback: inMyself-- and the end of synchronized.
LeaveCallback(t) ==
  /\ At(t, "uncount")
  /\ CountOut(t)
  /\ Release(t, "my")
  /\ Return(t)
  /\ UNCHANGED <<suspended, exceptionList, conf, setting, errorStatus>>

-----------------------------------------------------------------------------
(* Dumping under configMonitor *)

\* Mutant: the AutoMonitor is deleted from an entry point.
AcquireNothing(t) ==
  /\ At(t, "acquire")
  /\ Go(t, "enter")
  /\ UNCHANGED <<path, outer, ref, target, scope, suspended, lock, java, conf, setting,
                 errorStatus>>

\* AutoMonitor Monitoring(Global::configMonitor)
AcquireConfigMonitor(t) ==
  /\ At(t, "acquire")
  /\ Acquire(t, "config")
  /\ Go(t, "enter")
  /\ UNCHANGED <<path, outer, ref, target, scope, suspended, java, conf, setting, errorStatus>>

\* Config::setOutputSetting(name) takes find(name)->second; a name that the
\* installed Config does not monitor has no entry.
Select(t, key) ==
  /\ setting' = [by |-> t, key |-> key]
  /\ Go(t, "init")

Found(name) == IF name \in contents[config].targets THEN name ELSE NoTarget

\* The first name of Overflow that is monitored, if any is.
OverflowFound ==
  {Overflow[i] : i \in {j \in DOMAIN Overflow :
     /\ Overflow[j] \in contents[config].targets
     /\ \A k \in 1..(j - 1) : Overflow[k] \notin contents[config].targets}}

\* dumpstack and dumpstackForAny test the error status under the lock; the
\* other entry points have tested it before they waited for the lock.
EnterDump(t) ==
  /\ At(t, "enter")
  /\ \/ /\ path[t] \in {"exception", "throwable"}
        /\ IF errorStatus THEN Go(t, "exit") /\ UNCHANGED setting
                          ELSE Select(t, Found(target[t]))
     \/ /\ path[t] = "overflow"
        /\ IF OverflowFound = {} THEN Go(t, "exit") /\ UNCHANGED setting
                                 ELSE \E e \in OverflowFound : Select(t, e)
     \/ /\ path[t] = "method"
        /\ \/ Go(t, "exit") /\ UNCHANGED setting  \* its class is not registered any more
           \/ Select(t, "method")
     \/ /\ path[t] = "signal"
        /\ Select(t, IF contents[config].signal THEN "signal" ELSE NoTarget)
  /\ UNCHANGED <<path, outer, ref, target, scope, suspended, lock, java, conf, errorStatus>>

\* The call is excluded, raised elsewhere, a duplicate, over its count, its
\* condition is false, its directory or the disk space is missing, or its thread
\* is a Callbacks$SendMailThread (exceptionInMail), which no mail runs on.
DoNotDump(t) ==
  /\ At(t, "init")
  /\ Go(t, "exit")
  /\ UNCHANGED <<path, outer, ref, target, scope, suspended, lock, java, conf, setting,
                 errorStatus>>

\* StackTrace::dumpStack stops every other thread to dump its own stack;
\* dumpAllThreadsForCondition tests the error status again and stops them to
\* dump all stacks, as dumpAllThreadsForSignal does without that test.
SuspendOthers(t) ==
  /\ At(t, "init")
  /\ \E s \in {"one", "all"} :
       /\ path[t] = "signal" => s = "all"
       /\ (s = "all" /\ path[t] # "signal") => ~errorStatus
       /\ scope' = [scope EXCEPT ![t] = s]
  /\ suspended' = suspended \cup (Threads \ {t})
  /\ Go(t, "dump")
  /\ UNCHANGED <<path, outer, ref, target, lock, java, conf, setting, errorStatus>>

\* A mail goes out if a file was written, except for an overflow or a signal.
AfterDump(t) ==
  {"exit"} \cup (IF path[t] \in MailPaths THEN {"mail"} ELSE {})

\* Mutant: the early return of a dump that is cut short skips the resumption.
FinishDumpCutShort(t) ==
  /\ At(t, "dump")
  /\ suspended' \in {suspended, {}}
  /\ \E place \in AfterDump(t) : Go(t, place)
  /\ UNCHANGED <<path, outer, ref, target, scope, lock, java, conf, setting, errorStatus>>

\* The dump ends, complete or cut short by ExceedMemLimitException*, and
\* ResumeThreadList restarts the threads of the list.
FinishDump(t) ==
  /\ At(t, "dump")
  /\ suspended' = {}
  /\ \E place \in AfterDump(t) : Go(t, place)
  /\ UNCHANGED <<path, outer, ref, target, scope, lock, java, conf, setting, errorStatus>>

\* A C++ exception thrown by value.  In a dump of all threads it is caught
\* around each thread's dump.  In a dump of one thread it passes dumpStack's two
\* handlers, which catch pointers, and the code that resumes the threads, unless
\* it comes before the suspension or from writing the file after the resumption.
DumpFails(t) ==
  /\ Faults
  /\ errorStatus' = TRUE
  /\ \/ /\ At(t, "init")
        /\ Go(t, "exit")
        /\ UNCHANGED suspended
     \/ /\ At(t, "dump")
        /\ scope[t] = "one"
        /\ Go(t, "exit")
        /\ suspended' \in {suspended, {}}
     \/ /\ At(t, "dump")
        /\ scope[t] = "all"
        /\ suspended' = {}
        /\ \E place \in AfterDump(t) : Go(t, place)
  /\ UNCHANGED <<path, outer, ref, target, scope, lock, java, conf, setting>>

\* sendMailForException and sendMailMethod, still under configMonitor.
SendMail(t) ==
  /\ At(t, "mail")
  /\ Go(t, "exit")
  /\ UNCHANGED <<path, outer, ref, target, scope, suspended, lock, java, conf, setting,
                 errorStatus>>

\* The destructor of AutoMonitor.
ReleaseConfigMonitor(t) ==
  /\ At(t, "exit")
  /\ Release(t, "config")
  /\ IF path[t] \in JavaPaths
       THEN Go(t, "uncount") /\ UNCHANGED <<path, outer, ref, target, scope>>
       ELSE Return(t)
  /\ UNCHANGED <<suspended, java, conf, setting, errorStatus>>

\* dataDumpRequest loads the pointer Global::config without a lock,
DataDumpRequest ==
  /\ At(Signal, "run")
  /\ Go(Signal, "ask")
  /\ ref' = [ref EXCEPT ![Signal] = config]
  /\ UNCHANGED <<path, outer, target, scope, suspended, lock, java, conf, setting, errorStatus>>

ToMonitorSignal(g) == IF g \in live THEN {contents[g].signal} ELSE BOOLEAN

\* asks it whether signals are monitored and starts an agent thread, which
\* tests the error status before it takes the lock.
ReadSignal ==
  /\ At(Signal, "ask")
  /\ \E signal \in ToMonitorSignal(ref[Signal]) :
       IF signal /\ ~errorStatus
         THEN /\ path' = [path EXCEPT ![Signal] = "signal"]
              /\ ref' = [ref EXCEPT ![Signal] = -1]
              /\ Go(Signal, "acquire")
              /\ UNCHANGED <<outer, target, scope>>
         ELSE Return(Signal)
  /\ UNCHANGED <<suspended, lock, java, conf, setting, errorStatus>>

-----------------------------------------------------------------------------
(* monitorThread: a changed configuration file *)

\* Mutant: configMonitor is taken before the list is sent to Callbacks.
ReadConfigFileLocked ==
  /\ At(Monitor, "run")
  /\ ~errorStatus
  /\ config < MaxReloads
  /\ Acquire(Monitor, "config")
  /\ live' = live \cup {config + 1}
  /\ Go(Monitor, "setlist")
  /\ UNCHANGED <<path, outer, ref, target, scope, suspended, java, config, contents, setting,
                 errorStatus>>

\* The file has changed and is correct: a new Config is built beside the old.
ReadConfigFile ==
  /\ At(Monitor, "run")
  /\ ~errorStatus
  /\ config < MaxReloads
  /\ live' = live \cup {config + 1}
  /\ Go(Monitor, "setlist")
  /\ UNCHANGED <<path, outer, ref, target, scope, suspended, lock, java, config, contents, setting,
                 errorStatus>>

\* Any exception but ReadCfgFileException while it is built.
ReadConfigFileFails ==
  /\ Faults
  /\ At(Monitor, "run")
  /\ ~errorStatus
  /\ config < MaxReloads
  /\ errorStatus' = TRUE
  /\ UNCHANGED <<thread, suspended, lock, java, conf, setting>>

\* setMonitorClass: Callbacks.setMonitorExceptions under myLock.
SetMonitorClass ==
  /\ At(Monitor, "setlist")
  /\ lock["my"].owner = NoThread
  /\ exceptionList' = contents[config + 1].targets
  /\ Go(Monitor, "reload")
  /\ UNCHANGED <<path, outer, ref, target, scope, suspended, lock, inMyself, conf, setting,
                 errorStatus>>

\* Mutant: the pointer is replaced without the lock, which is taken afterwards.
InstallConfigUnlocked ==
  /\ At(Monitor, "reload")
  /\ config' = config + 1
  /\ setting' = NoSetting
  /\ Go(Monitor, "redefine")
  /\ UNCHANGED <<path, outer, ref, target, scope, suspended, lock, java, contents, live,
                 errorStatus>>

\* Global::setConfig under configMonitor; no setting of it is selected yet.
InstallConfig ==
  /\ At(Monitor, "reload")
  /\ Acquire(Monitor, "config")
  /\ config' = config + 1
  /\ setting' = NoSetting
  /\ Go(Monitor, "redefine")
  /\ UNCHANGED <<path, outer, ref, target, scope, suspended, java, contents, live, errorStatus>>

\* Mutant: the pointer to the old Config is read after it has been replaced.
OldConfigReadLate == config

OldConfig == config - 1

\* The classes are redefined and the old Config is deleted.
FinishReload ==
  /\ At(Monitor, "redefine")
  /\ live' = live \ {OldConfig}
  /\ Release(Monitor, "config")
  /\ Go(Monitor, "run")
  /\ UNCHANGED <<path, outer, ref, target, scope, suspended, java, config, contents, setting,
                 errorStatus>>

\* An exception while classes are redefined or old dump files are deleted: the
\* old Config may be deleted already, the lock is released on the way out,
ReloadFails ==
  /\ Faults
  /\ At(Monitor, "redefine")
  /\ live' \in {live, live \ {OldConfig}}
  /\ Release(Monitor, "config")
  /\ Go(Monitor, "unload")
  /\ UNCHANGED <<path, outer, ref, target, scope, suspended, java, config, contents, setting,
                 errorStatus>>

\* and the handler deletes the new Config, which is installed,
\* before it sets the error status.
DeleteNewConfig ==
  /\ At(Monitor, "unload")
  /\ live' = live \ {config}
  /\ Go(Monitor, "fail")
  /\ UNCHANGED <<path, outer, ref, target, scope, suspended, lock, java, config, contents, setting,
                 errorStatus>>

SetErrorStatus ==
  /\ At(Monitor, "fail")
  /\ errorStatus' = TRUE
  /\ Go(Monitor, "run")
  /\ UNCHANGED <<path, outer, ref, target, scope, suspended, lock, java, conf, setting>>

\* In error status the thread ends.
MonitorStops ==
  /\ At(Monitor, "run")
  /\ errorStatus
  /\ Go(Monitor, "stopped")
  /\ UNCHANGED <<path, outer, ref, target, scope, suspended, lock, java, conf, setting,
                 errorStatus>>

-----------------------------------------------------------------------------

CallStep(t) ==
  \/ ReadMode(t)
  \/ EnterCallback(t)
  \/ ScanExceptionList(t)
  \/ EnterMethodCallback(t)
  \/ LeaveCallback(t)
  \/ AcquireConfigMonitor(t)
  \/ EnterDump(t)
  \/ DoNotDump(t)
  \/ SuspendOthers(t)
  \/ FinishDump(t)
  \/ DumpFails(t)
  \/ SendMail(t)
  \/ ReleaseConfigMonitor(t)

ReloadStep ==
  \/ SetMonitorClass
  \/ InstallConfig
  \/ FinishReload
  \/ ReloadFails
  \/ DeleteNewConfig
  \/ SetErrorStatus

Next ==
  \/ \E t \in Threads :
       CallStep(t) \/ ExceptionEvent(t) \/ NestedExceptionEvent(t) \/ MethodEvent(t)
  \/ DataDumpRequest
  \/ ReadSignal
  \/ ReadConfigFile
  \/ ReadConfigFileFails
  \/ MonitorStops
  \/ ReloadStep

Spec == Init /\ [][Next]_vars

-----------------------------------------------------------------------------
(* Properties *)

ThreadTypes ==
  /\ pc \in [Threads -> PCs]
  /\ path \in [Threads -> Paths]
  /\ outer \in [Threads -> CallStacks]
  /\ ref \in [Threads -> -1..MaxReloads]
  /\ target \in [Threads -> Targets \cup {NoTarget}]
  /\ scope \in [Threads -> {"one", "all"}]

SharedTypes ==
  /\ suspended \subseteq Threads
  /\ inMyself \in Nat
  /\ exceptionList \subseteq Targets
  /\ config \in 0..MaxReloads
  /\ contents \in [0..MaxReloads -> Contents]
  /\ live \subseteq 0..MaxReloads
  /\ setting \in [by : Threads \cup {NoThread}, key : Keys]
  /\ errorStatus \in BOOLEAN

\* Only monitorThread reloads, and only if there is another file to read.
Roles ==
  /\ \A t \in Threads : pc[t] \in ReloadPCs => t = Monitor
  /\ pc[Monitor] \in {"setlist", "reload"} => config < MaxReloads

\* The variables have their types.
TypeOK ==
  /\ ThreadTypes
  /\ SharedTypes
  /\ lock \in [Locks -> [owner : Threads \cup {NoThread}, depth : Nat]]
  /\ Roles

One(condition) == IF condition THEN 1 ELSE 0

\* How many calls these are, and how many of them came through Callbacks.
AllCalls(calls) == Len(calls)
JavaCalls(calls) == Cardinality({i \in DOMAIN calls : calls[i] \in JavaPaths})

\* How often t has entered configMonitor, myLock and the counter inMyself, by
\* the call it is in and the calls that were interrupted.
ConfigDepth(t) ==
  AllCalls(outer[t]) + One(pc[t] \in {"enter", "init", "dump", "mail", "exit", "redefine"})

MyDepth(t) ==
  JavaCalls(outer[t])
  + One(path[t] \in JavaPaths
        /\ pc[t] \in {"scan", "acquire", "enter", "init", "dump", "mail", "exit", "uncount"})

Depth(l, t) == IF l = "config" THEN ConfigDepth(t) ELSE MyDepth(t)

Counted(t) ==
  JavaCalls(outer[t])
  + One(path[t] \in JavaPaths
        /\ pc[t] \in {"acquire", "enter", "init", "dump", "mail", "exit", "uncount"})

\* Both locks are entered and left in pairs on every way through the agent, so
\* that their owner and depth are what the places of the threads say, also
\* around early returns, nested exceptions and failed dumps.
LocksBalanced ==
  \A l \in Locks :
    /\ lock[l].owner = NoThread => lock[l].depth = 0
    /\ \A t \in Threads :
         /\ lock[l].owner = t <=> Depth(l, t) > 0
         /\ lock[l].owner = t => lock[l].depth = Depth(l, t)

\* inMyself is the number of calls of Callbacks that are counted: it never
\* drifts, which would turn off the dumps of exceptions for good.
InMyselfCounts ==
  inMyself = IF lock["my"].owner = NoThread THEN 0 ELSE Counted(lock["my"].owner)

\* A thread that dumps is the only one that runs: every other is suspended by
\* it, and the owner of configMonitor never is, so a dump is never itself stopped.
DumperRunsAlone ==
  /\ lock["config"].owner \notin suspended
  /\ \A t \in Threads : pc[t] = "dump" => suspended = Threads \ {t}

\* An exception that comes through Callbacks never dumps while another call of
\* its thread is counted in Callbacks.inMyself, however many mails and automatic
\* dumps lie between them.  (An automatic dump and that of a StackOverflowError
\* do not look at the counter, and do nest.)
NoNestedCallbackDump ==
  \A t \in Threads :
    pc[t] \in {"init", "dump"} /\ path[t] = "exception" => JavaCalls(outer[t]) = 0

\* From setOutputSetting to the end of its call a thread works with the output
\* setting that it selected itself, although the Config holds one for everybody.
\* (A dump that a nested exception makes is of the same thread.)
SettingIsOwn ==
  \A t \in Threads : pc[t] \in {"init", "dump", "mail"} => setting.by = t

\* The installed Config is not deleted as long as no reload fails.
InstalledConfigLive == config \in live

\* The interrupted calls of t: one at most came through Callbacks, and only a
\* reload is interrupted before any dump.
CallsNest(t, calls) ==
  /\ JavaCalls(calls) <= 1
  /\ \A i \in DOMAIN calls : calls[i] = "reload" => i = 1 /\ t = Monitor

MailBeneath(calls) == \E i \in DOMAIN calls : calls[i] \in MailPaths

\* What the invariants above rest on: which calls a thread can be in at a place,
\* which ones can be interrupted beneath them, and that the setting stays with a
\* thread whose mail has been interrupted.
Shape(t) ==
  /\ pc[t] \in {"scan", "uncount"} => path[t] \in JavaPaths
  /\ pc[t] = "mail" => path[t] \in MailPaths
  /\ pc[t] \in {"run", "ask"} \cup ReloadPCs => outer[t] = <<>>
  /\ path[t] = "method" /\ pc[t] = "callback" => outer[t] = <<>>
  /\ CallsNest(t, outer[t])
  /\ /\ path[t] \in JavaPaths
     /\ pc[t] \in {"acquire", "enter", "init", "dump", "mail", "exit"}
     => JavaCalls(outer[t]) = 0
  /\ pc[t] \in {"init", "dump", "mail"} \/ MailBeneath(outer[t]) => setting.by = t

CallShape == \A t \in Threads : Shape(t)

\* The inductive invariant.
IInv ==
  /\ TypeOK
  /\ LocksBalanced
  /\ InMyselfCounts
  /\ DumperRunsAlone
  /\ CallShape

-----------------------------------------------------------------------------
(* What the comments of the code say and its behaviour does not keep *)

\* "we must call setMonitorClass first,because a lock in java will be held":
\* a thread that holds configMonitor does not wait for myLock.
NoLockInversion ==
  \A t \in Threads :
    lock["config"].owner = t /\ pc[t] = "callback" => lock["my"].owner \in {t, NoThread}

\* "reset config after get the mutex": nobody is left with a pointer to the
\* configuration that is deleted.
NoDanglingConfig ==
  \A t \in Threads : ref[t] # -1 => ref[t] \in live

\* Lack of memory only makes a dump incomplete: threads are stopped during a
\* dump and at no other time.  It is so without C++ exceptions (Faults).
StoppedOnlyInDump ==
  suspended # {} => \E t \in Threads : pc[t] = "dump"

-----------------------------------------------------------------------------
(* Refinement and liveness *)

\* The two locks and the suspension implement sessions, one at a time.
Sessions == INSTANCE DumpSession WITH
  Reloader <- Monitor,
  MayLeak <- Faults,
  holder <- lock["config"].owner,
  version <- config,
  chooser <- setting.by,
  stopped <- suspended

\* DumpProtocol implements DumpSession: see there what it promises.
DumpsAreSessions == Sessions!Spec

\* A thread that runs is scheduled, and the Java code of a mail raises finitely
\* many exceptions.  Nothing is assumed of who gets a lock that several await.
Fairness ==
  /\ \A t \in Threads : WF_vars(CallStep(t))
  /\ \A t \in App \cup {Monitor}, n \in 0..MaxNesting : SF_vars(SendMail(t) /\ Len(outer[t]) = n)
  /\ WF_vars(ReloadStep)

FairSpec == Spec /\ Fairness

\* Config::setOutputSetting finds the class or signal of every call in the
\* installed Config: what it dereferences otherwise is undefined.
SettingFound == \A t \in Threads : setting # [by |-> t, key |-> NoTarget]

\* Whoever holds configMonitor releases it: nothing it does under the lock, the
\* Java code of a mail and the dumps nested in it included, waits for a thread
\* that waits for it.  Runs in which a setting was not found are left out.
ConfigMonitorFreed ==
  []SettingFound => (lock["config"].owner # NoThread ~> lock["config"].owner = NoThread)

\* The threads that a dump stops run again.
WorldResumed == suspended # {} ~> suspended = {}

=============================================================================
