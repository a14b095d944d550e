--------------------------- MODULE AgentLifecycle ---------------------------
(***************************************************************************)
(* The life of the agent in a JVM: Agent_OnLoad, vmInitCallBack, the event *)
(* of VM death and Agent_OnUnload, which frees what monitorThread uses.    *)
(* Agent_OnUnload and monitorThread agree by two plain globals:            *)
(*   isJVMToUnload        set by the one, polled by the other;             *)
(*   monitorThreadStatus  -1 waits for its start, 1 runs, 0 has stopped.   *)
(* A reload waits for the lock of Callbacks and for configMonitor, and the *)
(* dump of another thread suspends monitorThread: who holds the locks and  *)
(* who resumes the thread is the subject of DumpProtocol; here the waits   *)
(* may end or not.                                                         *)
(***************************************************************************)
EXTENDS Integers

VARIABLES
  vm,                  \* where the thread of the JVM is
  mon,                 \* where monitorThread is
  registered,          \* have the event callbacks been set?
  config,              \* is there an object behind Global::config?
  isJVMToUnload,       \* Global::isJVMToUnload
  monitorThreadStatus, \* Global::monitorThreadStatus
  errorStatus,         \* Global::errorStatus
  stopped,             \* has a dump suspended monitorThread?
  waited               \* history: Agent_OnUnload has waited for monitorThread

flags == <<isJVMToUnload, monitorThreadStatus, errorStatus>>
vars  == <<vm, mon, registered, config, flags, stopped, waited>>

VMPlaces == {"load", "setup", "init", "sweep", "live", "dead", "ask", "wait", "free", "gone"}
MonPlaces == {"none", "started", "checked", "running", "asleep", "awake", "sweep", "reload",
              "java", "lock", "install", "done"}

\* Where monitorThread waits for other threads in a reload.
Waits == {"java", "lock", "install"}

Init ==
  /\ vm = "load"
  /\ mon = "none"
  /\ registered = FALSE
  /\ config = FALSE
  /\ isJVMToUnload = FALSE
  /\ monitorThreadStatus = -1
  /\ errorStatus = FALSE
  /\ stopped = FALSE
  /\ waited = FALSE

-----------------------------------------------------------------------------
(* The JVM *)

\* readConfigFile installs the first Config.
LoadConfig ==
  /\ vm = "load"
  /\ config' = TRUE
  /\ vm' = "setup"
  /\ UNCHANGED <<mon, registered, flags, stopped, waited>>

RegisterCallbacks ==
  /\ vm = "setup"
  /\ registered' = TRUE
  /\ vm' = "init"
  /\ UNCHANGED <<mon, config, flags, stopped, waited>>

\* A missing license or configuration, or a JVMTI call that fails: the JVM runs
\* on without the agent.
LoadFails ==
  /\ vm \in {"load", "setup"}
  /\ vm' = "live"
  /\ UNCHANGED <<mon, registered, config, flags, stopped, waited>>

\* vmInitCallBack starts monitorThread before its own deletion of old dumps.
StartMonitorThread ==
  /\ vm = "init"
  /\ mon' = "started"
  /\ vm' = "sweep"
  /\ UNCHANGED <<registered, config, flags, stopped, waited>>

FinishInit ==
  /\ vm = "sweep"
  /\ vm' = "live"
  /\ UNCHANGED <<mon, registered, config, flags, stopped, waited>>

\* vmInitCallBack returns early, or one of its handlers catches an exception.
InitFails ==
  /\ vm \in {"init", "sweep"}
  /\ vm' = "live"
  /\ errorStatus' \in {errorStatus, TRUE}
  /\ UNCHANGED <<mon, registered, config, isJVMToUnload, monitorThreadStatus, stopped, waited>>

\* A dump fails and sets the error status.
DumpFails ==
  /\ registered
  /\ vm \in {"live", "dead", "ask", "wait"}
  /\ errorStatus' = TRUE
  /\ UNCHANGED <<vm, mon, registered, config, isJVMToUnload, monitorThreadStatus, stopped, waited>>

\* vmDeathCallBack frees the tables of classes and exceptions, which are not
\* modelled here.
VmDeath ==
  /\ vm = "live"
  /\ vm' = "dead"
  /\ UNCHANGED <<mon, registered, config, flags, stopped, waited>>

Unload ==
  /\ vm = "dead"
  /\ isJVMToUnload' = TRUE
  /\ vm' = "ask"
  /\ UNCHANGED <<mon, registered, config, monitorThreadStatus, errorStatus, stopped, waited>>

\* Agent_OnUnload waits for monitorThread unless it is still to start.
AskStatus ==
  /\ vm = "ask"
  /\ vm' = IF monitorThreadStatus # -1 THEN "wait" ELSE "free"
  /\ UNCHANGED <<mon, registered, config, flags, stopped, waited>>

AwaitMonitorThread ==
  /\ vm = "wait"
  /\ monitorThreadStatus = 0
  /\ waited' = TRUE
  /\ vm' = "free"
  /\ UNCHANGED <<mon, registered, config, flags, stopped>>

\* The Config is deleted and set to NULL, and so are the raw monitor and the rest.
FreeAll ==
  /\ vm = "free"
  /\ config' = FALSE
  /\ vm' = "gone"
  /\ UNCHANGED <<mon, registered, flags, stopped, waited>>

-----------------------------------------------------------------------------
(* monitorThread *)

MonGoes(place) ==
  /\ mon' = place
  /\ UNCHANGED <<vm, registered, config, flags, stopped, waited>>

\* Mutant: a thread that leaves does not say so.
StopSilently ==
  /\ mon' = "done"
  /\ UNCHANGED <<vm, registered, config, flags, stopped, waited>>

\* Mutant: the status is counted down instead of set.
StopCounts ==
  /\ monitorThreadStatus' = monitorThreadStatus - 1
  /\ mon' = "done"
  /\ UNCHANGED <<vm, registered, config, isJVMToUnload, errorStatus, stopped, waited>>

\* monitorThreadStatus = 0; return.
Stop ==
  /\ monitorThreadStatus' = 0
  /\ mon' = "done"
  /\ UNCHANGED <<vm, registered, config, isJVMToUnload, errorStatus, stopped, waited>>

MonitorStarts ==
  /\ mon = "started"
  /\ IF isJVMToUnload THEN Stop ELSE MonGoes("checked")

MonitorAnnounces ==
  /\ mon = "checked"
  /\ monitorThreadStatus' = 1
  /\ mon' = "running"
  /\ UNCHANGED <<vm, registered, config, isJVMToUnload, errorStatus, stopped, waited>>

\* It leaves in error status, if no interval is configured, or if the file cannot
\* be found; else it sleeps.
MonitorReadsConfig ==
  /\ mon = "running"
  /\ \/ Stop
     \/ ~errorStatus /\ MonGoes("asleep")

\* It looks for the end of the JVM every second of its sleep.
MonitorSleeps ==
  /\ mon = "asleep"
  /\ \/ isJVMToUnload /\ Stop
     \/ ~isJVMToUnload /\ MonGoes("awake")

\* Mutant: in error status the thread leaves without a word.
MonitorWakesSilently ==
  /\ mon = "awake"
  /\ \/ errorStatus /\ StopSilently
     \/ ~errorStatus /\ \E place \in {"sweep", "reload", "asleep"} : MonGoes(place)

\* It leaves in error status, else it deletes old dump files at noon and midnight,
\* reads a changed file or sleeps again.
MonitorWakes ==
  /\ mon = "awake"
  /\ \/ errorStatus /\ Stop
     \/ ~errorStatus /\ \E place \in {"sweep", "reload", "asleep"} : MonGoes(place)

\* The end of the JVM cuts the deletion short but not what follows it.
MonitorSweeps ==
  /\ mon = "sweep"
  /\ \E place \in {"reload", "asleep"} : MonGoes(place)

\* ReadCfgFileException is logged; any other exception sets the error status.
ReloadFails ==
  /\ errorStatus' \in {errorStatus, TRUE}
  /\ mon' = "asleep"
  /\ UNCHANGED <<vm, registered, config, isJVMToUnload, monitorThreadStatus, stopped, waited>>

\* The changed file is read into a new Config.
MonitorReadsFile ==
  /\ mon = "reload"
  /\ MonGoes("java") \/ ReloadFails

\* setMonitorClass calls Callbacks, which waits for its lock.
MonitorTellsJava ==
  /\ mon = "java"
  /\ MonGoes("lock") \/ ReloadFails

MonitorTakesLock ==
  /\ mon = "lock"
  /\ MonGoes("install")

\* Mutant: a reload that fails says that the thread has stopped.
MonitorInstallStops ==
  /\ mon = "install"
  /\ mon' = "asleep"
  /\ \/ UNCHANGED <<errorStatus, monitorThreadStatus>>
     \/ errorStatus' = TRUE /\ monitorThreadStatus' = 0
  /\ UNCHANGED <<vm, registered, config, isJVMToUnload, stopped, waited>>

\* With configMonitor held the Config is installed, Callbacks is called again, the
\* classes are redefined and old dump files deleted.
MonitorInstalls ==
  /\ mon = "install"
  /\ MonGoes("asleep") \/ ReloadFails

\* Another thread dumps the stacks of all threads; it holds configMonitor meanwhile.
DumpStops ==
  /\ registered
  /\ vm \in {"live", "dead", "ask", "wait"}
  /\ mon \notin {"none", "install", "done"}
  /\ stopped' = TRUE
  /\ UNCHANGED <<vm, mon, registered, config, flags, waited>>

\* The dump ends. One that fails may leave the thread suspended for good.
DumpResumes ==
  /\ stopped
  /\ stopped' = FALSE
  /\ UNCHANGED <<vm, mon, registered, config, flags, waited>>

-----------------------------------------------------------------------------

\* The steps of Agent_OnUnload.
UnloadStep == AskStatus \/ AwaitMonitorThread \/ FreeAll

VMStep ==
  \/ LoadConfig \/ RegisterCallbacks \/ LoadFails
  \/ StartMonitorThread \/ FinishInit \/ InitFails
  \/ VmDeath \/ Unload \/ UnloadStep

\* The steps for which monitorThread waits for no other thread.
MonitorRuns ==
  \/ MonitorStarts \/ MonitorAnnounces \/ MonitorReadsConfig
  \/ MonitorSleeps \/ MonitorWakes \/ MonitorSweeps \/ MonitorReadsFile

MonitorStep ==
  MonitorRuns \/ MonitorTellsJava \/ MonitorTakesLock \/ MonitorInstalls

\* Suspension stops a thread at its next call into the JVM at the latest: until
\* then its steps are possible, but not certain.
Next == VMStep \/ MonitorStep \/ DumpFails \/ DumpStops \/ DumpResumes

Spec == Init /\ [][Next]_vars

\* Agent_OnUnload and monitorThread are scheduled, the latter unless it is suspended.
\* Nothing is said of the waits of a reload, nor of the end of a suspension.
FairSpec == Spec /\ WF_vars(UnloadStep) /\ WF_vars(~stopped /\ MonitorRuns)

-----------------------------------------------------------------------------
(* Properties *)

\* The variables have their types, and a thread is only there once it is started.
TypeOK ==
  /\ vm \in VMPlaces
  /\ mon \in MonPlaces
  /\ registered \in BOOLEAN
  /\ config \in BOOLEAN
  /\ isJVMToUnload \in BOOLEAN
  /\ monitorThreadStatus \in {-1, 0, 1}
  /\ errorStatus \in BOOLEAN
  /\ stopped \in BOOLEAN
  /\ waited \in BOOLEAN

\* If Agent_OnUnload has waited for monitorThread, the thread does nothing more
\* when the Config and the raw monitor are freed, on whichever of its ways out it
\* left, and it does not start late.
FreedAfterItsUse == waited => mon = "done"

\* The inductive invariant: the thread is started once, and what is reported as
\* stopped has stopped.
IInv ==
  /\ TypeOK
  /\ vm \in {"load", "setup", "init"} => mon = "none"
  /\ waited => monitorThreadStatus = 0
  /\ monitorThreadStatus = 0 => mon = "done"

\* Every reload gets past its waits, and no dump leaves monitorThread suspended.
Unhindered ==
  /\ (mon \in Waits) ~> (mon \notin Waits)
  /\ <>[]~stopped

\* Agent_OnUnload, which polls without a limit, ends unless a reload is stuck in a
\* wait or monitorThread stays suspended: the thread leaves and reports it from
\* every other state that it can be in, also in error status and after a reload
\* that failed.
UnloadEnds == Unhindered => (vm = "ask" ~> vm = "gone")

=============================================================================
