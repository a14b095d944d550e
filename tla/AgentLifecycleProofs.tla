------------------------ MODULE AgentLifecycleProofs ------------------------
(***************************************************************************)
(* The end of the agent: what Agent_OnUnload frees after it has waited for *)
(* monitorThread is not used any more.                                     *)
(***************************************************************************)
EXTENDS AgentLifecycle, TLAPS

\* At the start of the JVM nothing has been reported.
LEMMA InitIInv == Init => IInv
<1> SUFFICES ASSUME Init PROVE IInv
  OBVIOUS
<1>1. TypeOK
  BY DEF Init, TypeOK, VMPlaces, MonPlaces
<1>2. ~waited /\ mon = "none"
  BY Zenon DEF Init
<1>3. monitorThreadStatus # 0
  BY SMT DEF Init
<1> QED BY <1>1, <1>2, <1>3 DEF IInv

\* The steps of the JVM keep the invariant: only the wait sets "waited", and it
\* tests the status.
LEMMA VMStepKeepsIInv == IInv /\ VMStep => IInv'
<1> SUFFICES ASSUME IInv, VMStep PROVE IInv'
  OBVIOUS
<1> USE DEF IInv, TypeOK, VMPlaces, MonPlaces, flags
<1>1. CASE LoadConfig BY <1>1 DEF LoadConfig
<1>2. CASE RegisterCallbacks BY <1>2 DEF RegisterCallbacks
<1>3. CASE LoadFails BY <1>3 DEF LoadFails
<1>4. CASE StartMonitorThread
  <2>1. mon = "none" /\ monitorThreadStatus # 0
    BY <1>4 DEF StartMonitorThread
  <2> QED BY <1>4, <2>1 DEF StartMonitorThread
<1>5. CASE FinishInit BY <1>5 DEF FinishInit
<1>6. CASE InitFails BY <1>6 DEF InitFails
<1>7. CASE VmDeath BY <1>7 DEF VmDeath
<1>8. CASE Unload BY <1>8 DEF Unload
<1>9. CASE AskStatus BY <1>9 DEF AskStatus
<1>10. CASE AwaitMonitorThread BY <1>10 DEF AwaitMonitorThread
<1>11. CASE FreeAll BY <1>11 DEF FreeAll
<1> QED
  BY <1>1, <1>2, <1>3, <1>4, <1>5, <1>6, <1>7, <1>8, <1>9, <1>10, <1>11 DEF VMStep, UnloadStep

\* The steps of monitorThread keep it: every way out reports 0 as the last thing.
LEMMA MonitorStepKeepsIInv == IInv /\ MonitorStep => IInv'
<1> SUFFICES ASSUME IInv, MonitorStep PROVE IInv'
  OBVIOUS
<1> USE DEF IInv, TypeOK, VMPlaces, MonPlaces, flags
<1>1. ASSUME Stop, mon # "none" PROVE IInv'
  BY <1>1 DEF Stop
<1>2. ASSUME NEW place \in MonPlaces, MonGoes(place), mon # "none", mon # "done"
      PROVE IInv'
  BY <1>2 DEF MonGoes
<1>3. CASE MonitorStarts BY <1>1, <1>2, <1>3 DEF MonitorStarts
<1>4. CASE MonitorAnnounces BY <1>4 DEF MonitorAnnounces
<1>5. CASE MonitorReadsConfig BY <1>1, <1>2, <1>5 DEF MonitorReadsConfig
<1>6. CASE MonitorSleeps BY <1>1, <1>2, <1>6 DEF MonitorSleeps
<1>7. CASE MonitorWakes BY <1>1, <1>2, <1>7 DEF MonitorWakes
<1>8. CASE MonitorSweeps BY <1>2, <1>8 DEF MonitorSweeps
<1>9. ASSUME ReloadFails, mon # "none", mon # "done" PROVE IInv'
  BY <1>9 DEF ReloadFails
<1>10. CASE MonitorReadsFile BY <1>2, <1>9, <1>10 DEF MonitorReadsFile
<1>11. CASE MonitorTellsJava BY <1>2, <1>9, <1>11 DEF MonitorTellsJava
<1>12. CASE MonitorTakesLock BY <1>2, <1>12 DEF MonitorTakesLock
<1>13. CASE MonitorInstalls BY <1>2, <1>9, <1>13 DEF MonitorInstalls
<1> QED
  BY <1>3, <1>4, <1>5, <1>6, <1>7, <1>8, <1>10, <1>11, <1>12, <1>13
  DEF MonitorStep, MonitorRuns

\* Every reachable state of the agent satisfies the invariant.
THEOREM IInvHolds == Spec => []IInv
<1>1. Init => IInv
  BY InitIInv
<1>2. IInv /\ [Next]_vars => IInv'
  <2> SUFFICES ASSUME IInv, [Next]_vars PROVE IInv'
    OBVIOUS
  <2>1. CASE VMStep BY <2>1, VMStepKeepsIInv
  <2>2. CASE MonitorStep BY <2>2, MonitorStepKeepsIInv
  <2>3. CASE DumpFails
    BY <2>3 DEF DumpFails, IInv, TypeOK, VMPlaces, MonPlaces
  <2>4. CASE DumpStops \/ DumpResumes
    <3>1. stopped' \in BOOLEAN /\ UNCHANGED <<vm, mon, registered, config, flags, waited>>
      BY <2>4, Zenon DEF DumpStops, DumpResumes
    <3> QED BY <3>1 DEF flags, IInv, TypeOK
  <2>5. CASE UNCHANGED vars
    BY <2>5 DEF vars, flags, IInv, TypeOK
  <2> QED BY <2>1, <2>2, <2>3, <2>4, <2>5 DEF Next
<1> QED BY <1>1, <1>2, PTL DEF Spec

\* Type correctness of AgentLifecycle.
THEOREM TypesHold == Spec => []TypeOK
  BY IInvHolds, PTL DEF IInv

\* Agent_OnUnload never frees what a monitorThread that it waited for still uses.
THEOREM FreedAfterUse == Spec => []FreedAfterItsUse
<1>1. IInv => FreedAfterItsUse
  BY DEF IInv, FreedAfterItsUse
<1> QED BY <1>1, IInvHolds, PTL

=============================================================================
