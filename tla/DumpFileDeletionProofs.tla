----------------------- MODULE DumpFileDeletionProofs -----------------------
(***************************************************************************)
(* Proofs about the deletion of dump files, for any number of dump files,  *)
(* days to save, and lengths of the half day and of the sleep.  A sweep    *)
(* that removes a task file has read it to the end, and no name is         *)
(* appended to a task file that is due: the dump files of its day were     *)
(* written at least a half day earlier.                                    *)
(***************************************************************************)
EXTENDS DumpFileDeletion, TLAPS

DumpRec == [at : {"idle", "dir", "written", "open"}, file : Dumps \cup {NoDump},
            date : Dates, unlinked : BOOLEAN]
SweepRec == [at : {"idle", "scan", "read", "unlink"}, today : Dates,
             date : Dates, seen : SUBSET Dates, read : SUBSET Dumps]

\* TypeOK with the types of the records named.
Typed ==
  /\ now \in 0..MaxTime /\ up \in BOOLEAN /\ unload \in BOOLEAN
  /\ disk \subseteq Dumps /\ born \in [Dumps -> -1..MaxTime]
  /\ home \in [Dumps -> {-1} \cup Dates]
  /\ dirs \subseteq Dates /\ taskFiles \subseteq Dates
  /\ entries \in [Dates -> SUBSET Dumps]
  /\ dump \in DumpRec /\ sweep \in [Sweepers -> SweepRec]
  /\ left \in 0..SleepTime /\ forgotten \subseteq Dumps /\ failed \subseteq Dumps

\* A file is written once, after its directory was made, and listed later.
FilesOK ==
  /\ \A f \in Dumps : home[f] = -1 => born[f] = -1
  /\ \A f \in disk : born[f] # -1
  /\ \A d \in Dates : \A f \in entries[d] : born[f] # -1 /\ TaskDate(born[f]) <= d

\* The dump in progress; the date of its task file lies ahead until its name
\* must have been appended.
DumpOK ==
  /\ dump.unlinked = FALSE
  /\ dump.at = "idle" => dump.file = NoDump
  /\ dump.at # "idle" => dump.file \in Dumps /\ home[dump.file] # -1
  /\ dump.at = "dir" => born[dump.file] = -1
  /\ dump.at \in {"written", "open"} =>
       born[dump.file] \in 0..now /\ now - born[dump.file] <= HalfDay - 1
  /\ dump.at = "open" =>
       /\ TaskDate(born[dump.file]) <= dump.date
       /\ \A t \in now..(born[dump.file] + HalfDay - 1) : Today(t) < dump.date

\* A sweep looks at task files that are due, and what it has read is deleted or
\* could not be.
SweepOK(s) ==
  /\ sweep[s].at # "idle" => sweep[s].today <= Today(now)
  /\ sweep[s].at \in {"read", "unlink"} => sweep[s].date <= sweep[s].today
  /\ \A f \in sweep[s].read : (f \notin disk \/ f \in failed) /\ born[f] # -1
  /\ sweep[s].at = "unlink" => entries[sweep[s].date] \cap disk \subseteq failed

IInv == Typed /\ FilesOK /\ DumpOK /\ (\A s \in Sweepers : SweepOK(s)) /\ ListedForDeletion

-----------------------------------------------------------------------------
(* Days *)

LEMMA DivMonotone ==
  ASSUME NEW n \in Nat \ {0}, NEW a \in Nat, NEW b \in Nat, a <= b
  PROVE  a \div n <= b \div n
OBVIOUS

LEMMA DivBounds ==
  ASSUME NEW n \in Nat \ {0}, NEW a \in Nat
  PROVE  a \div n \in Nat /\ n * (a \div n) <= a /\ a < n * (a \div n) + n
OBVIOUS

LEMMA DivShift ==
  ASSUME NEW n \in Nat \ {0}, NEW a \in Nat, NEW k \in Nat
  PROVE  (a + k * n) \div n = (a \div n) + k
OBVIOUS

LEMMA Numbers ==
  /\ Day \in Nat \ {0} /\ Day = 2 * HalfDay
  /\ HalfDay \in Nat \ {0} /\ SaveDays \in Nat \ {0} /\ SleepTime \in Nat \ {0}
  /\ MaxTime \in Nat /\ MaxTime >= Day - 1
BY DeletionAssumption DEF Day, DeletionAssumption

LEMMA TodayMonotone ==
  ASSUME NEW t \in Nat, NEW u \in Nat, t <= u
  PROVE  Today(t) \in Nat /\ Today(u) \in Nat /\ Today(t) <= Today(u)
BY Numbers, DivMonotone, DivBounds DEF Today

LEMMA TaskDateShift ==
  ASSUME NEW t \in Nat
  PROVE  TaskDate(t) = Today(t + HalfDay) + SaveDays
<1>1. t + HalfDay \in Nat /\ SaveDays \in Nat /\ Day \in Nat \ {0}
  BY Numbers
<1>2. (t + HalfDay) + SaveDays * Day = t + SaveDays * Day + HalfDay
  BY <1>1, Numbers
<1>3. ((t + HalfDay) + SaveDays * Day) \div Day = ((t + HalfDay) \div Day) + SaveDays
  BY <1>1, DivShift
<1> QED BY <1>2, <1>3 DEF TaskDate, Today

\* The dates that occur.
LEMMA DatesOccur ==
  ASSUME NEW t \in 0..MaxTime
  PROVE  Today(t) \in Dates /\ TaskDate(t) \in Dates
<1>1. t \in Nat /\ t + HalfDay \in Nat /\ MaxTime + HalfDay \in Nat
      /\ t <= MaxTime + HalfDay /\ t + HalfDay <= MaxTime + HalfDay
  BY Numbers
<1>2. Today(t) \in Nat /\ Today(t) <= Today(MaxTime + HalfDay)
      /\ Today(t + HalfDay) \in Nat /\ Today(t + HalfDay) <= Today(MaxTime + HalfDay)
      /\ Today(MaxTime + HalfDay) \in Nat
  BY <1>1, TodayMonotone
<1>3. TaskDate(t) = Today(t + HalfDay) + SaveDays
  BY <1>1, TaskDateShift
<1>4. SaveDays \in Nat
  BY Numbers
<1> QED BY <1>2, <1>3, <1>4 DEF Dates

\* The task file of a dump is not due within half a day.
LEMMA TaskDateAhead ==
  ASSUME NEW t \in Nat, NEW u \in Nat, u <= t + HalfDay
  PROVE  Today(u) < TaskDate(t)
<1>1. t + HalfDay \in Nat
  BY Numbers
<1>2. Today(u) \in Nat /\ Today(t + HalfDay) \in Nat /\ Today(u) <= Today(t + HalfDay)
  BY <1>1, TodayMonotone
<1> QED BY <1>2, TaskDateShift, Numbers

LEMMA TaskDateMonotone ==
  ASSUME NEW t \in Nat, NEW u \in Nat, t <= u
  PROVE  TaskDate(t) <= TaskDate(u)
<1>1. t + HalfDay \in Nat /\ u + HalfDay \in Nat /\ t + HalfDay <= u + HalfDay
  BY Numbers
<1>2. Today(t + HalfDay) \in Nat /\ Today(u + HalfDay) \in Nat
      /\ Today(t + HalfDay) <= Today(u + HalfDay)
  BY <1>1, TodayMonotone
<1> QED BY <1>2, TaskDateShift, Numbers

\* What is due has been saved for its days, but for half a day.
LEMMA DueIsOld ==
  ASSUME NEW t \in Nat, NEW u \in Nat, TaskDate(t) <= Today(u)
  PROVE  u - t > (2 * SaveDays - 1) * HalfDay
<1>1. t + HalfDay \in Nat /\ Day \in Nat \ {0} /\ Day = 2 * HalfDay
      /\ HalfDay \in Nat /\ SaveDays \in Nat
  BY Numbers
<1>2. Today(t + HalfDay) \in Nat /\ t + HalfDay < Day * Today(t + HalfDay) + Day
  BY <1>1, DivBounds DEF Today
<1>3. Today(u) \in Nat /\ Day * Today(u) <= u
  BY <1>1, DivBounds DEF Today
<1>4. Today(t + HalfDay) + SaveDays <= Today(u)
  BY TaskDateShift
<1>5. Day * (Today(t + HalfDay) + SaveDays) <= Day * Today(u)
  BY <1>1, <1>2, <1>3, <1>4
<1>6. Day * Today(t + HalfDay) + Day * SaveDays <= u
  BY <1>1, <1>2, <1>3, <1>5
<1>7. u - t > Day * SaveDays - HalfDay
  BY <1>1, <1>2, <1>6
<1>8. Day * SaveDays - HalfDay = (2 * SaveDays - 1) * HalfDay
  BY <1>1
<1> QED BY <1>7, <1>8
-----------------------------------------------------------------------------
(* Types *)

LEMMA ZeroIsDate == 0 \in Dates
<1>1. 0 \in 0..MaxTime
  BY Numbers
<1>2. Today(0) = 0
  BY Numbers DEF Today
<1> QED BY <1>1, <1>2, DatesOccur

LEMMA Idle ==
  /\ NoDumping \in DumpRec /\ NoDumping.at = "idle" /\ NoDumping.file = NoDump
  /\ NoDumping.unlinked = FALSE
  /\ NotSweeping \in SweepRec /\ NotSweeping.at = "idle" /\ NotSweeping.read = {}
BY ZeroIsDate DEF NoDumping, NotSweeping, DumpRec, SweepRec

\* The facts about the clock that the steps need.
LEMMA Now ==
  ASSUME Typed
  PROVE  now \in Nat /\ now \in Int /\ Today(now) \in Dates /\ TaskDate(now) \in Dates
         /\ Dates \subseteq Int /\ -1 \notin Dates
<1>1. now \in 0..MaxTime
  BY DEF Typed
<1>2. now \in Nat
  BY <1>1, Numbers
<1>3. Dates \subseteq Int /\ -1 \notin Dates
  BY DEF Dates
<1> QED BY <1>1, <1>2, <1>3, DatesOccur

LEMMA InitIInv == Init => IInv
<1> SUFFICES ASSUME Init PROVE IInv
  OBVIOUS
<1>1. now \in 0..MaxTime
  BY Numbers DEF Init
<1>2. Typed
  <2>1. [d \in Dates |-> {}] \in [Dates -> SUBSET Dumps]
    OBVIOUS
  <2>2. left \in 0..SleepTime
    BY Numbers DEF Init
  <2>3. born \in [Dumps -> -1..MaxTime] /\ home \in [Dumps -> {-1} \cup Dates]
    BY Numbers DEF Init
  <2> QED BY <1>1, <2>1, <2>2, <2>3, Idle DEF Typed, Init
<1>3. FilesOK
  BY DEF Init, FilesOK
<1>4. DumpOK
  BY Idle DEF Init, DumpOK
<1>5. \A s \in Sweepers : SweepOK(s)
  BY Idle DEF Init, SweepOK
<1> QED BY <1>2, <1>3, <1>4, <1>5 DEF IInv, Init, ListedForDeletion
-----------------------------------------------------------------------------
(* Steps of a dump *)

LEMMA MakeDumpDirKeepsIInv ==
  ASSUME NEW f \in Dumps, IInv, MakeDumpDir(f)
  PROVE  IInv'
<1>1. Typed /\ FilesOK /\ DumpOK /\ (\A s \in Sweepers : SweepOK(s)) /\ ListedForDeletion
  BY DEF IInv
<1>2. /\ dump.at = "idle" /\ home[f] = -1
      /\ home' = [home EXCEPT ![f] = Today(now)]
      /\ dirs' = dirs \cup {Today(now)}
      /\ dump' = [dump EXCEPT !.at = "dir", !.file = f]
      /\ UNCHANGED <<now, up, unload, disk, born, taskFiles, entries, sweep, left, forgotten, failed>>
  BY DEF MakeDumpDir, jvm
<1>3. dump \in DumpRec
  BY <1>1 DEF Typed
<1>4. /\ dump' \in DumpRec /\ dump'.at = "dir" /\ dump'.file = f
      /\ dump'.unlinked = FALSE
  BY <1>1, <1>2, <1>3 DEF DumpRec, DumpOK
<1>5. /\ home' \in [Dumps -> {-1} \cup Dates] /\ home'[f] # -1
      /\ \A g \in Dumps : home'[g] = -1 => home[g] = -1
  BY <1>1, <1>2, Now DEF Typed
<1>6. Typed'
  BY <1>1, <1>2, <1>4, <1>5, Now DEF Typed
<1>7. FilesOK'
  BY <1>1, <1>2, <1>5 DEF FilesOK, TaskDate, Today
<1>8. DumpOK'
  BY <1>1, <1>2, <1>4, <1>5 DEF DumpOK, FilesOK
<1>9. \A s \in Sweepers : SweepOK(s)'
  BY <1>1, <1>2 DEF SweepOK, Today
<1>10. ListedForDeletion'
  <2>1. \A g \in disk : dump.file # g
    BY <1>1, <1>2, DeletionAssumption DEF Typed, DumpOK, DeletionAssumption
  <2> QED BY <1>1, <1>2, <2>1 DEF ListedForDeletion
<1> QED BY <1>6, <1>7, <1>8, <1>9, <1>10 DEF IInv

LEMMA WriteDumpKeepsIInv ==
  ASSUME IInv, WriteDump
  PROVE  IInv'
<1> DEFINE f == dump.file
<1>1. Typed /\ FilesOK /\ DumpOK /\ (\A s \in Sweepers : SweepOK(s)) /\ ListedForDeletion
  BY DEF IInv
<1>2. /\ dump.at = "dir"
      /\ UNCHANGED <<now, up, unload, home, dirs, taskFiles, entries, sweep, left, forgotten, failed>>
  BY DEF WriteDump, jvm
<1>3. f \in Dumps /\ home[f] # -1 /\ born[f] = -1 /\ f \notin disk /\ dump \in DumpRec
  BY <1>1, <1>2 DEF Typed, DumpOK, FilesOK
<1>4. \A d \in Dates : f \notin entries[d]
  BY <1>1, <1>3 DEF FilesOK
<1>5. \A s \in Sweepers : f \notin sweep[s].read
  BY <1>1, <1>3 DEF SweepOK
<1>6. ASSUME disk' = disk \cup {f}, born' = [born EXCEPT ![f] = now],
             dump' = [dump EXCEPT !.at = "written"]
      PROVE  IInv'
  <2>1. /\ disk' = disk \cup {f} /\ born' = [born EXCEPT ![f] = now]
        /\ dump' = [dump EXCEPT !.at = "written"]
    BY <1>6
  <2> HIDE DEF f
  <2>2. /\ dump' \in DumpRec /\ dump'.at = "written" /\ dump'.file = f /\ dump'.unlinked = FALSE
    BY <1>1, <1>3, <2>1 DEF DumpRec, DumpOK, f
  <2>3. /\ now \in 0..MaxTime /\ now \in Int /\ now # -1
        /\ born \in [Dumps -> -1..MaxTime]
    BY <1>1 DEF Typed
  <2>4. /\ born' \in [Dumps -> -1..MaxTime] /\ born'[f] = now
        /\ \A g \in Dumps \ {f} : born'[g] = born[g]
    BY <1>3, <2>1, <2>3
  <2>5. Typed'
    BY <1>1, <1>2, <1>3, <2>1, <2>2, <2>4 DEF Typed
  <2>6. FilesOK'
    <3>1. \A d \in Dates : \A g \in entries[d] : g \in Dumps \ {f}
      BY <1>1, <1>4 DEF Typed
    <3>2. disk \subseteq Dumps
      BY <1>1 DEF Typed
    <3> QED BY <1>1, <1>2, <1>3, <2>1, <2>3, <2>4, <3>1, <3>2 DEF FilesOK, TaskDate, Today
  <2>7. DumpOK'
    BY <1>2, <1>3, <2>2, <2>3, <2>4, Numbers DEF DumpOK
  <2>8. ASSUME NEW s \in Sweepers PROVE SweepOK(s)'
    <3>1. sweep[s] \in SweepRec
      BY <1>1 DEF Typed
    <3>2. sweep[s].read \subseteq Dumps /\ sweep[s].date \in Dates
      BY <3>1 DEF SweepRec
    <3>3. SweepOK(s) /\ Today(now)' = Today(now)
      BY <1>1, <1>2 DEF Today
    <3> QED BY <1>2, <1>4, <1>5, <2>1, <2>4, <3>2, <3>3 DEF SweepOK
  <2>9. ListedForDeletion'
    BY <1>1, <1>2, <2>1, <2>2 DEF ListedForDeletion, f
  <2> QED BY <2>5, <2>6, <2>7, <2>8, <2>9 DEF IInv
<1>7. ASSUME dump' = NoDumping, UNCHANGED <<disk, born>>
      PROVE  IInv'
  <2>1. dump' = NoDumping /\ UNCHANGED <<disk, born>>
    BY <1>7
  <2>2. Typed'
    BY <1>1, <1>2, <2>1, Idle DEF Typed
  <2>3. FilesOK' /\ DumpOK'
    BY <1>1, <1>2, <2>1, Idle DEF FilesOK, DumpOK, TaskDate, Today
  <2>4. \A s \in Sweepers : SweepOK(s)'
    BY <1>1, <1>2, <2>1 DEF SweepOK, Today
  <2>5. ListedForDeletion'
    BY <1>1, <1>2, <1>3, <2>1 DEF ListedForDeletion
  <2> QED BY <2>2, <2>3, <2>4, <2>5 DEF IInv
<1> QED BY <1>6, <1>7 DEF WriteDump

\* A dump whose registration fails is over, and its file is one of the failed.
LEMMA RegistrationFailsKeepsIInv ==
  ASSUME IInv, RegistrationFails
  PROVE  IInv'
<1>1. Typed /\ FilesOK /\ DumpOK /\ (\A s \in Sweepers : SweepOK(s)) /\ ListedForDeletion
  BY DEF IInv
<1>2. /\ dump.at \in {"written", "open"}
      /\ failed' = failed \cup {dump.file} /\ dump' = NoDumping
      /\ UNCHANGED <<now, up, unload, disk, born, home, dirs, taskFiles, entries, sweep, left, forgotten>>
  BY DEF RegistrationFails, jvm
<1>3. dump.file \in Dumps
  BY <1>1, <1>2 DEF DumpOK
<1>4. Typed'
  BY <1>1, <1>2, <1>3, Idle DEF Typed
<1>5. FilesOK' /\ DumpOK'
  BY <1>1, <1>2, Idle DEF FilesOK, DumpOK, TaskDate, Today
<1>6. \A s \in Sweepers : SweepOK(s)'
  BY <1>1, <1>2 DEF SweepOK, Today
<1>7. ListedForDeletion'
  BY <1>1, <1>2 DEF ListedForDeletion
<1> QED BY <1>4, <1>5, <1>6, <1>7 DEF IInv

LEMMA OpenTaskFileKeepsIInv ==
  ASSUME IInv, OpenTaskFile
  PROVE  IInv'
<1> DEFINE f == dump.file
<1>1. Typed /\ FilesOK /\ DumpOK /\ (\A s \in Sweepers : SweepOK(s)) /\ ListedForDeletion
  BY DEF IInv
<1>2. /\ dump.at = "written"
      /\ taskFiles' = taskFiles \cup {TaskDate(now)}
      /\ dump' = [dump EXCEPT !.at = "open", !.date = TaskDate(now)]
      /\ UNCHANGED <<now, up, unload, disk, born, home, dirs, entries, sweep, left, forgotten, failed>>
  BY DEF OpenTaskFile, jvm
<1>3. TaskDate(now) \in Dates /\ now \in Nat
  BY <1>1, Now
<1>4. /\ dump' \in DumpRec /\ dump'.at = "open" /\ dump'.file = f
      /\ dump'.unlinked = FALSE /\ dump'.date = TaskDate(now)
  BY <1>1, <1>2, <1>3 DEF Typed, DumpRec, DumpOK
<1>5. /\ f \in Dumps /\ home[f] # -1 /\ born[f] \in 0..now /\ now - born[f] <= HalfDay - 1
  BY <1>1, <1>2 DEF DumpOK
<1> HIDE DEF f
<1>6. Typed'
  BY <1>1, <1>2, <1>3, <1>4 DEF Typed
<1>7. TaskDate(born[f]) <= TaskDate(now)
  BY <1>3, <1>5, TaskDateMonotone
<1>8. ASSUME NEW t \in now..(born[f] + HalfDay - 1)
      PROVE  Today(t) < TaskDate(now)
  <2>1. t \in Nat /\ t <= now + HalfDay
    BY <1>3, <1>5, Numbers
  <2> QED BY <1>3, <2>1, TaskDateAhead
<1>9. DumpOK'
  BY <1>2, <1>4, <1>5, <1>7, <1>8 DEF DumpOK, TaskDate, Today
<1>10. FilesOK' /\ \A s \in Sweepers : SweepOK(s)'
  BY <1>1, <1>2 DEF FilesOK, SweepOK, TaskDate, Today
<1>11. ListedForDeletion'
  BY <1>1, <1>2, <1>4 DEF ListedForDeletion, f
<1> QED BY <1>6, <1>9, <1>10, <1>11 DEF IInv

\* The task file that a dump has opened is not due.
LEMMA OpenedAhead ==
  ASSUME Typed, DumpOK, dump.at = "open"
  PROVE  Today(now) < dump.date /\ dump.date \in Dates
<1>1. born[dump.file] \in 0..now /\ now - born[dump.file] <= HalfDay - 1 /\ now \in Nat
  BY Now DEF DumpOK
<1>2. now \in now..(born[dump.file] + HalfDay - 1)
  BY <1>1, Numbers
<1>3. dump \in DumpRec
  BY DEF Typed
<1> QED BY <1>2, <1>3 DEF DumpOK, DumpRec

LEMMA AppendEntryKeepsIInv ==
  ASSUME IInv, AppendEntry
  PROVE  IInv'
<1> DEFINE f == dump.file
<1>1. Typed /\ FilesOK /\ DumpOK /\ (\A s \in Sweepers : SweepOK(s)) /\ ListedForDeletion
  BY DEF IInv
<1>2. /\ dump.at = "open" /\ dump' = NoDumping
      /\ UNCHANGED <<now, up, unload, disk, born, home, dirs, taskFiles, sweep, left, forgotten, failed>>
  BY DEF AppendEntry, jvm
<1>3. entries' = [entries EXCEPT ![dump.date] = @ \cup {f}]
  BY <1>1 DEF AppendEntry, DumpOK
<1>4. f \in Dumps /\ born[f] \in 0..now /\ TaskDate(born[f]) <= dump.date
  BY <1>1, <1>2 DEF DumpOK
<1>5. Today(now) < dump.date /\ dump.date \in Dates /\ Today(now) \in Int /\ Dates \subseteq Int
      /\ now \in Nat
  BY <1>1, <1>2, OpenedAhead, Now
<1>6. entries \in [Dates -> SUBSET Dumps]
  BY <1>1 DEF Typed
<1> HIDE DEF f
<1>7. /\ entries' \in [Dates -> SUBSET Dumps]
      /\ entries'[dump.date] = entries[dump.date] \cup {f}
      /\ \A d \in Dates \ {dump.date} : entries'[d] = entries[d]
  BY <1>3, <1>4, <1>5, <1>6
<1>8. Typed'
  BY <1>1, <1>2, <1>7, Idle DEF Typed
<1>9. FilesOK'
  <2>1. born[f] # -1
    BY <1>4, <1>5
  <2> QED BY <1>1, <1>2, <1>4, <1>7, <2>1 DEF FilesOK, TaskDate, Today
<1>10. DumpOK'
  BY <1>2, Idle DEF DumpOK
<1>11. ASSUME NEW s \in Sweepers PROVE SweepOK(s)'
  <2>1. SweepOK(s) /\ sweep[s] \in SweepRec /\ Today(now)' = Today(now)
    BY <1>1, <1>2 DEF Typed, Today
  <2>2. sweep[s].date \in Dates /\ sweep[s].today \in Dates
    BY <2>1 DEF SweepRec
  <2>3. ASSUME sweep[s].at = "unlink" PROVE sweep[s].date # dump.date
    <3>1. sweep[s].date <= sweep[s].today /\ sweep[s].today <= Today(now)
      BY <2>1, <2>3 DEF SweepOK
    <3>2. sweep[s].date \in Int /\ sweep[s].today \in Int /\ dump.date \in Int
          /\ Today(now) \in Int /\ Today(now) < dump.date
      BY <1>5, <2>2
    <3> HIDE DEF f
    <3> QED BY <3>1, <3>2
  <2> QED BY <1>2, <1>7, <2>1, <2>2, <2>3 DEF SweepOK
<1>12. ListedForDeletion'
  <2>1. \A d \in Dates : entries[d] \subseteq entries'[d]
    BY <1>7
  <2> QED BY <1>1, <1>2, <1>5, <1>7, <2>1 DEF ListedForDeletion, f
<1> QED BY <1>8, <1>9, <1>10, <1>11, <1>12 DEF IInv
-----------------------------------------------------------------------------
(* Steps of a sweep *)

LEMMA OpenDueKeepsIInv ==
  ASSUME NEW s \in Sweepers, IInv, OpenDue(s)
  PROVE  IInv'
<1>1. Typed /\ FilesOK /\ DumpOK /\ (\A z \in Sweepers : SweepOK(z)) /\ ListedForDeletion
  BY DEF IInv
<1>2. PICK d \in Due(s) :
        sweep' = [sweep EXCEPT ![s] = [sweep[s] EXCEPT
                    !.at = "read", !.date = d, !.read = {}, !.seen = @ \cup {d}]]
  BY DEF OpenDue
<1>3. /\ sweep[s].at = "scan"
      /\ UNCHANGED <<now, up, unload, disk, born, home, dirs, taskFiles, entries, dump, left, forgotten, failed>>
  BY DEF OpenDue, jvm, files
<1> DEFINE r == [sweep[s] EXCEPT
              !.at = "read", !.date = d, !.read = {}, !.seen = @ \cup {d}]
<1>4. sweep \in [Sweepers -> SweepRec] /\ taskFiles \subseteq Dates
  BY <1>1 DEF Typed
<1>5. d \in Dates /\ d <= sweep[s].today
  BY <1>4 DEF Due
<1>6. /\ r \in SweepRec /\ r.at = "read" /\ r.date = d /\ r.today = sweep[s].today
      /\ r.read = {}
  <2>1. sweep[s] \in SweepRec
    BY <1>4
  <2>2. sweep[s].seen \cup {d} \in SUBSET Dates
    BY <1>5, <2>1 DEF SweepRec
  <2> QED BY <1>5, <2>1, <2>2 DEF SweepRec
<1>7. sweep' = [sweep EXCEPT ![s] = r]
  BY <1>2
<1> HIDE DEF r
<1>8. /\ sweep' \in [Sweepers -> SweepRec] /\ sweep'[s] = r
      /\ \A z \in Sweepers \ {s} : sweep'[z] = sweep[z]
  BY <1>4, <1>6, <1>7
<1>9. Typed' /\ FilesOK' /\ DumpOK' /\ ListedForDeletion'
  BY <1>1, <1>3, <1>8 DEF Typed, FilesOK, DumpOK, ListedForDeletion, TaskDate, Today
<1>10. SweepOK(s)
  BY <1>1
<1>11. SweepOK(s)'
  BY <1>3, <1>5, <1>6, <1>8, <1>10 DEF SweepOK, Today
<1>12. \A z \in Sweepers \ {s} : SweepOK(z)'
  BY <1>1, <1>3, <1>8 DEF SweepOK, Today
<1> QED BY <1>9, <1>11, <1>12 DEF IInv

\* A file that a sweep deletes was listed, so it was written long ago.
LEMMA RemovedIsListed ==
  ASSUME NEW s \in Sweepers, IInv, sweep[s].at = "read", NEW f \in Unread(s)
  PROVE  /\ f \in Dumps /\ born[f] # -1
         /\ now - born[f] > (2 * SaveDays - 1) * HalfDay
<1>1. Typed /\ FilesOK /\ SweepOK(s)
  BY DEF IInv
<1>2. sweep[s] \in SweepRec /\ entries \in [Dates -> SUBSET Dumps]
      /\ born \in [Dumps -> -1..MaxTime]
  BY <1>1 DEF Typed
<1>3. sweep[s].date \in Dates /\ f \in entries[sweep[s].date]
  BY <1>2 DEF Unread, SweepRec
<1>4. f \in Dumps /\ born[f] # -1 /\ TaskDate(born[f]) <= sweep[s].date
  BY <1>1, <1>2, <1>3 DEF FilesOK
<1>5. sweep[s].date <= sweep[s].today /\ sweep[s].today <= Today(now)
  BY <1>1 DEF SweepOK
<1>6. now \in Nat /\ born[f] \in Nat /\ born[f] \in 0..MaxTime
  BY <1>1, <1>2, <1>4, Now, Numbers
<1>7. TaskDate(born[f]) \in Int /\ sweep[s].date \in Int /\ sweep[s].today \in Int
      /\ Today(now) \in Int
  BY <1>1, <1>2, <1>6, Now, DatesOccur DEF SweepRec
<1>8. TaskDate(born[f]) <= Today(now)
  BY <1>4, <1>5, <1>7
<1> QED BY <1>4, <1>6, <1>8, DueIsOld

\* A sweep that has read a line: the file is gone or its removal has failed.
LEMMA ReadKeepsIInv ==
  ASSUME NEW s \in Sweepers, IInv, sweep[s].at = "read", NEW f \in Unread(s),
         disk' \subseteq disk, dirs' \subseteq dirs,
         failed \subseteq failed', failed' \subseteq Dumps,
         f \notin disk' \/ f \in failed',
         sweep' = [sweep EXCEPT ![s] = Read(s, f)],
         UNCHANGED <<now, up, unload, born, home, taskFiles, entries, dump, left, forgotten>>
  PROVE  IInv'
<1>1. Typed /\ FilesOK /\ DumpOK /\ (\A z \in Sweepers : SweepOK(z)) /\ ListedForDeletion
  BY DEF IInv
<1> DEFINE q == [sweep[s] EXCEPT !.read = @ \cup {f}]
           r == Read(s, f)
<1>4. sweep \in [Sweepers -> SweepRec]
  BY <1>1 DEF Typed
<1>5. f \in Dumps /\ born[f] # -1
  BY RemovedIsListed
<1>6. /\ q \in SweepRec /\ q.at = "read" /\ q.date = sweep[s].date
      /\ q.today = sweep[s].today /\ q.read = sweep[s].read \cup {f}
  <2>1. sweep[s] \in SweepRec
    BY <1>4
  <2>2. sweep[s].read \cup {f} \in SUBSET Dumps
    BY <1>5, <2>1 DEF SweepRec
  <2> QED BY <2>1, <2>2 DEF SweepRec
<1>8. r \in SweepRec /\ (r = NotSweeping \/ r = q)
  BY <1>6, Idle DEF Read
<1> HIDE DEF q, r
<1>9. /\ sweep' \in [Sweepers -> SweepRec] /\ sweep'[s] = r
      /\ \A z \in Sweepers \ {s} : sweep'[z] = sweep[z]
  BY <1>4, <1>8 DEF r
<1>10. Typed'
  BY <1>1, <1>9 DEF Typed
<1>11. FilesOK' /\ DumpOK'
  BY <1>1 DEF FilesOK, DumpOK, TaskDate, Today
<1>12. ListedForDeletion'
  BY <1>1 DEF ListedForDeletion
<1>13. SweepOK(s)'
  <2>1. CASE r = NotSweeping BY <1>9, <2>1, Idle DEF SweepOK
  <2>2. CASE r = q
    <3>1. SweepOK(s)
      BY <1>1
    <3> QED BY <1>5, <1>6, <1>9, <2>2, <3>1 DEF SweepOK, Today
  <2> QED BY <1>8, <2>1, <2>2
<1>14. ASSUME NEW z \in Sweepers \ {s} PROVE SweepOK(z)'
  <2>1. SweepOK(z) /\ sweep'[z] = sweep[z]
    BY <1>1, <1>9
  <2> QED BY <2>1 DEF SweepOK, Today
<1> QED BY <1>10, <1>11, <1>12, <1>13, <1>14 DEF IInv

LEMMA RemoveDumpFileKeepsIInv ==
  ASSUME NEW s \in Sweepers, IInv, RemoveDumpFile(s) \/ RemoveDumpFileFails(s)
  PROVE  IInv'
<1>1. Typed
  BY DEF IInv
<1>2. disk \subseteq Dumps /\ failed \subseteq Dumps
  BY <1>1 DEF Typed
<1>3. CASE RemoveDumpFile(s)
  <2>1. PICK f \in Unread(s) :
          /\ disk' = disk \ {f}
          /\ dirs' = IF f \in disk /\ \A g \in disk \ {f} : home[g] # home[f]
                       THEN dirs \ {home[f]} ELSE dirs
          /\ sweep' = [sweep EXCEPT ![s] = Read(s, f)]
    BY <1>3 DEF RemoveDumpFile
  <2>2. /\ sweep[s].at = "read"
        /\ UNCHANGED <<now, up, unload, born, home, taskFiles, entries, dump, left, forgotten, failed>>
    BY <1>3 DEF RemoveDumpFile, jvm
  <2>3. disk' \subseteq disk /\ dirs' \subseteq dirs /\ f \notin disk'
    BY <2>1
  <2> QED BY <1>2, <2>1, <2>2, <2>3, ReadKeepsIInv
<1>4. CASE RemoveDumpFileFails(s)
  <2>1. PICK f \in Unread(s) \cap disk :
          failed' = failed \cup {f} /\ sweep' = [sweep EXCEPT ![s] = Read(s, f)]
    BY <1>4 DEF RemoveDumpFileFails
  <2>2. /\ sweep[s].at = "read"
        /\ UNCHANGED <<now, up, unload, disk, dirs, born, home, taskFiles, entries, dump, left, forgotten>>
    BY <1>4 DEF RemoveDumpFileFails, jvm, files
  <2>3. /\ disk' \subseteq disk /\ dirs' \subseteq dirs /\ f \in Unread(s)
        /\ failed \subseteq failed' /\ failed' \subseteq Dumps /\ f \in failed'
    BY <1>2, <2>1, <2>2
  <2> QED BY <2>1, <2>2, <2>3, ReadKeepsIInv
<1> QED BY <1>3, <1>4

\* Steps that change nothing but how far a sweep has come.
LEMMA SweepMovesKeepsIInv ==
  ASSUME NEW s \in Sweepers, IInv, NEW r \in SweepRec,
         sweep' = [sweep EXCEPT ![s] = r],
         UNCHANGED <<now, disk, born, home, dirs, taskFiles, entries, dump, forgotten, failed>>,
         up' \in BOOLEAN, unload' \in BOOLEAN, left' \in 0..SleepTime,
         r.at # "idle" => r.today <= Today(now),
         r.at \in {"read", "unlink"} => r.date <= r.today,
         \A f \in r.read : (f \notin disk \/ f \in failed) /\ born[f] # -1,
         r.at = "unlink" => entries[r.date] \cap disk \subseteq failed
  PROVE  IInv'
<1>1. Typed /\ FilesOK /\ DumpOK /\ (\A z \in Sweepers : SweepOK(z)) /\ ListedForDeletion
  BY DEF IInv
<1>2. sweep \in [Sweepers -> SweepRec]
  BY <1>1 DEF Typed
<1>3. /\ sweep' \in [Sweepers -> SweepRec] /\ sweep'[s] = r
      /\ \A z \in Sweepers \ {s} : sweep'[z] = sweep[z]
  BY <1>2
<1>4. Typed'
  BY <1>1, <1>3 DEF Typed
<1>5. FilesOK' /\ DumpOK' /\ ListedForDeletion'
  BY <1>1 DEF FilesOK, DumpOK, ListedForDeletion, TaskDate, Today
<1>6. SweepOK(s)'
  BY <1>3 DEF SweepOK, Today
<1>7. \A z \in Sweepers \ {s} : SweepOK(z)'
  BY <1>1, <1>3 DEF SweepOK, Today
<1> QED BY <1>4, <1>5, <1>6, <1>7 DEF IInv

\* A sweep that has come to the end of a task file has deleted all it lists, or
\* failed to.
LEMMA CloseTaskFileKeepsIInv ==
  ASSUME NEW s \in Sweepers, IInv, CloseTaskFile(s)
  PROVE  IInv'
<1> DEFINE q == [sweep[s] EXCEPT !.at = "unlink"]
           r == IF unload THEN NotSweeping ELSE q
<1>1. /\ sweep[s].at = "read" /\ Unread(s) = {}
      /\ sweep' = [sweep EXCEPT ![s] = r]
      /\ UNCHANGED <<now, up, unload, disk, born, home, dirs, taskFiles, entries, dump, left, forgotten, failed>>
  BY DEF CloseTaskFile, jvm, files
<1>2. Typed /\ SweepOK(s)
  BY DEF IInv
<1>3. sweep[s] \in SweepRec /\ up \in BOOLEAN /\ unload \in BOOLEAN /\ left \in 0..SleepTime
  BY <1>2 DEF Typed
<1>4. /\ q \in SweepRec /\ q.at = "unlink" /\ q.date = sweep[s].date
      /\ q.today = sweep[s].today /\ q.read = sweep[s].read
  BY <1>3 DEF SweepRec
<1>5. entries[sweep[s].date] \cap disk \subseteq failed
  BY <1>1, <1>2 DEF Unread, SweepOK
<1> HIDE DEF q
<1>6. CASE unload
  <2>1. r = NotSweeping
    BY <1>6
  <2> QED BY <1>1, <1>3, <2>1, Idle, SweepMovesKeepsIInv
<1>7. CASE ~unload
  <2>1. r = q
    BY <1>7
  <2>2. /\ q.today <= Today(now) /\ q.date <= q.today
        /\ \A f \in q.read : (f \notin disk \/ f \in failed) /\ born[f] # -1
    BY <1>1, <1>2, <1>4 DEF SweepOK
  <2>3. sweep' = [sweep EXCEPT ![s] = q]
    BY <1>1, <2>1
  <2> QED BY <1>1, <1>3, <1>4, <1>5, <2>2, <2>3, SweepMovesKeepsIInv
<1> QED BY <1>6, <1>7

LEMMA RemoveTaskFileKeepsIInv ==
  ASSUME NEW s \in Sweepers, IInv, RemoveTaskFile(s)
  PROVE  IInv'
<1> DEFINE d == sweep[s].date
           q == [sweep[s] EXCEPT !.at = "scan"]
           r == IF unload THEN NotSweeping ELSE q
<1>1. Typed /\ FilesOK /\ DumpOK /\ (\A z \in Sweepers : SweepOK(z)) /\ ListedForDeletion
  BY DEF IInv
<1>2. /\ sweep[s].at = "unlink"
      /\ \/ /\ taskFiles' = taskFiles \ {d}
            /\ entries' = [entries EXCEPT ![d] = {}]
            /\ dump' = [dump EXCEPT !.unlinked = @ \/ (dump.at = "open" /\ dump.date = d)]
         \/ UNCHANGED <<taskFiles, entries, dump>>
      /\ sweep' = [sweep EXCEPT ![s] = r]
      /\ UNCHANGED <<now, up, unload, disk, born, home, dirs, left, forgotten, failed>>
  BY DEF RemoveTaskFile, jvm
<1>3. sweep \in [Sweepers -> SweepRec] /\ entries \in [Dates -> SUBSET Dumps] /\ dump \in DumpRec
  BY <1>1 DEF Typed
<1>4. sweep[s] \in SweepRec /\ d \in Dates /\ sweep[s].today \in Dates
  BY <1>3 DEF SweepRec
<1>5. /\ q \in SweepRec /\ q.at = "scan" /\ q.today = sweep[s].today /\ q.read = sweep[s].read
  BY <1>4 DEF SweepRec
<1>6. d <= sweep[s].today /\ sweep[s].today <= Today(now) /\ entries[d] \cap disk \subseteq failed
  BY <1>1, <1>2 DEF SweepOK
<1>7. Today(now) \in Int /\ d \in Int /\ sweep[s].today \in Int
  BY <1>1, <1>4, Now
<1> HIDE DEF d, q
<1>8. ~(dump.at = "open" /\ dump.date = d)
  <2> SUFFICES ASSUME dump.at = "open", dump.date = d PROVE FALSE
    OBVIOUS
  <2>1. Today(now) < dump.date
    BY <1>1, OpenedAhead
  <2> QED BY <1>6, <1>7, <2>1
<1>9. dump' = dump
  <2>1. dump.unlinked = FALSE
    BY <1>1 DEF DumpOK
  <2>2. (dump.unlinked \/ (dump.at = "open" /\ dump.date = d)) = FALSE
    BY <1>8, <2>1
  <2>3. dump' = [dump EXCEPT !.unlinked = FALSE] \/ dump' = dump
    BY <1>2, <2>2
  <2>4. [dump EXCEPT !.unlinked = FALSE] = dump
    BY <1>3, <2>1 DEF DumpRec
  <2> QED BY <2>3, <2>4
<1>10. r \in SweepRec /\ (r = NotSweeping \/ r = q)
  BY <1>5, Idle
<1> HIDE DEF r
<1>11. /\ sweep' \in [Sweepers -> SweepRec] /\ sweep'[s] = r
       /\ \A z \in Sweepers \ {s} : sweep'[z] = sweep[z]
  BY <1>2, <1>3, <1>10
<1>12. /\ entries' \in [Dates -> SUBSET Dumps] /\ entries'[d] \subseteq entries[d]
       /\ taskFiles' \subseteq taskFiles
       /\ \A e \in Dates \ {d} : entries'[e] = entries[e]
  BY <1>2, <1>3, <1>4
<1>13. \A e \in Dates : entries'[e] \subseteq entries[e]
  BY <1>12
<1>14. Typed'
  BY <1>1, <1>2, <1>9, <1>11, <1>12 DEF Typed
<1>15. FilesOK' /\ DumpOK'
  BY <1>1, <1>2, <1>9, <1>13 DEF FilesOK, DumpOK, TaskDate, Today
<1>16. ListedForDeletion'
  BY <1>1, <1>2, <1>6, <1>9, <1>12 DEF ListedForDeletion
<1>17. SweepOK(s)'
  <2>1. CASE r = NotSweeping BY <1>11, <2>1, Idle DEF SweepOK
  <2>2. CASE r = q
    <3>1. SweepOK(s)
      BY <1>1
    <3> QED BY <1>2, <1>5, <1>11, <2>2, <3>1 DEF SweepOK, Today
  <2> QED BY <1>10, <2>1, <2>2
<1>18. ASSUME NEW z \in Sweepers \ {s} PROVE SweepOK(z)'
  <2>1. sweep[z].date \in Dates /\ SweepOK(z)
    BY <1>1, <1>3 DEF SweepRec
  <2> QED BY <1>2, <1>11, <1>13, <2>1 DEF SweepOK, Today
<1> QED BY <1>14, <1>15, <1>16, <1>17, <1>18 DEF IInv

LEMMA OpenDueFailsKeepsIInv ==
  ASSUME NEW s \in Sweepers, IInv, OpenDueFails(s)
  PROVE  IInv'
<1>1. PICK d \in Due(s) :
        sweep' = [sweep EXCEPT ![s] = IF unload THEN NotSweeping
                                        ELSE [sweep[s] EXCEPT !.seen = @ \cup {d}]]
  BY DEF OpenDueFails
<1>2. /\ sweep[s].at = "scan"
      /\ UNCHANGED <<now, up, unload, disk, born, home, dirs, taskFiles, entries, dump, left, forgotten, failed>>
  BY DEF OpenDueFails, jvm, files
<1> DEFINE q == [sweep[s] EXCEPT !.seen = @ \cup {d}]
<1>3. Typed /\ SweepOK(s)
  BY DEF IInv
<1>4. /\ sweep[s] \in SweepRec /\ up \in BOOLEAN /\ unload \in BOOLEAN
      /\ left \in 0..SleepTime /\ d \in Dates
  BY <1>3 DEF Typed, Due
<1>5. /\ q \in SweepRec /\ q.at = "scan" /\ q.today = sweep[s].today
      /\ q.read = sweep[s].read
  BY <1>2, <1>4 DEF SweepRec
<1>6. CASE unload
  <2>1. sweep' = [sweep EXCEPT ![s] = NotSweeping]
    BY <1>1, <1>6
  <2> QED BY <1>2, <1>4, <2>1, Idle, SweepMovesKeepsIInv
<1>7. CASE ~unload
  <2>1. sweep' = [sweep EXCEPT ![s] = q]
    BY <1>1, <1>7
  <2>2. /\ q.today <= Today(now)
        /\ \A f \in q.read : (f \notin disk \/ f \in failed) /\ born[f] # -1
    BY <1>2, <1>3, <1>5 DEF SweepOK
  <2> HIDE DEF q
  <2> QED BY <1>2, <1>4, <1>5, <2>1, <2>2, SweepMovesKeepsIInv
<1> QED BY <1>6, <1>7

LEMMA FinishSweepKeepsIInv ==
  ASSUME NEW s \in Sweepers, IInv, FinishSweep(s)
  PROVE  IInv'
<1>1. /\ sweep' = [sweep EXCEPT ![s] = NotSweeping]
      /\ UNCHANGED <<now, up, unload, disk, born, home, dirs, taskFiles, entries, dump, left, forgotten, failed>>
  BY DEF FinishSweep, jvm, files
<1>2. up \in BOOLEAN /\ unload \in BOOLEAN /\ left \in 0..SleepTime
  BY DEF IInv, Typed
<1> QED BY <1>1, <1>2, Idle, SweepMovesKeepsIInv

LEMMA BeginRec ==
  ASSUME Typed
  PROVE  LET b == [NotSweeping EXCEPT !.at = "scan", !.today = Today(now)]
         IN  /\ b \in SweepRec /\ b.at = "scan" /\ b.today = Today(now) /\ b.read = {}
             /\ Today(now) <= Today(now)
<1>1. Today(now) \in Dates /\ Today(now) \in Int
  BY Now
<1> DEFINE b == [NotSweeping EXCEPT !.at = "scan", !.today = Today(now)]
<1>2. b \in SweepRec /\ b.at = "scan" /\ b.today = Today(now) /\ b.read = {}
  BY <1>1, Idle DEF SweepRec
<1> QED BY <1>1, <1>2

LEMMA MonitorThreadWakesKeepsIInv ==
  ASSUME IInv, MonitorThreadWakes
  PROVE  IInv'
<1>1. UNCHANGED <<now, up, unload, disk, born, home, dirs, taskFiles, entries, dump, forgotten, failed>>
      /\ left' = SleepTime
  BY DEF MonitorThreadWakes, jvm, files
<1>2. Typed /\ up \in BOOLEAN /\ unload \in BOOLEAN /\ SleepTime \in 0..SleepTime
      /\ "monitorThread" \in Sweepers
  BY Numbers DEF IInv, Typed, Sweepers
<1>3. CASE Begin("monitorThread")
  <2> DEFINE b == [NotSweeping EXCEPT !.at = "scan", !.today = Today(now)]
  <2>1. sweep' = [sweep EXCEPT !["monitorThread"] = b]
    BY <1>3 DEF Begin
  <2>2. b \in SweepRec /\ b.at = "scan" /\ b.today <= Today(now) /\ b.read = {}
    BY <1>2, BeginRec
  <2> HIDE DEF b
  <2> QED BY <1>1, <1>2, <2>1, <2>2, SweepMovesKeepsIInv
<1>4. CASE UNCHANGED sweep
  <2>1. Typed'
    BY <1>1, <1>2, <1>4 DEF IInv, Typed
  <2> QED BY <1>1, <1>4, <2>1
          DEF IInv, FilesOK, DumpOK, SweepOK, ListedForDeletion, TaskDate, Today
<1> QED BY <1>3, <1>4 DEF MonitorThreadWakes
-----------------------------------------------------------------------------
(* The clock and the JVM *)

LEMMA TickKeepsIInv ==
  ASSUME IInv, Tick
  PROVE  IInv'
<1>1. Typed /\ FilesOK /\ DumpOK /\ (\A s \in Sweepers : SweepOK(s)) /\ ListedForDeletion
  BY DEF IInv
<1>2. /\ now < MaxTime /\ now' = now + 1
      /\ dump.at \in {"written", "open"} => now - born[dump.file] < HalfDay - 1
      /\ left' = IF left > 0 THEN left - 1 ELSE 0
      /\ UNCHANGED <<up, unload, disk, born, home, dirs, taskFiles, entries, dump, sweep, forgotten, failed>>
  BY DEF Tick, jvm, files
<1>3. now \in Nat /\ now' \in 0..MaxTime /\ now' \in Nat
  BY <1>1, <1>2, Now, Numbers DEF Typed
<1>4. Today(now) \in Nat /\ Today(now)' \in Nat /\ Today(now) <= Today(now)'
  BY <1>2, <1>3, TodayMonotone DEF Today
<1>5. Typed'
  BY <1>1, <1>2, <1>3, Numbers DEF Typed
<1>6. FilesOK' /\ ListedForDeletion'
  BY <1>1, <1>2 DEF FilesOK, ListedForDeletion, TaskDate, Today
<1>7. DumpOK'
  <2>1. ASSUME dump.at \in {"written", "open"}
        PROVE  /\ born[dump.file] \in 0..now' /\ now' - born[dump.file] <= HalfDay - 1
               /\ now'..(born[dump.file] + HalfDay - 1) \subseteq now..(born[dump.file] + HalfDay - 1)
    BY <1>1, <1>2, <1>3, <2>1, Numbers DEF DumpOK
  <2> QED BY <1>1, <1>2, <2>1 DEF DumpOK, TaskDate, Today
<1>8. ASSUME NEW s \in Sweepers PROVE SweepOK(s)'
  <2>1. SweepOK(s) /\ sweep[s].today \in Int
    BY <1>1 DEF Typed, SweepRec, Dates
  <2>2. sweep[s].today <= Today(now) => sweep[s].today <= Today(now)'
    BY <1>4, <2>1
  <2> QED BY <1>2, <2>1, <2>2 DEF SweepOK
<1> QED BY <1>5, <1>6, <1>7, <1>8 DEF IInv

LEMMA StopKeepsIInv ==
  ASSUME IInv, Stop
  PROVE  IInv'
<1>1. Typed /\ FilesOK /\ DumpOK /\ ListedForDeletion
  BY DEF IInv
<1>2. /\ up' = FALSE /\ unload' = FALSE /\ dump' = NoDumping
      /\ sweep' = [s \in Sweepers |-> NotSweeping]
      /\ forgotten' = IF dump.at \in {"written", "open"} THEN forgotten \cup {dump.file}
                        ELSE forgotten
      /\ UNCHANGED <<now, disk, born, home, dirs, taskFiles, entries, left, failed>>
  BY DEF Stop, files
<1>3. dump.at \in {"written", "open"} => dump.file \in Dumps
  BY <1>1 DEF DumpOK
<1>4. Typed'
  <2>1. sweep' \in [Sweepers -> SweepRec] /\ dump' \in DumpRec
    BY <1>2, Idle
  <2> QED BY <1>1, <1>2, <1>3, <2>1 DEF Typed
<1>5. FilesOK' /\ DumpOK'
  BY <1>1, <1>2, Idle DEF FilesOK, DumpOK, TaskDate, Today
<1>6. \A s \in Sweepers : SweepOK(s)'
  BY <1>2, Idle DEF SweepOK
<1>7. ListedForDeletion'
  <2>1. \A f \in disk : dump.file = f => dump.at \in {"written", "open"}
    <3>1. disk \subseteq Dumps /\ NoDump \notin Dumps
      BY <1>1, DeletionAssumption DEF Typed, DeletionAssumption
    <3>2. \A f \in disk : dump.file = f => dump.at # "dir" /\ dump.at # "idle"
      BY <1>1, <3>1 DEF DumpOK, FilesOK
    <3>3. dump.at \in {"idle", "dir", "written", "open"}
      BY <1>1 DEF Typed, DumpRec
    <3> QED BY <3>2, <3>3
  <2> QED BY <1>1, <1>2, <2>1 DEF ListedForDeletion
<1> QED BY <1>4, <1>5, <1>6, <1>7 DEF IInv

LEMMA StartKeepsIInv ==
  ASSUME IInv, Start
  PROVE  IInv'
<1> DEFINE b == [NotSweeping EXCEPT !.at = "scan", !.today = Today(now)]
<1>1. /\ sweep' = [sweep EXCEPT !["vmInit"] = b] /\ up' = TRUE /\ left' = SleepTime
      /\ UNCHANGED <<now, unload, disk, born, home, dirs, taskFiles, entries, dump, forgotten, failed>>
  BY DEF Start, Begin, files
<1>2. Typed /\ unload \in BOOLEAN /\ SleepTime \in 0..SleepTime /\ "vmInit" \in Sweepers
  BY Numbers DEF IInv, Typed, Sweepers
<1>3. b \in SweepRec /\ b.at = "scan" /\ b.today <= Today(now) /\ b.read = {}
  BY <1>2, BeginRec
<1> HIDE DEF b
<1> QED BY <1>1, <1>2, <1>3, SweepMovesKeepsIInv

LEMMA StutterKeepsIInv ==
  ASSUME IInv, Unload \/ UNCHANGED vars
  PROVE  IInv'
<1>1. UNCHANGED <<now, up, disk, born, home, dirs, taskFiles, entries, dump, sweep, left, forgotten, failed>>
  BY DEF Unload, vars, files, jvm
<1>2. unload' \in BOOLEAN
  BY DEF IInv, Typed, Unload, vars, jvm
<1>3. Typed'
  BY <1>1, <1>2 DEF IInv, Typed
<1> QED BY <1>1, <1>3 DEF IInv, FilesOK, DumpOK, SweepOK, ListedForDeletion, TaskDate, Today
-----------------------------------------------------------------------------
(* Theorems *)

\* The invariant that everything rests on.
THEOREM IInvHolds == Spec => []IInv
<1>1. IInv /\ [Next]_vars => IInv'
  <2> SUFFICES ASSUME IInv, [Next]_vars PROVE IInv'
    OBVIOUS
  <2>1. ASSUME NEW f \in Dumps, MakeDumpDir(f) PROVE IInv'
    BY <2>1, MakeDumpDirKeepsIInv
  <2>2. CASE WriteDump BY <2>2, WriteDumpKeepsIInv
  <2>3. CASE OpenTaskFile BY <2>3, OpenTaskFileKeepsIInv
  <2>4. CASE AppendEntry BY <2>4, AppendEntryKeepsIInv
  <2>5. ASSUME NEW s \in Sweepers,
               \/ OpenDue(s) \/ OpenDueFails(s) \/ RemoveDumpFile(s) \/ RemoveDumpFileFails(s)
               \/ CloseTaskFile(s) \/ RemoveTaskFile(s) \/ FinishSweep(s)
        PROVE  IInv'
    BY <2>5, OpenDueKeepsIInv, OpenDueFailsKeepsIInv, RemoveDumpFileKeepsIInv, CloseTaskFileKeepsIInv,
       RemoveTaskFileKeepsIInv, FinishSweepKeepsIInv
  <2>6. CASE MonitorThreadWakes BY <2>6, MonitorThreadWakesKeepsIInv
  <2>7. CASE Tick BY <2>7, TickKeepsIInv
  <2>8. CASE Stop BY <2>8, StopKeepsIInv
  <2>9. CASE Start BY <2>9, StartKeepsIInv
  <2>10. CASE Unload \/ UNCHANGED vars BY <2>10, StutterKeepsIInv
  <2>11. CASE RegistrationFails BY <2>11, RegistrationFailsKeepsIInv
  <2> QED
    BY <2>1, <2>2, <2>3, <2>4, <2>5, <2>6, <2>7, <2>8, <2>9, <2>10, <2>11 DEF Next
<1> QED BY <1>1, InitIInv, PTL DEF Spec

\* The variables always have their types.
THEOREM TypesHold == Spec => []TypeOK
<1>1. IInv => TypeOK
  BY DEF IInv, Typed, TypeOK, DumpRec, SweepRec
<1> QED BY <1>1, IInvHolds, PTL

\* Though names are appended to task files without a lock, no dump file is lost to
\* the deletion but by a kill between its writing and its registration, or by a
\* failed call of its own registration or removal.
THEOREM StaysListedForDeletion == Spec => []ListedForDeletion
<1>1. IInv => ListedForDeletion
  BY DEF IInv
<1> QED BY <1>1, IInvHolds, PTL

\* Whoever sweeps, a dump file is only deleted when its days, but for half a
\* day, are over.
THEOREM NeverDeletedEarly == Spec => NotDeletedEarly
<1>1. IInv /\ [Next]_vars =>
        [\A f \in disk : f \notin disk' => now - born[f] > (2 * SaveDays - 1) * HalfDay]_vars
  <2> SUFFICES ASSUME IInv, Next, NEW f \in disk, f \notin disk'
               PROVE  now - born[f] > (2 * SaveDays - 1) * HalfDay
    OBVIOUS
  <2>1. PICK s \in Sweepers : RemoveDumpFile(s)
    BY DEF Next, MakeDumpDir, WriteDump, OpenTaskFile, AppendEntry, RegistrationFails,
           OpenDue, OpenDueFails, RemoveDumpFileFails, CloseTaskFile,
           RemoveTaskFile, FinishSweep, MonitorThreadWakes, Tick, Unload, Stop, Start, files
  <2>2. sweep[s].at = "read" /\ f \in Unread(s)
    BY <2>1 DEF RemoveDumpFile
  <2> QED BY <2>2, RemovedIsListed
<1> QED BY <1>1, IInvHolds, PTL DEF NotDeletedEarly, Spec
=============================================================================
