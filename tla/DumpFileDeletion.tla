-------------------------- MODULE DumpFileDeletion --------------------------
(***************************************************************************)
(* The automatic deletion of dump files.  A dump makes its directory,      *)
(* writes its file and appends the file's name to the task file of the day *)
(* on which it is to be deleted.  vmInitCallBack and monitorThread go      *)
(* through the task files that are due, delete the files they name with    *)
(* the directories that become empty, and then the task file.  Nothing     *)
(* orders these three but the clock: the fcntl lock of a task file only    *)
(* excludes other processes, and the dump does not take it.                *)
(*                                                                         *)
(* Time is counted in ticks from a midnight, HalfDay of them to 12 hours.  *)
(***************************************************************************)
EXTENDS Integers

CONSTANTS
  Dumps,     \* dump files
  NoDump,    \* no file
  SaveDays,  \* OutputSetting::saveDays, not 0
  HalfDay,   \* ticks from midnight to noon
  SleepTime, \* ticks between two looks of monitorThread at its file
  MaxTime    \* bound: the end of the clock

ASSUME DeletionAssumption ==
  /\ NoDump \notin Dumps
  /\ SaveDays \in Nat \ {0}
  /\ HalfDay \in Nat \ {0}
  /\ SleepTime \in Nat \ {0}
  /\ MaxTime \in Nat /\ MaxTime >= 2 * HalfDay - 1

VARIABLES
  now,       \* the clock
  up,        \* does the JVM run?
  unload,    \* Global::isJVMToUnload
  disk,      \* the dump files that exist
  born,      \* when each was written, or -1
  home,      \* the day of the directory that each was made for, or -1
  dirs,      \* the days whose directory exists
  taskFiles, \* the days whose task file exists
  entries,   \* what the task file of each day lists
  dump,      \* the dump in progress
  sweep,     \* how far each sweep has come
  left,      \* ticks until monitorThread looks again
  forgotten, \* history: files whose registration was cut off by a crash
  failed     \* history: files whose registration or deletion failed

files == <<disk, born, home, dirs, taskFiles, entries>>
jvm   == <<up, unload>>
vars  == <<now, jvm, files, dump, sweep, left, forgotten, failed>>

Sweepers == {"vmInit", "monitorThread"}

Day == 2 * HalfDay
Today(t) == t \div Day
Dates == 0..(Today(MaxTime + HalfDay) + SaveDays)

NoDumping == [at |-> "idle", file |-> NoDump, date |-> 0, unlinked |-> FALSE]
NotSweeping == [at |-> "idle", today |-> 0, date |-> 0, seen |-> {}, read |-> {}]

\* The JVM starts at any time of the first day.
Init ==
  /\ now \in 0..(Day - 1)
  /\ up = TRUE
  /\ unload = FALSE
  /\ disk = {}
  /\ born = [f \in Dumps |-> -1]
  /\ home = [f \in Dumps |-> -1]
  /\ dirs = {}
  /\ taskFiles = {}
  /\ entries = [d \in Dates |-> {}]
  /\ dump = NoDumping
  /\ sweep = [s \in Sweepers |-> NotSweeping]
  /\ left = SleepTime
  /\ forgotten = {}
  /\ failed = {}

-----------------------------------------------------------------------------
(* A dump; configMonitor admits one at a time *)

\* makeDumpDir
MakeDumpDir(f) ==
  /\ up /\ dump.at = "idle"
  /\ home[f] = -1
  /\ home' = [home EXCEPT ![f] = Today(now)]
  /\ dirs' = dirs \cup {Today(now)}
  /\ dump' = [dump EXCEPT !.at = "dir", !.file = f]
  /\ UNCHANGED <<now, jvm, disk, born, taskFiles, entries, sweep, left, forgotten, failed>>

\* OutputToFile::writeToFile fails if the file cannot be opened, as when its
\* directory does not exist any more.
WriteDump ==
  LET f == dump.file IN
  /\ up /\ dump.at = "dir"
  /\ \/ /\ home[f] \in dirs
        /\ disk' = disk \cup {f}
        /\ born' = [born EXCEPT ![f] = now]
        /\ dump' = [dump EXCEPT !.at = "written"]
     \/ /\ dump' = NoDumping
        /\ UNCHANGED <<disk, born>>
  /\ UNCHANGED <<now, jvm, home, dirs, taskFiles, entries, sweep, left, forgotten, failed>>

\* Mutant: the half day is not added.
TaskDateCutOff(t) == Today(t + SaveDays * Day)

\* Mutant: the days are added twice.
TaskDateTwice(t) == Today(t + 2 * SaveDays * Day + HalfDay)

\* getAutoDelListFileName
TaskDate(t) == Today(t + SaveDays * Day + HalfDay)

\* appendAutoDelFileName: fopen(.., "a+") makes the task file if need be,
OpenTaskFile ==
  /\ up /\ dump.at = "written"
  /\ taskFiles' = taskFiles \cup {TaskDate(now)}
  /\ dump' = [dump EXCEPT !.at = "open", !.date = TaskDate(now)]
  /\ UNCHANGED <<now, jvm, disk, born, home, dirs, entries, sweep, left, forgotten, failed>>

\* and fwrite reaches the file that was opened, whether it still has its name or not.
AppendEntry ==
  /\ up /\ dump.at = "open"
  /\ entries' = IF dump.unlinked THEN entries
                  ELSE [entries EXCEPT ![dump.date] = @ \cup {dump.file}]
  /\ dump' = NoDumping
  /\ UNCHANGED <<now, jvm, disk, born, home, dirs, taskFiles, sweep, left, forgotten, failed>>

\* The directory of the task files cannot be made or the task file not be opened,
\* which is logged, or its fwrite fails, which is not even looked at: the dump
\* file stays where it is.
RegistrationFails ==
  /\ up /\ dump.at \in {"written", "open"}
  /\ failed' = failed \cup {dump.file}
  /\ dump' = NoDumping
  /\ UNCHANGED <<now, jvm, disk, born, home, dirs, taskFiles, entries, sweep, left, forgotten>>

-----------------------------------------------------------------------------
(* doOldTaskOfDelDumpFile and delDumpFile *)

Sweeping(s) == sweep[s].at # "idle"

Begin(s) ==
  sweep' = [sweep EXCEPT ![s] = [NotSweeping EXCEPT !.at = "scan", !.today = Today(now)]]

\* strncmp(d_name, pCurrentTime, 8) <= 0
Due(s) == {d \in taskFiles \ sweep[s].seen : d <= sweep[s].today}

OpenDue(s) ==
  /\ up /\ sweep[s].at = "scan"
  /\ \E d \in Due(s) :
       sweep' = [sweep EXCEPT ![s] = [sweep[s] EXCEPT !.at = "read", !.date = d,
                                                      !.read = {}, !.seen = @ \cup {d}]]
  /\ UNCHANGED <<now, jvm, files, dump, left, forgotten, failed>>

\* The task file cannot be opened or locked: it stays for a later sweep.
OpenDueFails(s) ==
  /\ up /\ sweep[s].at = "scan"
  /\ \E d \in Due(s) :
       sweep' = [sweep EXCEPT ![s] = IF unload THEN NotSweeping
                                       ELSE [sweep[s] EXCEPT !.seen = @ \cup {d}]]
  /\ UNCHANGED <<now, jvm, files, dump, left, forgotten, failed>>

Unread(s) == entries[sweep[s].date] \ sweep[s].read

Read(s, f) ==
  IF unload THEN NotSweeping ELSE [sweep[s] EXCEPT !.read = @ \cup {f}]

\* removeDumpFile deletes the file and the directory that it leaves empty.  The
\* end of the JVM ends the sweep after the line.
RemoveDumpFile(s) ==
  /\ up /\ sweep[s].at = "read"
  /\ \E f \in Unread(s) :
       /\ disk' = disk \ {f}
       /\ dirs' = IF f \in disk /\ \A g \in disk \ {f} : home[g] # home[f]
                    THEN dirs \ {home[f]} ELSE dirs
       /\ sweep' = [sweep EXCEPT ![s] = Read(s, f)]
  /\ UNCHANGED <<now, jvm, born, home, taskFiles, entries, dump, left, forgotten, failed>>

\* remove() fails, which is not looked at: the sweep goes on to the next line.
RemoveDumpFileFails(s) ==
  /\ up /\ sweep[s].at = "read"
  /\ \E f \in Unread(s) \cap disk :
       /\ failed' = failed \cup {f}
       /\ sweep' = [sweep EXCEPT ![s] = Read(s, f)]
  /\ UNCHANGED <<now, jvm, files, dump, left, forgotten>>

\* Mutant: at the end of the JVM the task file goes although it is not read through.
CloseTaskFileUnread(s) ==
  /\ up /\ sweep[s].at = "read"
  /\ Unread(s) = {} \/ unload
  /\ sweep' = [sweep EXCEPT ![s] = [@ EXCEPT !.at = "unlink"]]
  /\ UNCHANGED <<now, jvm, files, dump, left, forgotten, failed>>

\* At the end of the file it is unlocked and closed,
CloseTaskFile(s) ==
  /\ up /\ sweep[s].at = "read"
  /\ Unread(s) = {}
  /\ sweep' = [sweep EXCEPT ![s] = IF unload THEN NotSweeping ELSE [@ EXCEPT !.at = "unlink"]]
  /\ UNCHANGED <<now, jvm, files, dump, left, forgotten, failed>>

\* and then deleted by its name, or left for a later sweep if that fails.
RemoveTaskFile(s) ==
  LET d == sweep[s].date IN
  /\ up /\ sweep[s].at = "unlink"
  /\ \/ /\ taskFiles' = taskFiles \ {d}
        /\ entries' = [entries EXCEPT ![d] = {}]
        /\ dump' = [dump EXCEPT !.unlinked = @ \/ (dump.at = "open" /\ dump.date = d)]
     \/ UNCHANGED <<taskFiles, entries, dump>>
  /\ sweep' = [sweep EXCEPT ![s] = IF unload THEN NotSweeping ELSE [@ EXCEPT !.at = "scan"]]
  /\ UNCHANGED <<now, jvm, disk, born, home, dirs, left, forgotten, failed>>

FinishSweep(s) ==
  /\ up /\ sweep[s].at = "scan"
  /\ Due(s) = {}
  /\ sweep' = [sweep EXCEPT ![s] = NotSweeping]
  /\ UNCHANGED <<now, jvm, files, dump, left, forgotten, failed>>

\* monitorThread wakes: it sweeps in the second of noon or midnight, and after it
\* has read a changed configuration file.
MonitorThreadWakes ==
  /\ up /\ left = 0 /\ ~Sweeping("monitorThread")
  /\ left' = SleepTime
  /\ \/ Begin("monitorThread") /\ UNCHANGED <<now, jvm, files, dump, forgotten, failed>>
     \/ now % HalfDay # 0 /\ UNCHANGED <<now, jvm, files, dump, sweep, forgotten, failed>>

-----------------------------------------------------------------------------
(* The clock and the JVM *)

\* A dump is registered within half a day of being written.  monitorThread does
\* not run late, which is the best case.
Tick ==
  /\ now < MaxTime
  /\ dump.at \in {"written", "open"} => now - born[dump.file] < HalfDay - 1
  /\ up => left > 0 \/ Sweeping("monitorThread")
  /\ now' = now + 1
  /\ left' = IF left > 0 THEN left - 1 ELSE 0
  /\ UNCHANGED <<jvm, files, dump, sweep, forgotten, failed>>

Unload ==
  /\ up
  /\ unload' = TRUE
  /\ UNCHANGED <<now, up, files, dump, sweep, left, forgotten, failed>>

\* The process ends or is killed, whatever it is doing.
Stop ==
  /\ up
  /\ up' = FALSE
  /\ unload' = FALSE
  /\ dump' = NoDumping
  /\ sweep' = [s \in Sweepers |-> NotSweeping]
  /\ forgotten' = IF dump.at \in {"written", "open"} THEN forgotten \cup {dump.file}
                    ELSE forgotten
  /\ UNCHANGED <<now, files, left, failed>>

\* vmInitCallBack starts monitorThread and sweeps at once.
Start ==
  /\ ~up
  /\ up' = TRUE
  /\ left' = SleepTime
  /\ Begin("vmInit")
  /\ UNCHANGED <<now, unload, files, dump, forgotten, failed>>

Next ==
  \/ \E f \in Dumps : MakeDumpDir(f)
  \/ WriteDump \/ OpenTaskFile \/ AppendEntry \/ RegistrationFails
  \/ \E s \in Sweepers :
       \/ OpenDue(s) \/ OpenDueFails(s) \/ RemoveDumpFile(s) \/ RemoveDumpFileFails(s)
       \/ CloseTaskFile(s) \/ RemoveTaskFile(s) \/ FinishSweep(s)
  \/ MonitorThreadWakes
  \/ Tick \/ Unload \/ Stop \/ Start

Spec == Init /\ [][Next]_vars

-----------------------------------------------------------------------------
(* Properties *)

\* The variables have their types.
TypeOK ==
  /\ now \in 0..MaxTime
  /\ up \in BOOLEAN /\ unload \in BOOLEAN
  /\ disk \subseteq Dumps
  /\ born \in [Dumps -> -1..MaxTime]
  /\ home \in [Dumps -> {-1} \cup Dates]
  /\ dirs \subseteq Dates
  /\ taskFiles \subseteq Dates
  /\ entries \in [Dates -> SUBSET Dumps]
  /\ dump \in [at : {"idle", "dir", "written", "open"}, file : Dumps \cup {NoDump},
               date : Dates, unlinked : BOOLEAN]
  /\ sweep \in [Sweepers -> [at : {"idle", "scan", "read", "unlink"}, today : Dates,
                             date : Dates, seen : SUBSET Dates, read : SUBSET Dumps]]
  /\ left \in 0..SleepTime
  /\ forgotten \subseteq Dumps
  /\ failed \subseteq Dumps

\* Rounding the time of deletion to days costs a dump at most 12 hours of the
\* days it is to be saved.
NotDeletedEarly ==
  [][\A f \in disk : f \notin disk' => now - born[f] > (2 * SaveDays - 1) * HalfDay]_vars

\* A dump file is only lost to the deletion by a kill between its writing and that
\* of its name, or by a failure of one of its own calls, which the code does not
\* repeat: that of its registration or of its removal.  Every other dump file is
\* listed, though names are appended to task files without a lock while those are
\* read and removed, and whatever happens to other dumps and task files.
ListedForDeletion ==
  \A f \in disk :
    \/ \E d \in Dates : f \in entries[d]
    \/ dump.file = f
    \/ f \in forgotten
    \/ f \in failed

=============================================================================
