--------------------------- MODULE DuplicateCache ---------------------------
(***************************************************************************)
(* The check for duplicate dumps of exceptions (isDuplicate).  The stack   *)
(* traces that have been dumped are kept, oldest first, in the deque       *)
(* Global::stackTraceCache.  An exception with an equal stack trace is not *)
(* dumped again within TimeLimit seconds; the end of a thread takes its    *)
(* entries away, and a reload changes the settings under which entries     *)
(* made earlier are looked at.  All of it runs under configMonitor, so     *)
(* each check is one step.                                                 *)
(***************************************************************************)
EXTENDS Integers, Sequences

CONSTANTS
  Threads,
  Stacks,   \* stack traces: their methods and locations
  Limits,   \* values of TimeLimit; Config makes negative ones 0
  MaxTime   \* bound: the end of the clock, in seconds

ASSUME DuplicateAssumption ==
  /\ Limits \subseteq Nat
  /\ Limits # {}
  /\ MaxTime \in Nat

VARIABLES
  now,              \* time()
  alive,            \* threads that have not ended
  checkDuplication, \* Config::checkDuplication
  whenThreadDiff,   \* Config::dumpDuplicationWhenThreadDiff
  timeLimit,        \* Config::timeLimit
  cache,            \* *Global::stackTraceCache
  dumped            \* history: what was not suppressed and what no check since
                    \* has found older than the limit of its time

settings == <<checkDuplication, whenThreadDiff, timeLimit>>
vars == <<now, alive, settings, cache, dumped>>

SimpleStackTrace == [thread : Threads, stack : Stacks, time : 0..MaxTime]

Init ==
  /\ now = 0
  /\ alive = Threads
  /\ checkDuplication \in BOOLEAN
  /\ whenThreadDiff \in BOOLEAN
  /\ timeLimit \in Limits
  /\ cache = <<>>
  /\ dumped = {}

-----------------------------------------------------------------------------

\* Mutant: the entry holds the time at which it expires.
ExpiringEntry(t, s) == [thread |-> t, stack |-> s, time |-> now + timeLimit]

Entry(t, s) == [thread |-> t, stack |-> s, time |-> now]

\* Mutant: an entry is too old one second early.
OldOneEarly(e) == e.time <= now - timeLimit

Old(e) == e.time < now - timeLimit

\* Entries are removed from the front as long as they are old.
FirstKept ==
  CHOOSE i \in 1..(Len(cache) + 1) :
    /\ \A j \in 1..(i - 1) : Old(cache[j])
    /\ i <= Len(cache) => ~Old(cache[i])

Evicted == SubSeq(cache, FirstKept, Len(cache))

\* SimpleStackTrace::operator==
Equal(e, t, s) ==
  /\ e.thread # t => ~whenThreadDiff
  /\ e.stack = s

Found(t, s) == \E i \in FirstKept..Len(cache) : Equal(cache[i], t, s)

Recent == {d \in dumped : now - d.time <= timeLimit}

\* An exception in t that is to be dumped, with a new stack trace.  The entry
\* is made whether its dump succeeds or not.
Dump(t, s) ==
  /\ t \in alive
  /\ checkDuplication
  /\ ~Found(t, s)
  /\ cache' = Append(Evicted, Entry(t, s))
  /\ dumped' = Recent \cup {[thread |-> t, stack |-> s, time |-> now]}
  /\ UNCHANGED <<now, alive, settings>>

\* Mutant: push_back is done for a duplicate, too.
SuppressRenewing(t, s) ==
  /\ t \in alive
  /\ checkDuplication
  /\ Found(t, s)
  /\ cache' = Append(Evicted, Entry(t, s))
  /\ dumped' = Recent
  /\ UNCHANGED <<now, alive, settings>>

\* A duplicate is not dumped, and does not renew the entry it equals.
Suppress(t, s) ==
  /\ t \in alive
  /\ checkDuplication
  /\ Found(t, s)
  /\ cache' = Evicted
  /\ dumped' = Recent
  /\ UNCHANGED <<now, alive, settings>>

\* The entries at the positions kept stay, in their order.
Erase(kept) ==
  \E n \in 0..Len(cache) : \E at \in [1..n -> kept] :
    /\ kept = {at[i] : i \in 1..n}
    /\ \A i, j \in 1..n : i < j => at[i] < at[j]
    /\ cache' = [i \in 1..n |-> cache[at[i]]]

\* Mutant: the iterator moves on past the element after the erased one.
ThreadEndSkipping(t) ==
  /\ t \in alive
  /\ alive' = alive \ {t}
  /\ Erase({i \in DOMAIN cache : cache[i].thread # t \/ (i > 1 /\ cache[i - 1].thread = t)})
  /\ UNCHANGED <<now, settings, dumped>>

\* threadEnd: erase moves the later entries up, so the iterator stays.
ThreadEnd(t) ==
  /\ t \in alive
  /\ alive' = alive \ {t}
  /\ Erase({i \in DOMAIN cache : cache[i].thread # t})
  /\ UNCHANGED <<now, settings, dumped>>

\* A reload installs another Config; the entries stay.
Reload ==
  /\ checkDuplication' \in BOOLEAN
  /\ whenThreadDiff' \in BOOLEAN
  /\ timeLimit' \in Limits
  /\ UNCHANGED <<now, alive, cache, dumped>>

Tick ==
  /\ now < MaxTime
  /\ now' = now + 1
  /\ UNCHANGED <<alive, settings, cache, dumped>>

Next ==
  \/ \E t \in Threads :
       \/ \E s \in Stacks : Dump(t, s) \/ Suppress(t, s)
       \/ ThreadEnd(t)
  \/ Reload
  \/ Tick

Spec == Init /\ [][Next]_vars

-----------------------------------------------------------------------------
(* Properties *)

\* The variables have their types.
TypeOK ==
  /\ now \in 0..MaxTime
  /\ alive \subseteq Threads
  /\ checkDuplication \in BOOLEAN
  /\ whenThreadDiff \in BOOLEAN
  /\ timeLimit \in Limits
  /\ cache \in Seq(SimpleStackTrace)
  /\ dumped \subseteq SimpleStackTrace

\* Every entry is of a thread that runs: the JNIEnv that an entry keeps for its
\* comparisons is never that of an ended thread.
EntriesOfLiveThreads == \A i \in DOMAIN cache : cache[i].thread \in alive

\* What has been dumped within the time limit is not dumped again, unless the
\* thread of the first dump has ended, or a shorter limit was in force at a check
\* in between and it was too old for that one.
DuplicatesSuppressed ==
  [][\A t \in Threads, s \in Stacks : Dump(t, s) =>
       \A d \in Recent : d.thread \in alive => ~Equal(d, t, s)]_vars

\* Only what has been dumped within the time limit is suppressed: a stack trace
\* that keeps coming back is dumped again when the limit is over.
SuppressionEnds ==
  [][\A t \in Threads, s \in Stacks : Suppress(t, s) =>
       \E d \in Recent : Equal(d, t, s)]_vars

=============================================================================
