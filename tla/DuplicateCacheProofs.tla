------------------------ MODULE DuplicateCacheProofs ------------------------
(***************************************************************************)
(* Proofs about the suppression of duplicates, for any threads, stack      *)
(* traces and time limits.  The cache is sorted by time, so what the loop  *)
(* removes from its front is all that is too old; what remains is what has *)
(* been dumped within the limit by threads that run.                       *)
(***************************************************************************)
EXTENDS DuplicateCache, WellFoundedInduction, TLAPS

Sorted == \A i, j \in DOMAIN cache : i < j => cache[i].time <= cache[j].time

PastOnly == \A i \in DOMAIN cache : cache[i].time <= now

\* The cache lists what was dumped,
CacheWasDumped == \A i \in DOMAIN cache : cache[i] \in dumped

\* and all of it that a thread still running has dumped and no check since
\* has found too old.
DumpedIsCached ==
  \A d \in dumped : d.thread \in alive => \E i \in DOMAIN cache : cache[i] = d

IInv == /\ TypeOK /\ EntriesOfLiveThreads
        /\ Sorted /\ PastOnly /\ CacheWasDumped /\ DumpedIsCached

-----------------------------------------------------------------------------
(* The loops over the cache *)

\* The loop that removes old entries from the front ends somewhere.
LEMMA FirstKeptFound ==
  ASSUME TypeOK
  PROVE  /\ FirstKept \in 1..(Len(cache) + 1)
         /\ \A j \in 1..(FirstKept - 1) : Old(cache[j])
         /\ FirstKept <= Len(cache) => ~Old(cache[FirstKept])
<1> DEFINE Kept == {i \in 1..Len(cache) : ~Old(cache[i])} \cup {Len(cache) + 1}
<1>1. Len(cache) \in Nat
  BY DEF TypeOK
<1>2. Kept \subseteq Nat /\ Kept # {}
  BY <1>1
<1>3. PICK x \in Kept : \A y \in Kept : ~(<<y, x>> \in OpToRel(<, Nat))
  <2> HIDE DEF Kept
  <2> QED BY <1>2, NatLessThanWellFounded, WFMin
<1>4. \A y \in Kept : ~(y < x)
  <2> HIDE DEF Kept
  <2> QED BY <1>2, <1>3 DEF OpToRel
<1>5. /\ x \in 1..(Len(cache) + 1)
      /\ \A j \in 1..(x - 1) : Old(cache[j])
      /\ x <= Len(cache) => ~Old(cache[x])
  BY <1>1, <1>4
<1>6. \E i \in 1..(Len(cache) + 1) :
        /\ \A j \in 1..(i - 1) : Old(cache[j])
        /\ i <= Len(cache) => ~Old(cache[i])
  BY <1>5
<1> QED BY <1>6, Zenon DEF FirstKept

\* Types of the parts that the proofs compare.
LEMMA Times ==
  ASSUME TypeOK
  PROVE  /\ Len(cache) \in Nat /\ DOMAIN cache = 1..Len(cache)
         /\ \A i \in DOMAIN cache : cache[i] \in SimpleStackTrace
         /\ \A e \in SimpleStackTrace : e.thread \in Threads /\ e.time \in Int
         /\ now \in Int /\ timeLimit \in Nat
<1>1. cache \in Seq(SimpleStackTrace) /\ now \in 0..MaxTime /\ timeLimit \in Limits
  BY DEF TypeOK
<1>2. MaxTime \in Nat /\ Limits \subseteq Nat
  BY DuplicateAssumption DEF DuplicateAssumption
<1>3. \A i \in DOMAIN cache : cache[i] \in SimpleStackTrace
  BY <1>1
<1>4. \A e \in SimpleStackTrace : e.thread \in Threads /\ e.time \in 0..MaxTime
  BY DEF SimpleStackTrace
<1> QED BY <1>1, <1>2, <1>3, <1>4

\* Being too old is a matter of time, and the cache is sorted.
LEMMA EvictedIsRecent ==
  ASSUME TypeOK, Sorted
  PROVE  \A i \in DOMAIN cache : i >= FirstKept <=> now - cache[i].time <= timeLimit
<1>1. /\ Len(cache) \in Nat /\ DOMAIN cache = 1..Len(cache)
      /\ \A i \in DOMAIN cache : cache[i].time \in Int
      /\ now \in Int /\ timeLimit \in Int
  BY Times
<1>2. /\ FirstKept \in 1..(Len(cache) + 1)
      /\ \A j \in 1..(FirstKept - 1) : Old(cache[j])
      /\ FirstKept <= Len(cache) => ~Old(cache[FirstKept])
  BY FirstKeptFound
<1> SUFFICES ASSUME NEW i \in DOMAIN cache
             PROVE  i >= FirstKept <=> now - cache[i].time <= timeLimit
  OBVIOUS
<1>3. CASE i < FirstKept
  <2>1. Old(cache[i])
    BY <1>1, <1>2, <1>3
  <2> QED BY <1>1, <1>2, <1>3, <2>1 DEF Old
<1>4. CASE i >= FirstKept
  <2>1. FirstKept \in DOMAIN cache /\ ~Old(cache[FirstKept])
    BY <1>1, <1>2, <1>4
  <2>2. cache[FirstKept].time <= cache[i].time
    BY <1>1, <1>2, <1>4, <2>1 DEF Sorted
  <2> QED BY <1>1, <1>4, <2>1, <2>2 DEF Old
<1> QED BY <1>1, <1>2, <1>3, <1>4

\* What is left of the cache, by position.
LEMMA EvictedEntries ==
  ASSUME TypeOK
  PROVE  /\ Evicted \in Seq(SimpleStackTrace)
         /\ Len(Evicted) = Len(cache) + 1 - FirstKept
         /\ \A i \in 1..Len(Evicted) : /\ i + FirstKept - 1 \in FirstKept..Len(cache)
                                       /\ Evicted[i] = cache[i + FirstKept - 1]
<1>1. cache \in Seq(SimpleStackTrace) /\ Len(cache) \in Nat
  BY DEF TypeOK
<1>2. FirstKept \in 1..(Len(cache) + 1)
  BY FirstKeptFound
<1> QED BY <1>1, <1>2 DEF Evicted
-----------------------------------------------------------------------------
(* Steps *)

LEMMA InitIInv == Init => IInv
<1> SUFFICES ASSUME Init PROVE IInv
  OBVIOUS
<1>1. cache = <<>> /\ dumped = {} /\ now = 0 /\ alive = Threads
  BY DEF Init
<1>2. TypeOK
  BY <1>1, DuplicateAssumption DEF Init, TypeOK, DuplicateAssumption
<1>3. DOMAIN cache = {}
  BY <1>1
<1> QED
  BY <1>1, <1>2, <1>3
  DEF IInv, EntriesOfLiveThreads, Sorted, PastOnly, CacheWasDumped, DumpedIsCached

\* What a check leaves of the cache, and of what was dumped, agree.
LEMMA EvictedKept ==
  ASSUME IInv
  PROVE  /\ \A i \in DOMAIN Evicted : /\ Evicted[i] \in Recent
                                      /\ Evicted[i].thread \in alive
                                      /\ Evicted[i].time <= now
         /\ \A i, j \in DOMAIN Evicted : i < j => Evicted[i].time <= Evicted[j].time
         /\ \A d \in Recent : d.thread \in alive => \E i \in DOMAIN Evicted : Evicted[i] = d
<1> USE DEF IInv
<1>1. /\ Evicted \in Seq(SimpleStackTrace)
      /\ DOMAIN Evicted = 1..Len(Evicted)
      /\ Len(Evicted) = Len(cache) + 1 - FirstKept
      /\ \A i \in 1..Len(Evicted) : Evicted[i] = cache[i + FirstKept - 1]
  BY EvictedEntries
<1>2. /\ Len(cache) \in Nat /\ DOMAIN cache = 1..Len(cache)
      /\ FirstKept \in 1..(Len(cache) + 1)
  BY Times, FirstKeptFound
<1>3. \A i \in DOMAIN cache : i >= FirstKept <=> now - cache[i].time <= timeLimit
  BY EvictedIsRecent
<1>4. \A i \in DOMAIN Evicted : /\ i + FirstKept - 1 \in DOMAIN cache
                                /\ i + FirstKept - 1 >= FirstKept
  BY <1>1, <1>2
<1>5. \A i \in DOMAIN Evicted : /\ Evicted[i] \in Recent
                                /\ Evicted[i].thread \in alive
                                /\ Evicted[i].time <= now
  BY <1>1, <1>3, <1>4 DEF Recent, CacheWasDumped, EntriesOfLiveThreads, PastOnly
<1>6. \A i, j \in DOMAIN Evicted : i < j => Evicted[i].time <= Evicted[j].time
  <2> SUFFICES ASSUME NEW i \in DOMAIN Evicted, NEW j \in DOMAIN Evicted, i < j
               PROVE  Evicted[i].time <= Evicted[j].time
    OBVIOUS
  <2>1. i + FirstKept - 1 < j + FirstKept - 1
    BY <1>1, <1>2
  <2> QED BY <1>1, <1>4, <2>1 DEF Sorted
<1>7. ASSUME NEW d \in Recent, d.thread \in alive
      PROVE  \E i \in DOMAIN Evicted : Evicted[i] = d
  <2>1. PICK k \in DOMAIN cache : cache[k] = d
    BY <1>7 DEF Recent, DumpedIsCached
  <2>2. k >= FirstKept
    BY <1>3, <1>7, <2>1 DEF Recent
  <2>3. k - FirstKept + 1 \in DOMAIN Evicted /\ (k - FirstKept + 1) + FirstKept - 1 = k
    BY <1>1, <1>2, <2>1, <2>2
  <2>4. Evicted[k - FirstKept + 1] = d
    BY <1>1, <2>1, <2>3
  <2> QED BY <2>3, <2>4
<1> QED BY <1>5, <1>6, <1>7

\* Nothing is found in the cache but what was dumped within the limit.
LEMMA FoundIsRecent ==
  ASSUME IInv, NEW t, NEW s, Found(t, s)
  PROVE  \E d \in Recent : Equal(d, t, s)
<1>1. PICK i \in FirstKept..Len(cache) : Equal(cache[i], t, s)
  BY DEF Found
<1>2. i \in DOMAIN cache /\ i >= FirstKept
  BY <1>1, Times, FirstKeptFound DEF IInv
<1>3. cache[i] \in Recent
  BY <1>2, EvictedIsRecent DEF IInv, Recent, CacheWasDumped
<1> QED BY <1>1, <1>3

\* All that a running thread dumped within the limit is found.
LEMMA RecentIsFound ==
  ASSUME IInv, NEW t, NEW s, NEW d \in Recent, d.thread \in alive, Equal(d, t, s)
  PROVE  Found(t, s)
<1>1. PICK k \in DOMAIN cache : cache[k] = d
  BY DEF IInv, Recent, DumpedIsCached
<1>2. k >= FirstKept
  BY <1>1, EvictedIsRecent DEF IInv, Recent
<1>3. k \in FirstKept..Len(cache)
  BY <1>1, <1>2, Times, FirstKeptFound DEF IInv
<1> QED BY <1>1, <1>3 DEF Found

LEMMA DumpKeepsIInv ==
  ASSUME NEW t \in Threads, NEW s \in Stacks, IInv, Dump(t, s)
  PROVE  IInv'
<1> DEFINE e == Entry(t, s)
<1>1. /\ cache' = Append(Evicted, e) /\ dumped' = Recent \cup {e}
      /\ UNCHANGED <<now, alive, checkDuplication, whenThreadDiff, timeLimit>>
      /\ t \in alive
  BY DEF Dump, settings, Entry
<1>2. e \in SimpleStackTrace /\ e.thread = t /\ e.time = now
  BY DEF Entry, SimpleStackTrace, IInv, TypeOK
<1>3. Evicted \in Seq(SimpleStackTrace)
  BY EvictedEntries DEF IInv
<1> HIDE DEF e
<1>4. /\ Len(Evicted) \in Nat /\ DOMAIN Evicted = 1..Len(Evicted)
      /\ cache' \in Seq(SimpleStackTrace)
      /\ DOMAIN cache' = 1..(Len(Evicted) + 1)
      /\ \A i \in 1..Len(Evicted) : cache'[i] = Evicted[i]
      /\ cache'[Len(Evicted) + 1] = e
  BY <1>1, <1>2, <1>3
<1>5. now \in Int /\ \A i \in DOMAIN Evicted : Evicted[i].time \in Int
  BY <1>3, <1>4, Times DEF IInv
<1>6. TypeOK'
  BY <1>1, <1>2, <1>4 DEF IInv, TypeOK, Recent, SimpleStackTrace
<1>7. \A i \in DOMAIN cache' : i \in DOMAIN Evicted \/ i = Len(Evicted) + 1
  BY <1>4
<1>8. EntriesOfLiveThreads' /\ PastOnly' /\ CacheWasDumped'
  BY <1>1, <1>2, <1>4, <1>5, <1>7, EvictedKept DEF EntriesOfLiveThreads, PastOnly, CacheWasDumped
<1>9. Sorted'
  <2> SUFFICES ASSUME NEW i \in DOMAIN cache', NEW j \in DOMAIN cache', i < j
               PROVE  cache'[i].time <= cache'[j].time
    BY DEF Sorted
  <2>1. i \in DOMAIN Evicted
    BY <1>4
  <2>2. CASE j \in DOMAIN Evicted BY <1>4, <2>1, <2>2, EvictedKept
  <2>3. CASE j = Len(Evicted) + 1 BY <1>2, <1>4, <2>1, <2>3, EvictedKept
  <2> QED BY <1>7, <2>2, <2>3
<1>10. DumpedIsCached'
  <2> SUFFICES ASSUME NEW d \in dumped', d.thread \in alive
               PROVE  \E i \in DOMAIN cache' : cache'[i] = d
    BY <1>1 DEF DumpedIsCached
  <2>1. CASE d = e BY <1>4, <2>1
  <2>2. CASE d \in Recent
    <3>1. PICK i \in DOMAIN Evicted : Evicted[i] = d
      BY <2>2, EvictedKept
    <3> QED BY <1>4, <3>1
  <2> QED BY <1>1, <2>1, <2>2
<1> QED BY <1>6, <1>8, <1>9, <1>10 DEF IInv

LEMMA SuppressKeepsIInv ==
  ASSUME NEW t \in Threads, NEW s \in Stacks, IInv, Suppress(t, s)
  PROVE  IInv'
<1>1. /\ cache' = Evicted /\ dumped' = Recent
      /\ UNCHANGED <<now, alive, checkDuplication, whenThreadDiff, timeLimit>>
  BY DEF Suppress, settings
<1>2. Evicted \in Seq(SimpleStackTrace)
  BY EvictedEntries DEF IInv
<1>3. TypeOK'
  BY <1>1, <1>2 DEF IInv, TypeOK, Recent
<1>4. /\ EntriesOfLiveThreads' /\ Sorted' /\ PastOnly'
      /\ CacheWasDumped' /\ DumpedIsCached'
  BY <1>1, EvictedKept
  DEF EntriesOfLiveThreads, Sorted, PastOnly, CacheWasDumped, DumpedIsCached
<1> QED BY <1>3, <1>4 DEF IInv

\* Erasing keeps the order, and all entries but those of the thread.
LEMMA ThreadEndKeepsIInv ==
  ASSUME NEW t \in Threads, IInv, ThreadEnd(t)
  PROVE  IInv'
<1> DEFINE kept == {i \in DOMAIN cache : cache[i].thread # t}
<1>1. /\ alive' = alive \ {t}
      /\ UNCHANGED <<now, checkDuplication, whenThreadDiff, timeLimit, dumped>>
  BY DEF ThreadEnd, settings
<1>2. PICK n \in 0..Len(cache) : \E at \in [1..n -> kept] :
        /\ kept = {at[i] : i \in 1..n}
        /\ \A i, j \in 1..n : i < j => at[i] < at[j]
        /\ cache' = [i \in 1..n |-> cache[at[i]]]
  BY DEF ThreadEnd, Erase
<1>3. PICK at \in [1..n -> kept] :
        /\ kept = {at[i] : i \in 1..n}
        /\ \A i, j \in 1..n : i < j => at[i] < at[j]
        /\ cache' = [i \in 1..n |-> cache[at[i]]]
  BY <1>2
<1>4. \A i \in 1..n : /\ at[i] \in DOMAIN cache /\ cache[at[i]].thread # t
                      /\ cache'[i] = cache[at[i]]
  BY <1>3
<1>5. DOMAIN cache' = 1..n
  BY <1>3
<1>6. TypeOK'
  <2>1. n \in Nat /\ \A i \in DOMAIN cache : cache[i] \in SimpleStackTrace
    BY Times DEF IInv
  <2>2. \A i \in 1..n : cache[at[i]] \in SimpleStackTrace
    BY <1>4, <2>1
  <2>3. [i \in 1..n |-> cache[at[i]]] \in Seq(SimpleStackTrace)
    BY <2>1, <2>2
  <2> QED BY <1>1, <1>3, <2>3 DEF IInv, TypeOK, SimpleStackTrace
<1>7. EntriesOfLiveThreads' /\ PastOnly' /\ CacheWasDumped'
  BY <1>1, <1>4, <1>5 DEF IInv, EntriesOfLiveThreads, PastOnly, CacheWasDumped
<1>8. Sorted'
  BY <1>3, <1>4, <1>5 DEF IInv, Sorted
<1>9. DumpedIsCached'
  <2> SUFFICES ASSUME NEW d \in dumped, d.thread \in alive, d.thread # t
               PROVE  \E i \in DOMAIN cache' : cache'[i] = d
    BY <1>1 DEF DumpedIsCached
  <2>1. PICK k \in DOMAIN cache : cache[k] = d
    BY DEF IInv, DumpedIsCached
  <2>2. k \in kept
    BY <2>1
  <2>3. PICK i \in 1..n : at[i] = k
    BY <1>3, <2>2
  <2> QED BY <1>4, <1>5, <2>1, <2>3
<1> QED BY <1>6, <1>7, <1>8, <1>9 DEF IInv

LEMMA OtherStepKeepsIInv ==
  ASSUME IInv, Reload \/ Tick \/ UNCHANGED vars
  PROVE  IInv'
<1>1. UNCHANGED <<alive, cache, dumped>> /\ (now' = now \/ now' = now + 1)
  BY DEF Reload, Tick, vars, settings
<1>2. TypeOK'
  BY DuplicateAssumption DEF IInv, TypeOK, Reload, Tick, vars, settings, SimpleStackTrace, DuplicateAssumption
<1>3. PastOnly'
  BY <1>1, Times DEF IInv, PastOnly
<1> QED
  BY <1>1, <1>2, <1>3 DEF IInv, EntriesOfLiveThreads, Sorted, CacheWasDumped, DumpedIsCached
-----------------------------------------------------------------------------
(* Theorems *)

\* The cache is sorted by time and is what running threads dumped.
THEOREM IInvHolds == Spec => []IInv
<1>1. IInv /\ [Next]_vars => IInv'
  BY DumpKeepsIInv, SuppressKeepsIInv, ThreadEndKeepsIInv, OtherStepKeepsIInv DEF Next
<1> QED BY <1>1, InitIInv, PTL DEF Spec

\* The variables always have their types.
THEOREM TypesHold == Spec => []TypeOK
<1>1. IInv => TypeOK
  BY DEF IInv
<1> QED BY <1>1, IInvHolds, PTL

\* threadEnd leaves no entry of the thread that ends, and none is made later.
THEOREM EntriesStayOfLiveThreads == Spec => []EntriesOfLiveThreads
<1>1. IInv => EntriesOfLiveThreads
  BY DEF IInv
<1> QED BY <1>1, IInvHolds, PTL

\* isDuplicate never lets pass what a running thread has dumped within the limit.
THEOREM DuplicatesStaySuppressed == Spec => DuplicatesSuppressed
<1>1. IInv => [\A t \in Threads, s \in Stacks : Dump(t, s) =>
                 \A d \in Recent : d.thread \in alive => ~Equal(d, t, s)]_vars
  BY RecentIsFound DEF Dump
<1> QED BY <1>1, IInvHolds, PTL DEF DuplicatesSuppressed

\* isDuplicate suppresses nothing else: not what is older than the limit.
THEOREM SuppressionsEnd == Spec => SuppressionEnds
<1>1. IInv => [\A t \in Threads, s \in Stacks : Suppress(t, s) =>
                 \E d \in Recent : Equal(d, t, s)]_vars
  BY FoundIsRecent DEF Suppress
<1> QED BY <1>1, IInvHolds, PTL DEF SuppressionEnds
=============================================================================
