------------------------- MODULE DumpProtocolProofs -------------------------
(***************************************************************************)
(* Proofs about DumpProtocol for any set of application threads, any       *)
(* configurations and any number of reloads, with and without faults and   *)
(* nested exceptions.  The inductive invariant IInv counts, for every      *)
(* thread, how often the place it is at has entered each lock and the      *)
(* counter inMyself: a step of a thread moves it to a place whose count    *)
(* differs by what the step does to the lock, and leaves the others alone. *)
(***************************************************************************)
EXTENDS DumpProtocol, FiniteSetTheorems, SequenceTheorems, TLAPS

USE ThreadsAssumption, ContentsAssumption, BoundsAssumption
DEF ThreadsAssumption, ContentsAssumption, BoundsAssumption

\* Only thread t moves.
OnlyMoves(t) ==
  \A u \in Threads \ {t} : pc'[u] = pc[u] /\ path'[u] = path[u] /\ outer'[u] = outer[u]

\* Thread t stays where its counts are the same.
SameDepths(t) ==
  /\ ConfigDepth(t)' = ConfigDepth(t)
  /\ MyDepth(t)' = MyDepth(t)
  /\ Counted(t)' = Counted(t)

-----------------------------------------------------------------------------
(* Interrupted calls *)

\* The interrupted calls are counted by numbers, which are 0 if there are none.
LEMMA CallsCounted ==
  ASSUME NEW s \in CallStacks
  PROVE  /\ IsFiniteSet({i \in DOMAIN s : s[i] \in JavaPaths})
         /\ JavaCalls(s) \in Nat
         /\ AllCalls(s) \in Nat
         /\ s = <<>> <=> AllCalls(s) = 0
         /\ DOMAIN s = 1..AllCalls(s)
<1> USE DEF CallStacks
<1>1. IsFiniteSet(1..Len(s))
  BY FS_Interval
<1>2. {i \in DOMAIN s : s[i] \in JavaPaths} \in SUBSET (1..Len(s))
  OBVIOUS
<1>3. IsFiniteSet({i \in DOMAIN s : s[i] \in JavaPaths})
  BY <1>1, <1>2, FS_Subset
<1>4. JavaCalls(s) \in Nat
  BY <1>3, FS_CardinalityType DEF JavaCalls
<1>5. Len(s) \in Nat /\ DOMAIN s = 1..Len(s) /\ (s = <<>> <=> Len(s) = 0)
  BY LenProperties, EmptySeq
<1>6. QED
  BY <1>3, <1>4, <1>5 DEF AllCalls

\* Outside every other call nothing is interrupted.
LEMMA NoCalls == JavaCalls(<<>>) = 0 /\ AllCalls(<<>>) = 0 /\ Popped(<<>>) = <<>>
<1>1. {i \in DOMAIN <<>> : <<>>[i] \in JavaPaths} = {}
  OBVIOUS
<1>2. JavaCalls(<<>>) = 0
  BY <1>1, FS_EmptySet DEF JavaCalls
<1>3. Len(<<>>) = 0
  OBVIOUS
<1>4. SubSeq(<<>>, 1, 0 - 1) = <<>>
  BY SubSeqEmpty
<1>5. QED
  BY <1>2, <1>3, <1>4 DEF AllCalls, Popped

\* An interrupted call adds itself to those beneath it.
LEMMA CallPushed ==
  ASSUME NEW s \in CallStacks, NEW c \in Interrupted
  PROVE  /\ Append(s, c) \in CallStacks
         /\ AllCalls(Append(s, c)) = AllCalls(s) + 1
         /\ \A i \in 1..AllCalls(s) : Append(s, c)[i] = s[i]
         /\ Append(s, c)[AllCalls(s) + 1] = c
         /\ JavaCalls(Append(s, c)) = JavaCalls(s) + One(c \in JavaPaths)
<1> DEFINE a == Append(s, c)
           n == AllCalls(s)
           In(x) == {i \in DOMAIN x : x[i] \in JavaPaths}
<1>1. /\ a \in CallStacks /\ AllCalls(a) = n + 1
      /\ \A i \in 1..n : a[i] = s[i]
      /\ a[n + 1] = c
  BY AppendProperties DEF AllCalls, CallStacks
<1>2. DOMAIN a = 1..(n + 1) /\ DOMAIN s = 1..n /\ n \in Nat
  BY <1>1, CallsCounted
<1>3. IsFiniteSet(In(s)) /\ Cardinality(In(s)) \in Nat
  BY CallsCounted, FS_CardinalityType
<1> HIDE DEF a, n
<1>4. CASE c \in JavaPaths
  <2>1. \A i : i \in In(a) <=> i \in In(s) \/ i = n + 1
    BY <1>1, <1>2, <1>4
  <2>2. In(a) = In(s) \cup {n + 1} /\ n + 1 \notin In(s)
    BY <1>2, <2>1
  <2>3. Cardinality(In(a)) = Cardinality(In(s)) + 1
    BY <1>3, <2>2, FS_AddElement
  <2>4. QED
    BY <1>1, <1>4, <2>3 DEF JavaCalls, One, a, n
<1>5. CASE c \notin JavaPaths
  <2>1. \A i : i \in In(a) <=> i \in In(s)
    BY <1>1, <1>2, <1>5
  <2>2. In(a) = In(s)
    BY <2>1
  <2>3. JavaCalls(a) = JavaCalls(s)
    BY <2>2 DEF JavaCalls
  <2>4. JavaCalls(s) \in Nat
    BY CallsCounted
  <2>5. JavaCalls(s) + One(c \in JavaPaths) = JavaCalls(s)
    BY <1>5, <2>4 DEF One
  <2>6. QED
    BY <1>1, <2>3, <2>5 DEF a, n
<1>6. QED
  BY <1>4, <1>5

\* A return takes the last interrupted call away.
LEMMA CallPopped ==
  ASSUME NEW s \in CallStacks, s # <<>>
  PROVE  /\ AllCalls(s) \in Nat \ {0} /\ s[Len(s)] \in Interrupted
         /\ s[Len(s)] = s[AllCalls(s)]
         /\ Popped(s) \in CallStacks
         /\ AllCalls(Popped(s)) = AllCalls(s) - 1
         /\ \A i \in 1..(AllCalls(s) - 1) : Popped(s)[i] = s[i]
         /\ JavaCalls(s) = JavaCalls(Popped(s)) + One(s[Len(s)] \in JavaPaths)
<1> USE DEF CallStacks
<1> DEFINE n == Len(s)
           q == Popped(s)
<1>1. n \in Nat \ {0} /\ s \in [1..n -> Interrupted]
  BY LenProperties, EmptySeq
<1>2. \A i \in 1..(n - 1) : s[i] \in Interrupted
  BY <1>1
<1>3. q = SubSeq(s, 1, n - 1) /\ n - 1 \in Nat
  BY <1>1 DEF Popped
<1> HIDE DEF n, q
<1>4. /\ SubSeq(s, 1, n - 1) \in Seq(Interrupted)
      /\ Len(SubSeq(s, 1, n - 1)) = IF 1 <= n - 1 THEN (n - 1) - 1 + 1 ELSE 0
      /\ \A i \in 1..((n - 1) - 1 + 1) : SubSeq(s, 1, n - 1)[i] = s[1 + i - 1]
  BY <1>1, <1>2, <1>3, SubSeqProperties
<1>5. /\ q \in Seq(Interrupted) /\ Len(q) = n - 1
      /\ \A i \in 1..(n - 1) : q[i] = s[i]
  BY <1>1, <1>3, <1>4
<1>6. s = Append(q, s[n])
  <2>1. /\ Append(q, s[n]) \in Seq(Interrupted)
        /\ Len(Append(q, s[n])) = n
        /\ \A i \in 1..(n - 1) : Append(q, s[n])[i] = s[i]
        /\ Append(q, s[n])[n] = s[n]
    BY <1>1, <1>5, AppendProperties
  <2>2. \A i \in 1..n : Append(q, s[n])[i] = s[i]
    BY <1>1, <2>1
  <2>3. Append(q, s[n]) \in [1..n -> Interrupted]
    BY <2>1, LenProperties
  <2>4. QED
    BY <1>1, <2>2, <2>3
<1>7. JavaCalls(s) = JavaCalls(q) + One(s[n] \in JavaPaths)
  <2>1. JavaCalls(Append(q, s[n])) = JavaCalls(q) + One(s[n] \in JavaPaths)
    BY <1>1, <1>5, CallPushed
  <2>2. QED
    BY <1>6, <2>1
<1>8. QED
  BY <1>1, <1>5, <1>7 DEF AllCalls, n, q

\* A mail that may be interrupted keeps the order of the calls.
LEMMA MailPushed ==
  ASSUME NEW t, NEW s \in CallStacks, CallsNest(t, s), NEW c \in MailPaths,
         c \in JavaPaths => JavaCalls(s) = 0
  PROVE  CallsNest(t, Append(s, c))
<1> DEFINE a == Append(s, c)
           n == AllCalls(s)
<1>1. c \in Interrupted /\ c # "reload"
  BY DEF Interrupted, MailPaths
<1>2. /\ a \in CallStacks /\ AllCalls(a) = n + 1
      /\ \A i \in 1..n : a[i] = s[i]
      /\ a[n + 1] = c
      /\ JavaCalls(a) = JavaCalls(s) + One(c \in JavaPaths)
  BY <1>1, CallPushed
<1>3. DOMAIN a = 1..(n + 1) /\ DOMAIN s = 1..n /\ n \in Nat /\ JavaCalls(s) \in Nat
  BY <1>2, CallsCounted
<1> HIDE DEF a, n
<1>4. JavaCalls(a) <= 1
  BY <1>2, <1>3 DEF CallsNest, One
<1>5. ASSUME NEW i \in DOMAIN a, a[i] = "reload"
      PROVE  i = 1 /\ t = Monitor
  BY <1>1, <1>2, <1>3, <1>5 DEF CallsNest
<1>6. CallsNest(t, a)
  BY <1>4, <1>5 DEF CallsNest
<1>7. QED
  BY <1>6 DEF a

\* A reload is interrupted before any dump.
LEMMA ReloadPushed ==
  /\ CallsNest(Monitor, Append(<<>>, "reload"))
  /\ ~MailBeneath(Append(<<>>, "reload"))
<1> DEFINE a == Append(<<>>, "reload")
<1>1. <<>> \in CallStacks /\ "reload" \in Interrupted
  BY EmptySeq DEF CallStacks, Interrupted
<1>2. a \in CallStacks /\ AllCalls(a) = 1 /\ a[1] = "reload" /\ JavaCalls(a) = 0
  <2>1. /\ a \in CallStacks /\ AllCalls(a) = 0 + 1 /\ a[0 + 1] = "reload"
        /\ JavaCalls(a) = 0 + One("reload" \in JavaPaths)
    <3>1. /\ a \in CallStacks /\ AllCalls(a) = AllCalls(<<>>) + 1
          /\ a[AllCalls(<<>>) + 1] = "reload"
          /\ JavaCalls(a) = JavaCalls(<<>>) + One("reload" \in JavaPaths)
      BY <1>1, CallPushed
    <3> HIDE DEF a
    <3>2. QED
      BY <3>1, NoCalls
  <2> HIDE DEF a
  <2>2. QED
    BY <2>1 DEF One, JavaPaths
<1>3. DOMAIN a = 1..1
  BY <1>2, CallsCounted
<1> HIDE DEF a
<1>4. CallsNest(Monitor, a) /\ ~MailBeneath(a)
  BY <1>2, <1>3 DEF CallsNest, MailBeneath, MailPaths
<1>5. QED
  BY <1>4 DEF a

\* What is beneath the call that a return goes back to.
LEMMA NestPopped ==
  ASSUME NEW t, NEW s \in CallStacks, s # <<>>, CallsNest(t, s)
  PROVE  /\ CallsNest(t, Popped(s))
         /\ s[Len(s)] = "reload" => t = Monitor /\ Popped(s) = <<>>
         /\ s[Len(s)] \in JavaPaths => JavaCalls(Popped(s)) = 0
         /\ s[Len(s)] \in MailPaths \/ MailBeneath(Popped(s)) => MailBeneath(s)
<1> DEFINE q == Popped(s)
           n == AllCalls(s)
           c == s[Len(s)]
<1>1. /\ n \in Nat \ {0} /\ c \in Interrupted /\ c = s[n]
      /\ q \in CallStacks /\ AllCalls(q) = n - 1
      /\ \A i \in 1..(n - 1) : q[i] = s[i]
      /\ JavaCalls(s) = JavaCalls(q) + One(c \in JavaPaths)
  BY CallPopped
<1>2. /\ DOMAIN q = 1..(n - 1) /\ DOMAIN s = 1..n
      /\ JavaCalls(q) \in Nat /\ JavaCalls(s) \in Nat
      /\ q = <<>> <=> n - 1 = 0
  BY <1>1, CallsCounted
<1> HIDE DEF q, n, c
<1>3. JavaCalls(q) <= 1 /\ (c \in JavaPaths => JavaCalls(q) = 0)
  BY <1>1, <1>2 DEF CallsNest, One
<1>4. ASSUME NEW i \in DOMAIN q, q[i] = "reload"
      PROVE  i = 1 /\ t = Monitor
  BY <1>1, <1>2, <1>4 DEF CallsNest
<1>5. CallsNest(t, q)
  BY <1>3, <1>4 DEF CallsNest
<1>6. c = "reload" => t = Monitor /\ q = <<>>
  <2>1. n \in DOMAIN s
    BY <1>1, <1>2
  <2>2. c = "reload" => t = Monitor /\ n = 1
    BY <1>1, <2>1 DEF CallsNest
  <2>3. QED
    BY <1>2, <2>2
<1>7. c \in MailPaths => MailBeneath(s)
  BY <1>1, <1>2 DEF MailBeneath
<1>8. MailBeneath(q) => MailBeneath(s)
  BY <1>1, <1>2 DEF MailBeneath
<1>9. QED
  BY <1>3, <1>5, <1>6, <1>7, <1>8 DEF q, c

\* Before a nested exception nothing is out of order.
LEMMA NothingBeneath ==
  ASSUME NEW t
  PROVE  CallsNest(t, <<>>) /\ ~MailBeneath(<<>>)
<1>1. DOMAIN <<>> = {}
  OBVIOUS
<1>2. QED
  BY <1>1, NoCalls DEF CallsNest, MailBeneath

-----------------------------------------------------------------------------
(* Counts and locks *)

\* Counts are natural numbers.
LEMMA DepthsAreNat ==
  ASSUME ThreadTypes, NEW t \in Threads
  PROVE  ConfigDepth(t) \in Nat /\ MyDepth(t) \in Nat /\ Counted(t) \in Nat
<1>1. outer[t] \in CallStacks
  BY DEF ThreadTypes
<1>2. JavaCalls(outer[t]) \in Nat /\ AllCalls(outer[t]) \in Nat
  BY <1>1, CallsCounted
<1>3. QED
  BY <1>2 DEF ConfigDepth, MyDepth, Counted, One

\* So are the numbers of interrupted calls.
LEMMA CountsAreNat ==
  ASSUME ThreadTypes, NEW t \in Threads
  PROVE  AllCalls(outer[t]) \in Nat /\ JavaCalls(outer[t]) \in Nat
BY CallsCounted DEF ThreadTypes

\* They still are after a step.
LEMMA DepthsStayNat ==
  ASSUME ThreadTypes', NEW t \in Threads
  PROVE  ConfigDepth(t)' \in Nat /\ MyDepth(t)' \in Nat /\ Counted(t)' \in Nat
<1>1. outer'[t] \in CallStacks
  BY DEF ThreadTypes
<1>2. JavaCalls(outer'[t]) \in Nat /\ AllCalls(outer'[t]) \in Nat
  BY <1>1, CallsCounted
<1>3. QED
  BY <1>2 DEF ConfigDepth, MyDepth, Counted, One

\* A step of t changes the counts of nobody else.
LEMMA OtherDepths ==
  ASSUME NEW t \in Threads, OnlyMoves(t), NEW u \in Threads, u # t
  PROVE  SameDepths(u)
BY DEF OnlyMoves, SameDepths, ConfigDepth, MyDepth, Counted, One

\* A step that touches neither the locks nor the counts keeps the balance.
LEMMA SameLocks ==
  ASSUME LocksBalanced, NEW t \in Threads, OnlyMoves(t), UNCHANGED lock,
         ConfigDepth(t)' = ConfigDepth(t), MyDepth(t)' = MyDepth(t)
  PROVE  LocksBalanced'
<1>1. \A l \in Locks, u \in Threads : Depth(l, u)' = Depth(l, u)
  BY OtherDepths DEF Depth, SameDepths
<1>2. QED
  BY <1>1 DEF LocksBalanced

\* Entering a lock keeps the balance.
LEMMA EnterLock ==
  ASSUME TypeOK, LocksBalanced, NEW t \in Threads, OnlyMoves(t), NEW l \in Locks, Acquire(t, l),
         Depth(l, t)' = Depth(l, t) + 1,
         \A m \in Locks \ {l} : Depth(m, t)' = Depth(m, t)
  PROVE  LocksBalanced' /\ lock' \in [Locks -> [owner : Threads \cup {NoThread}, depth : Nat]]
<1>1. \A m \in Locks, u \in Threads : Depth(m, u) \in Nat
  BY DepthsAreNat DEF Depth, TypeOK
<1>2. \A m \in Locks, u \in Threads \ {t} : Depth(m, u)' = Depth(m, u)
  BY OtherDepths DEF Depth, SameDepths
<1>3. lock \in [Locks -> [owner : Threads \cup {NoThread}, depth : Nat]]
  BY DEF TypeOK
<1>4. /\ lock[l].owner \in {NoThread, t}
      /\ lock' = [lock EXCEPT ![l] = [owner |-> t, depth |-> lock[l].depth + 1]]
  BY DEF Acquire
<1>5. lock[l].owner = NoThread => \A u \in Threads : Depth(l, u) = 0
  BY <1>1 DEF LocksBalanced
<1>6. lock' \in [Locks -> [owner : Threads \cup {NoThread}, depth : Nat]]
  BY <1>3, <1>4
<1>7. ASSUME NEW m \in Locks \ {l}, NEW u \in Threads
      PROVE  lock'[m] = lock[m] /\ Depth(m, u)' = Depth(m, u)
  BY <1>2, <1>3, <1>4
<1>8. lock'[l].owner = t /\ lock'[l].depth = lock[l].depth + 1
  BY <1>3, <1>4
<1>9. lock[l].depth = Depth(l, t)
  BY <1>1, <1>3, <1>4, <1>5 DEF LocksBalanced
<1>10. QED
  BY <1>1, <1>2, <1>5, <1>6, <1>7, <1>8, <1>9 DEF LocksBalanced

\* Leaving a lock that is held keeps the balance.
LEMMA LeaveLock ==
  ASSUME TypeOK, ThreadTypes', LocksBalanced, NEW t \in Threads, OnlyMoves(t), NEW l \in Locks,
         Release(t, l),
         Depth(l, t) = Depth(l, t)' + 1,
         \A m \in Locks \ {l} : Depth(m, t)' = Depth(m, t)
  PROVE  LocksBalanced' /\ lock' \in [Locks -> [owner : Threads \cup {NoThread}, depth : Nat]]
<1>1. \A m \in Locks, u \in Threads : Depth(m, u) \in Nat /\ Depth(m, u)' \in Nat
  BY DepthsAreNat, DepthsStayNat DEF Depth, TypeOK
<1>2. \A m \in Locks, u \in Threads \ {t} : Depth(m, u)' = Depth(m, u)
  BY OtherDepths DEF Depth, SameDepths
<1>3. lock \in [Locks -> [owner : Threads \cup {NoThread}, depth : Nat]]
  BY DEF TypeOK
<1>4. lock' = [lock EXCEPT ![l] = IF lock[l].depth = 1
                                    THEN [owner |-> NoThread, depth |-> 0]
                                    ELSE [owner |-> t, depth |-> lock[l].depth - 1]]
  BY DEF Release
<1>5. lock[l].owner = t /\ lock[l].depth = Depth(l, t)
  BY <1>1 DEF LocksBalanced
<1>6. \A u \in Threads \ {t} : Depth(l, u) = 0
  BY <1>1, <1>5 DEF LocksBalanced
<1>7. QED
  BY <1>1, <1>2, <1>3, <1>4, <1>5, <1>6 DEF LocksBalanced

\* At most one thread is at a place that holds a lock.
LEMMA OneHolder ==
  ASSUME LocksBalanced, NEW t \in Threads, NEW u \in Threads, NEW l \in Locks,
         Depth(l, t) > 0, Depth(l, u) > 0
  PROVE  t = u
BY DEF LocksBalanced

\* A call that returns is as deep in the locks as the calls it interrupted were.
LEMMA ReturnDepths ==
  ASSUME TypeOK, CallShape, NEW t \in Threads, Return(t)
  PROVE  /\ OnlyMoves(t)
         /\ ThreadTypes'
         /\ ConfigDepth(t)' = AllCalls(outer[t])
         /\ MyDepth(t)' = JavaCalls(outer[t])
         /\ Counted(t)' = JavaCalls(outer[t])
         /\ AllCalls(outer[t]) \in Nat /\ JavaCalls(outer[t]) \in Nat
         /\ pc'[t] \in {"run", "redefine", "mail"}
         /\ UNCHANGED <<config, setting>> => Roles' /\ Shape(t)'
<1>1. outer \in [Threads -> CallStacks] /\ outer[t] \in CallStacks
  BY DEF TypeOK, ThreadTypes
<1>2. /\ pc' = [pc EXCEPT ![t] = pc'[t]] /\ pc'[t] = ReturnPlace(t)
      /\ path' = [path EXCEPT ![t] = path'[t]]
      /\ path'[t] = IF ReturnPlace(t) = "mail" THEN Beneath(t) ELSE "none"
      /\ outer' = [outer EXCEPT ![t] = outer'[t]] /\ outer'[t] = Popped(outer[t])
  BY DEF Return, Go, TypeOK, ThreadTypes
<1>3. OnlyMoves(t)
  BY <1>2 DEF OnlyMoves, TypeOK, ThreadTypes
<1>4. CASE outer[t] = <<>>
  <2>1. pc'[t] = "run" /\ path'[t] = "none" /\ outer'[t] = <<>>
    BY <1>2, <1>4, NoCalls DEF ReturnPlace
  <2>2. JavaCalls(outer[t]) = 0 /\ AllCalls(outer[t]) = 0
    BY <1>4, NoCalls
  <2>3. ThreadTypes'
    <3>1. outer' = outer
      BY <1>1, <1>2, <1>4, <2>1
    <3>2. pc' \in [Threads -> PCs] /\ path' \in [Threads -> Paths]
      <4>1. "run" \in PCs /\ "none" \in Paths
        BY DEF PCs, Paths
      <4>2. pc' = [pc EXCEPT ![t] = "run"] /\ path' = [path EXCEPT ![t] = "none"]
        BY <1>2, <2>1
      <4>3. pc \in [Threads -> PCs] /\ path \in [Threads -> Paths]
        BY DEF TypeOK, ThreadTypes
      <4>4. pc' \in [Threads -> PCs]
        BY ONLY <4>1, <4>2, <4>3
      <4>5. path' \in [Threads -> Paths]
        BY ONLY <4>1, <4>2, <4>3
      <4>6. QED
        BY <4>4, <4>5
    <3>3. /\ ref' \in [Threads -> -1..MaxReloads]
          /\ target' \in [Threads -> Targets \cup {NoTarget}]
          /\ scope' \in [Threads -> {"one", "all"}]
      BY DEF Return, TypeOK, ThreadTypes
    <3>4. QED
      BY <1>1, <3>1, <3>2, <3>3 DEF ThreadTypes
  <2>4. /\ ConfigDepth(t)' = 0 /\ MyDepth(t)' = 0 /\ Counted(t)' = 0
    BY <2>1, NoCalls DEF ConfigDepth, MyDepth, Counted, One
  <2>5. ASSUME UNCHANGED <<config, setting>>
        PROVE  Roles' /\ Shape(t)'
    <3>1. Roles'
      BY <1>2, <2>1, <2>5 DEF TypeOK, ThreadTypes, Roles, ReloadPCs, Threads
    <3>2. Shape(t)'
      BY <2>1, NoCalls, NothingBeneath DEF Shape, ReloadPCs, JavaPaths
    <3>3. QED
      BY <3>1, <3>2
  <2>6. QED
    BY <1>3, <2>1, <2>2, <2>3, <2>4, <2>5
<1>5. CASE outer[t] # <<>>
  <2> DEFINE c == Beneath(t)
             q == Popped(outer[t])
  <2>1. /\ c \in Interrupted /\ q \in CallStacks
        /\ AllCalls(outer[t]) \in Nat /\ AllCalls(q) = AllCalls(outer[t]) - 1
        /\ JavaCalls(outer[t]) = JavaCalls(q) + One(c \in JavaPaths)
    BY <1>1, <1>5, CallPopped DEF Beneath
  <2>2. /\ CallsNest(t, q)
        /\ c = "reload" => t = Monitor /\ q = <<>>
        /\ c \in JavaPaths => JavaCalls(q) = 0
        /\ c \in MailPaths \/ MailBeneath(q) => MailBeneath(outer[t])
    BY <1>1, <1>5, NestPopped DEF Beneath, CallShape, Shape
  <2>3. JavaCalls(outer[t]) \in Nat /\ JavaCalls(q) \in Nat
    BY <1>1, <2>1, CallsCounted
  <2> HIDE DEF c, q
  <2>4. \/ c = "reload" /\ pc'[t] = "redefine" /\ path'[t] = "none"
        \/ c \in MailPaths /\ pc'[t] = "mail" /\ path'[t] = c
    BY <1>2, <1>5, <2>1 DEF ReturnPlace, Interrupted, MailPaths, c
  <2>5. outer'[t] = q
    BY <1>2 DEF q
  <2>6. ThreadTypes'
    <3>1. pc'[t] \in PCs /\ path'[t] \in Paths
      BY <2>4 DEF PCs, ReloadPCs, Paths, MailPaths
    <3>2. outer' \in [Threads -> CallStacks]
      BY <1>1, <1>2, <2>1, <2>5
    <3>3. pc' \in [Threads -> PCs] /\ path' \in [Threads -> Paths]
      BY <1>2, <3>1 DEF TypeOK, ThreadTypes
    <3>4. /\ ref' \in [Threads -> -1..MaxReloads]
          /\ target' \in [Threads -> Targets \cup {NoTarget}]
          /\ scope' \in [Threads -> {"one", "all"}]
      BY DEF Return, TypeOK, ThreadTypes
    <3>5. QED
      BY <3>2, <3>3, <3>4 DEF ThreadTypes
  <2>7. /\ ConfigDepth(t)' = AllCalls(q) + 1
        /\ MyDepth(t)' = JavaCalls(q) + One(c \in JavaPaths)
        /\ Counted(t)' = JavaCalls(q) + One(c \in JavaPaths)
    BY <2>4, <2>5 DEF ConfigDepth, MyDepth, Counted, One, JavaPaths
  <2>8. ASSUME UNCHANGED <<config, setting>>
        PROVE  Roles' /\ Shape(t)'
    <3>1. Roles'
      BY <1>2, <2>2, <2>4, <2>8 DEF TypeOK, ThreadTypes, Roles, ReloadPCs, Threads
    <3>2. MailBeneath(outer[t]) => setting'.by = t
      BY <2>8 DEF CallShape, Shape
    <3>3. Shape(t)'
      BY <2>2, <2>4, <2>5, <3>2 DEF Shape, ReloadPCs, MailPaths, JavaPaths
    <3>4. QED
      BY <3>1, <3>3
  <2>9. QED
    BY <1>3, <2>1, <2>3, <2>4, <2>6, <2>7, <2>8
<1>6. QED
  BY <1>4, <1>5

\* The shape of the threads that do not move is kept if no setting is selected,
\* or if the thread that selects it holds configMonitor.
LEMMA OthersShape ==
  ASSUME CallShape, LocksBalanced, NEW t \in Threads, OnlyMoves(t), Shape(t)',
         TypeOK, setting' = setting \/ ConfigDepth(t) > 0 \/ lock["config"].owner = NoThread
  PROVE  CallShape'
<1> SUFFICES ASSUME NEW u \in Threads, u # t
             PROVE  Shape(u)'
  BY DEF CallShape
<1>1. pc'[u] = pc[u] /\ path'[u] = path[u] /\ outer'[u] = outer[u]
  BY DEF OnlyMoves
<1> DEFINE Selected == pc[u] \in {"init", "dump", "mail"} \/ MailBeneath(outer[u])
<1>2. ASSUME Selected
      PROVE  ConfigDepth(u) > 0
  <2>1. outer[u] \in CallStacks
    BY DEF TypeOK, ThreadTypes
  <2>2. AllCalls(outer[u]) \in Nat /\ (AllCalls(outer[u]) = 0 => outer[u] = <<>>)
    BY <2>1, CallsCounted
  <2>3. AllCalls(outer[u]) # 0 \/ pc[u] \in {"init", "dump", "mail"}
    BY <1>2, <2>2, NothingBeneath
  <2>4. QED
    BY <2>2, <2>3 DEF ConfigDepth, One
<1>3. ASSUME Selected
      PROVE  setting' = setting
  BY <1>2, <1>3, OneHolder DEF Depth, Locks, LocksBalanced, Threads
<1>4. QED
  BY <1>1, <1>3 DEF CallShape, Shape

\* The counter of calls agrees with the owner of myLock if nothing is counted ...
LEMMA SameCount ==
  ASSUME TypeOK, InMyselfCounts, NEW t \in Threads, OnlyMoves(t),
         UNCHANGED <<lock, inMyself>>, Counted(t)' = Counted(t)
  PROVE  InMyselfCounts'
<1>1. \A u \in Threads : Counted(u)' = Counted(u)
  BY OtherDepths DEF SameDepths
<1>2. lock["my"].owner \in Threads \cup {NoThread}
  BY DEF TypeOK, Locks
<1>3. QED
  BY <1>1, <1>2 DEF InMyselfCounts

\* ... or if the owner is counted.
LEMMA OwnerCounts ==
  ASSUME NEW t \in Threads, inMyself' = Counted(t)',
         lock'["my"].owner = t \/ (lock'["my"].owner = NoThread /\ Counted(t)' = 0)
  PROVE  InMyselfCounts'
BY DEF InMyselfCounts

\* A step that stops nobody and takes no lock keeps the dumper alone.
LEMMA StillAlone ==
  ASSUME TypeOK, DumperRunsAlone, NEW t \in Threads, OnlyMoves(t), UNCHANGED suspended,
         lock'["config"].owner \in {lock["config"].owner, NoThread}, pc'[t] # "dump"
  PROVE  DumperRunsAlone'
BY DEF DumperRunsAlone, OnlyMoves, TypeOK, SharedTypes

\* A step of t within a call, without locks, counter, setting or suspension.
LEMMA QuietStep ==
  ASSUME IInv, TypeOK', NEW t \in Threads, OnlyMoves(t), SameDepths(t), Shape(t)',
         pc'[t] # "dump", UNCHANGED <<lock, inMyself, suspended, setting>>
  PROVE  IInv'
<1> USE DEF IInv, SameDepths
<1>1. LocksBalanced'
  BY SameLocks
<1>2. InMyselfCounts'
  BY SameCount
<1>3. DumperRunsAlone'
  BY StillAlone
<1>4. CallShape'
  BY OthersShape
<1>5. QED
  BY <1>1, <1>2, <1>3, <1>4

-----------------------------------------------------------------------------
(* Steps that touch neither locks, counter, setting nor suspension *)

\* An exception event takes no lock and counts nothing.
LEMMA ExceptionEventStep ==
  ASSUME IInv, NEW t \in Threads, ExceptionEvent(t)
  PROVE  IInv'
<1> USE DEF ExceptionEvent, At, Go, java, conf, IInv, TypeOK
<1>1. TypeOK'
  BY DEF ThreadTypes, SharedTypes, Roles, PCs, ReloadPCs, Threads
<1>2. OnlyMoves(t) /\ pc'[t] = "mode" /\ outer'[t] = outer[t] /\ path'[t] = path[t]
  BY DEF OnlyMoves, ThreadTypes
<1>3. SameDepths(t)
  BY <1>2, CountsAreNat DEF SameDepths, ConfigDepth, MyDepth, Counted, One
<1>4. Shape(t)'
  BY <1>2 DEF CallShape, Shape, ReloadPCs
<1>5. QED
  BY <1>1, <1>2, <1>3, <1>4, QuietStep

\* An exception raised under a mail or a reload leaves the locks to the call it interrupts.
LEMMA NestedExceptionEventStep ==
  ASSUME IInv, NEW t \in Threads, NestedExceptionEvent(t)
  PROVE  IInv'
<1> USE DEF IInv, TypeOK
<1>1. /\ UNCHANGED <<target, scope, suspended, lock, inMyself, exceptionList, config, contents,
                     live, setting, errorStatus>>
      /\ pc' = [pc EXCEPT ![t] = "mode"] /\ path' = [path EXCEPT ![t] = "none"]
      /\ ref' = [ref EXCEPT ![t] = config]
      /\ pc[t] \in {"mail", "redefine"}
  BY DEF NestedExceptionEvent, At, Go, java, conf
<1>2. PICK c \in Interrupted :
        /\ outer' = [outer EXCEPT ![t] = Append(outer[t], c)]
        /\ \/ pc[t] = "mail" /\ c = path[t] /\ c \in MailPaths
           \/ pc[t] = "redefine" /\ c = "reload"
  <2>1. pc[t] = "mail" => path[t] \in MailPaths
    BY DEF CallShape, Shape
  <2>2. QED
    BY <2>1 DEF NestedExceptionEvent, At, Interrupted
<1>3. outer \in [Threads -> CallStacks] /\ outer[t] \in CallStacks
  BY DEF ThreadTypes
<1> DEFINE a == Append(outer[t], c)
<1>4. /\ a \in CallStacks
      /\ AllCalls(a) = AllCalls(outer[t]) + 1
      /\ JavaCalls(a) = JavaCalls(outer[t]) + One(c \in JavaPaths)
      /\ JavaCalls(outer[t]) \in Nat /\ AllCalls(outer[t]) \in Nat
  BY <1>3, CallPushed, CallsCounted
<1>5. CallsNest(t, a) /\ (MailBeneath(a) => setting.by = t)
  <2>1. CASE c \in MailPaths /\ c = path[t] /\ pc[t] = "mail"
    <3>1. c \in JavaPaths => JavaCalls(outer[t]) = 0
      BY <2>1 DEF CallShape, Shape
    <3>2. CallsNest(t, outer[t]) /\ setting.by = t
      BY <2>1 DEF CallShape, Shape
    <3>3. QED
      BY <1>3, <2>1, <3>1, <3>2, MailPushed
  <2>2. CASE pc[t] = "redefine" /\ c = "reload"
    <3>1. t = Monitor /\ outer[t] = <<>>
      BY <2>2 DEF CallShape, Shape, Roles, ReloadPCs
    <3>2. QED
      BY <2>2, <3>1, ReloadPushed
  <2>3. QED
    BY <1>2, <2>1, <2>2
<1>6. outer' = [outer EXCEPT ![t] = a] /\ outer'[t] = a
  BY <1>2, <1>3
<1> HIDE DEF a
<1>7. TypeOK'
  <2>1. ThreadTypes'
    <3>1. outer' \in [Threads -> CallStacks]
      BY <1>3, <1>4, <1>6
    <3>2. config \in -1..MaxReloads
      BY DEF SharedTypes
    <3>3. ref' \in [Threads -> -1..MaxReloads]
      BY <1>1, <3>2 DEF ThreadTypes
    <3>4. pc' \in [Threads -> PCs] /\ path' \in [Threads -> Paths]
      BY <1>1 DEF ThreadTypes, Paths, PCs
    <3>5. QED
      BY <1>1, <3>1, <3>3, <3>4 DEF ThreadTypes
  <2>2. SharedTypes' /\ lock' = lock
    BY <1>1 DEF SharedTypes
  <2>3. Roles'
    BY <1>1 DEF ThreadTypes, Roles, ReloadPCs, Threads
  <2>4. QED
    BY <2>1, <2>2, <2>3
<1>8. OnlyMoves(t) /\ pc'[t] = "mode" /\ path'[t] = "none"
  BY <1>1, <1>6 DEF OnlyMoves, ThreadTypes
<1>9. SameDepths(t)
  <2>1. ConfigDepth(t)' = ConfigDepth(t)
    BY <1>1, <1>4, <1>6, <1>8, CountsAreNat DEF ConfigDepth, One
  <2>2. MyDepth(t)' = MyDepth(t) /\ Counted(t)' = Counted(t)
    <3>1. MyDepth(t)' = JavaCalls(a) /\ Counted(t)' = JavaCalls(a)
      <4>1. JavaCalls(a) \in Nat
        BY <1>4, CallsCounted
      <4>2. QED
        BY <1>6, <1>8, <4>1 DEF MyDepth, Counted, One
    <3>2. pc[t] = "mail" \/ pc[t] = "redefine"
      BY <1>1
    <3>3. /\ MyDepth(t) = JavaCalls(outer[t]) + One(c \in JavaPaths)
          /\ Counted(t) = JavaCalls(outer[t]) + One(c \in JavaPaths)
      BY <1>2, <3>2 DEF MyDepth, Counted, One, JavaPaths
    <3>4. QED
      BY <1>4, <3>1, <3>3
  <2>3. QED
    BY <2>1, <2>2 DEF SameDepths
<1>10. Shape(t)'
  BY <1>1, <1>5, <1>6, <1>8 DEF Shape, ReloadPCs, JavaPaths
<1>11. QED
  BY <1>1, <1>7, <1>8, <1>9, <1>10, QuietStep

\* A call of an instrumented method begins without a lock.
LEMMA MethodEventStep ==
  ASSUME IInv, NEW t \in Threads, MethodEvent(t)
  PROVE  IInv'
<1> USE DEF MethodEvent, At, Go, java, conf, IInv, TypeOK
<1>1. TypeOK'
  BY DEF ThreadTypes, SharedTypes, Roles, Paths, PCs, ReloadPCs, Threads
<1>2. /\ OnlyMoves(t) /\ pc[t] = "run" /\ pc'[t] = "callback"
      /\ path'[t] = "method" /\ outer'[t] = outer[t]
  BY DEF OnlyMoves, ThreadTypes
<1>3. SameDepths(t)
  BY <1>2, CountsAreNat DEF SameDepths, ConfigDepth, MyDepth, Counted, One
<1>4. Shape(t)'
  BY <1>2 DEF CallShape, Shape, ReloadPCs
<1>5. QED
  BY <1>1, <1>2, <1>3, <1>4, QuietStep

\* Choosing between the entry points takes no lock yet.
LEMMA ReadModeStep ==
  ASSUME IInv, NEW t \in Threads, ReadMode(t)
  PROVE  IInv'
<1> USE DEF ReadMode, At, java, conf, IInv, TypeOK
<1>1. /\ UNCHANGED <<suspended, lock, inMyself, exceptionList, config, contents, live, setting,
                     errorStatus>>
      /\ pc[t] = "mode"
  OBVIOUS
<1>2. SharedTypes' /\ lock' = lock
  BY <1>1 DEF SharedTypes
<1>3. CASE Return(t)
  <2>1. /\ OnlyMoves(t) /\ ThreadTypes' /\ Roles' /\ Shape(t)'
        /\ ConfigDepth(t)' = AllCalls(outer[t])
        /\ MyDepth(t)' = JavaCalls(outer[t])
        /\ Counted(t)' = JavaCalls(outer[t])
    BY <1>1, <1>3, ReturnDepths
  <2>2. SameDepths(t)
    BY <1>1, <2>1, CountsAreNat DEF SameDepths, ConfigDepth, MyDepth, Counted, One
  <2>3. pc'[t] # "dump"
    BY <1>3 DEF Return, ReturnPlace, Go, ThreadTypes
  <2>4. QED
    BY <1>1, <1>2, <2>1, <2>2, <2>3, QuietStep
<1>4. CASE ~Return(t)
  <2>1. /\ OnlyMoves(t) /\ outer' = outer
        /\ \/ /\ pc' = [pc EXCEPT ![t] = "acquire"]
              /\ path'[t] \in {"throwable", "overflow"}
           \/ /\ pc' = [pc EXCEPT ![t] = "callback"]
              /\ path'[t] = "exception"
        /\ ThreadTypes'
    BY <1>4 DEF OnlyMoves, ThreadTypes, Go, Paths, PCs
  <2>2. TypeOK'
    BY <1>1, <1>2, <2>1 DEF ThreadTypes, Roles, ReloadPCs, Threads
  <2>3. SameDepths(t) /\ Shape(t)' /\ pc'[t] # "dump"
    BY <1>1, <2>1, CountsAreNat
      DEF SameDepths, ConfigDepth, MyDepth, Counted, One, Shape, ThreadTypes,
                      JavaPaths, ReloadPCs, CallShape
  <2>4. QED
    BY <1>1, <2>1, <2>2, <2>3, QuietStep
<1>5. QED
  BY <1>3, <1>4

\* A call that decides against a dump keeps configMonitor until its end.
LEMMA DoNotDumpStep ==
  ASSUME IInv, NEW t \in Threads, DoNotDump(t)
  PROVE  IInv'
<1> USE DEF DoNotDump, At, Go, java, conf, IInv, TypeOK
<1>1. TypeOK'
  BY DEF ThreadTypes, SharedTypes, Roles, PCs, ReloadPCs, Threads
<1>2. /\ OnlyMoves(t) /\ pc[t] = "init" /\ pc'[t] = "exit"
      /\ outer'[t] = outer[t] /\ path'[t] = path[t]
  BY DEF OnlyMoves, ThreadTypes
<1>3. SameDepths(t)
  BY <1>2, CountsAreNat DEF SameDepths, ConfigDepth, MyDepth, Counted, One
<1>4. Shape(t)'
  BY <1>2 DEF CallShape, Shape, ReloadPCs
<1>5. QED
  BY <1>1, <1>2, <1>3, <1>4, QuietStep

\* A mail is sent under the locks that its dump holds.
LEMMA SendMailStep ==
  ASSUME IInv, NEW t \in Threads, SendMail(t)
  PROVE  IInv'
<1> USE DEF SendMail, At, Go, java, conf, IInv, TypeOK
<1>1. TypeOK'
  BY DEF ThreadTypes, SharedTypes, Roles, PCs, ReloadPCs, Threads
<1>2. /\ OnlyMoves(t) /\ pc[t] = "mail" /\ pc'[t] = "exit"
      /\ outer'[t] = outer[t] /\ path'[t] = path[t]
  BY DEF OnlyMoves, ThreadTypes
<1>3. SameDepths(t)
  BY <1>2, CountsAreNat DEF SameDepths, ConfigDepth, MyDepth, Counted, One
<1>4. Shape(t)'
  BY <1>2 DEF CallShape, Shape, ReloadPCs
<1>5. QED
  BY <1>1, <1>2, <1>3, <1>4, QuietStep

\* A signal is asked for and answered without a lock.
LEMMA SignalStep ==
  ASSUME IInv, DataDumpRequest \/ ReadSignal
  PROVE  IInv'
<1> DEFINE t == Signal
<1> USE DEF At, java, conf, IInv, TypeOK
<1>1. /\ UNCHANGED <<suspended, lock, inMyself, exceptionList, config, contents, live, setting,
                     errorStatus>>
      /\ pc[t] \in {"run", "ask"} /\ t \in Threads /\ outer[t] = <<>>
  BY DEF DataDumpRequest, ReadSignal, Threads, CallShape, Shape
<1>2. SharedTypes' /\ lock' = lock
  BY <1>1 DEF SharedTypes
<1>3. CASE Return(t)
  <2>1. /\ OnlyMoves(t) /\ ThreadTypes' /\ Roles' /\ Shape(t)'
        /\ ConfigDepth(t)' = AllCalls(outer[t])
        /\ MyDepth(t)' = JavaCalls(outer[t])
        /\ Counted(t)' = JavaCalls(outer[t])
    BY <1>1, <1>3, ReturnDepths
  <2>2. SameDepths(t)
    BY <1>1, <2>1, CountsAreNat DEF SameDepths, ConfigDepth, MyDepth, Counted, One
  <2>3. pc'[t] # "dump"
    BY <1>1, <1>3 DEF Return, ReturnPlace, Go, ThreadTypes
  <2>4. QED
    BY <1>1, <1>2, <2>1, <2>2, <2>3, QuietStep
<1>4. CASE ~Return(t)
  <2>1. /\ OnlyMoves(t) /\ outer' = outer
        /\ \/ pc' = [pc EXCEPT ![t] = "ask"] /\ path' = path
           \/ pc' = [pc EXCEPT ![t] = "acquire"] /\ path'[t] = "signal"
        /\ ThreadTypes'
    BY <1>4 DEF DataDumpRequest, ReadSignal, OnlyMoves, ThreadTypes, SharedTypes, Go, Paths, PCs,
                Threads
  <2>2. TypeOK'
    BY <1>1, <1>2, <2>1 DEF ThreadTypes, Roles, ReloadPCs, Threads
  <2>3. SameDepths(t) /\ Shape(t)' /\ pc'[t] # "dump"
    BY <1>1, <2>1, CountsAreNat
      DEF SameDepths, ConfigDepth, MyDepth, Counted, One, Shape, ThreadTypes,
                      JavaPaths, ReloadPCs, CallShape
  <2>4. QED
    BY <1>1, <2>1, <2>2, <2>3, QuietStep
<1>5. QED
  BY <1>3, <1>4

\* The steps of monitorThread outside configMonitor.
LEMMA QuietReloadStep ==
  ASSUME IInv,
         \/ ReadConfigFile \/ ReadConfigFileFails \/ SetMonitorClass
         \/ DeleteNewConfig \/ SetErrorStatus \/ MonitorStops
  PROVE  IInv'
<1> DEFINE t == Monitor
<1> USE DEF ReadConfigFile, ReadConfigFileFails, SetMonitorClass, DeleteNewConfig, SetErrorStatus,
            MonitorStops, At, Go, thread, java, conf, IInv, TypeOK
<1>1. /\ UNCHANGED <<path, outer, ref, target, scope, suspended, lock, inMyself, config, contents,
                     setting>>
      /\ t \in Threads /\ pc[t] \in {"run", "setlist", "unload", "fail"}
      /\ pc'[t] \in {"run", "setlist", "reload", "fail", "stopped"}
      /\ pc' = [pc EXCEPT ![t] = pc'[t]]
      /\ pc'[t] = "setlist" => config < MaxReloads
      /\ pc'[t] = "reload" => pc[t] = "setlist"
  BY DEF Threads, ThreadTypes
<1>2. ThreadTypes' /\ Roles'
  BY <1>1 DEF ThreadTypes, Roles, PCs, ReloadPCs
<1>3. SharedTypes'
  <2>1. exceptionList' \subseteq Targets
    BY DEF SharedTypes, Roles, Content
  <2>2. errorStatus' \in BOOLEAN
    BY DEF SharedTypes
  <2>3. live' \subseteq live \cup {config + 1} /\ (live' \subseteq live \/ config < MaxReloads)
    OBVIOUS
  <2>4. live' \subseteq 0..MaxReloads
    BY <2>3 DEF SharedTypes
  <2>5. QED
    BY <1>1, <2>1, <2>2, <2>4 DEF SharedTypes
<1>4. OnlyMoves(t)
  BY <1>1 DEF OnlyMoves, ThreadTypes
<1>5. SameDepths(t) /\ Shape(t)'
  BY <1>1, CountsAreNat
    DEF SameDepths, ConfigDepth, MyDepth, Counted, One, Shape, CallShape, ReloadPCs
<1>6. QED
  BY <1>1, <1>2, <1>3, <1>4, <1>5, QuietStep

-----------------------------------------------------------------------------
(* Steps of the Java class Callbacks *)

\* Callbacks.callback enters myLock once.
LEMMA EnterCallbackStep ==
  ASSUME IInv, NEW t \in Threads, EnterCallback(t)
  PROVE  IInv'
<1> USE DEF EnterCallback, At, Go, java, conf, IInv, TypeOK
<1>1. /\ UNCHANGED <<path, outer, suspended, inMyself, setting>>
      /\ pc[t] = "callback" /\ pc' = [pc EXCEPT ![t] = "scan"] /\ pc'[t] = "scan"
      /\ path[t] \in JavaPaths
  BY DEF ThreadTypes, JavaPaths
<1>2. ThreadTypes' /\ SharedTypes' /\ Roles'
  <2>1. ThreadTypes'
    BY <1>1 DEF ThreadTypes, PCs
  <2>2. SharedTypes'
    BY DEF SharedTypes
  <2>3. Roles'
    BY <1>1 DEF ThreadTypes, Roles, ReloadPCs, Threads
  <2>4. QED
    BY <2>1, <2>2, <2>3
<1>3. OnlyMoves(t)
  BY <1>1 DEF OnlyMoves, ThreadTypes
<1>4. /\ MyDepth(t)' = MyDepth(t) + 1 /\ Counted(t)' = Counted(t)
      /\ ConfigDepth(t)' = ConfigDepth(t)
  BY <1>1, CountsAreNat DEF MyDepth, Counted, ConfigDepth, One
<1>5. LocksBalanced' /\ lock' \in [Locks -> [owner : Threads \cup {NoThread}, depth : Nat]]
  BY <1>3, <1>4, EnterLock DEF Depth, Locks
<1>6. lock'["my"].owner = t /\ lock'["config"] = lock["config"]
  BY DEF Acquire, Locks
<1>7. InMyselfCounts'
  <2>1. inMyself = Counted(t)
    <3>1. CASE lock["my"].owner = t
      BY <3>1 DEF InMyselfCounts
    <3>2. CASE lock["my"].owner = NoThread
      <4>1. MyDepth(t) \in Nat /\ ~(MyDepth(t) > 0)
        BY <3>2, DepthsAreNat DEF LocksBalanced, Locks, Depth
      <4>2. Counted(t) = 0
        BY <4>1, <1>1, CountsAreNat DEF MyDepth, Counted, One
      <4>3. QED
        BY <3>2, <4>2 DEF InMyselfCounts
    <3>3. QED
      BY <3>1, <3>2 DEF Acquire
  <2>2. QED
    BY <1>1, <1>4, <1>6, <2>1, OwnerCounts
<1>8. DumperRunsAlone'
  BY <1>1, <1>3, <1>6, StillAlone
<1>9. CallShape'
  BY <1>1, <1>3, OthersShape DEF Shape, CallShape, ReloadPCs
<1>10. QED
  BY <1>2, <1>5, <1>7, <1>8, <1>9

\* Callbacks.callback_for_method enters myLock and the counter together.
LEMMA EnterMethodCallbackStep ==
  ASSUME IInv, NEW t \in Threads, EnterMethodCallback(t)
  PROVE  IInv'
<1> USE DEF EnterMethodCallback, At, Go, conf, IInv, TypeOK, CountIn
<1>1. /\ UNCHANGED <<path, outer, suspended, setting>> /\ inMyself' = inMyself + 1
      /\ pc[t] = "callback" /\ pc' = [pc EXCEPT ![t] = pc'[t]] /\ pc'[t] \in {"uncount", "acquire"}
      /\ path[t] = "method" /\ outer[t] = <<>>
  BY DEF ThreadTypes, CallShape, Shape
<1>2. ThreadTypes' /\ SharedTypes' /\ Roles'
  <2>1. ThreadTypes'
    BY <1>1 DEF ThreadTypes, PCs
  <2>2. SharedTypes'
    BY DEF SharedTypes
  <2>3. Roles'
    BY <1>1 DEF ThreadTypes, Roles, ReloadPCs, Threads
  <2>4. QED
    BY <2>1, <2>2, <2>3
<1>3. OnlyMoves(t)
  BY <1>1 DEF OnlyMoves, ThreadTypes
<1>4. /\ MyDepth(t) = 0 /\ MyDepth(t)' = 1
      /\ Counted(t)' = 1
      /\ ConfigDepth(t)' = ConfigDepth(t)
  <2>1. JavaCalls(outer[t]) = 0 /\ outer'[t] = outer[t] /\ path'[t] = path[t]
    BY <1>1, NoCalls
  <2>2. QED
    BY <1>1, <2>1 DEF MyDepth, Counted, ConfigDepth, One, JavaPaths
<1>5. LocksBalanced' /\ lock' \in [Locks -> [owner : Threads \cup {NoThread}, depth : Nat]]
  BY <1>3, <1>4, EnterLock DEF Depth, Locks
<1>6. lock'["my"].owner = t /\ lock'["config"] = lock["config"]
  BY DEF Acquire, Locks
<1>7. InMyselfCounts'
  <2>1. lock["my"].owner # t
    BY <1>4 DEF LocksBalanced, Locks, Depth
  <2>2. inMyself = 0
    BY <2>1 DEF InMyselfCounts, Acquire
  <2>3. QED
    BY <1>1, <1>4, <1>6, <2>2, OwnerCounts
<1>8. DumperRunsAlone'
  BY <1>1, <1>3, <1>6, StillAlone
<1>9. CallShape'
  BY <1>1, <1>3, NoCalls, OthersShape DEF Shape, CallShape, ReloadPCs, JavaPaths
<1>10. QED
  BY <1>2, <1>5, <1>7, <1>8, <1>9

\* The end of a callback leaves myLock and the counter together.
LEMMA LeaveCallbackStep ==
  ASSUME IInv, NEW t \in Threads, LeaveCallback(t)
  PROVE  IInv'
<1> USE DEF LeaveCallback, At, conf, IInv, TypeOK, CountOut
<1>1. /\ UNCHANGED <<suspended, setting, config>> /\ inMyself' = inMyself - 1
      /\ pc[t] = "uncount" /\ path[t] \in JavaPaths
  BY DEF CallShape, Shape
<1>2. /\ OnlyMoves(t) /\ ThreadTypes' /\ Roles' /\ Shape(t)'
      /\ ConfigDepth(t)' = AllCalls(outer[t])
      /\ MyDepth(t)' = JavaCalls(outer[t])
      /\ Counted(t)' = JavaCalls(outer[t])
  BY <1>1, ReturnDepths
<1>3. /\ MyDepth(t) = MyDepth(t)' + 1 /\ MyDepth(t)' \in Nat
      /\ Counted(t) = Counted(t)' + 1 /\ Counted(t)' \in Nat /\ Counted(t)' = MyDepth(t)'
      /\ ConfigDepth(t)' = ConfigDepth(t)
  BY <1>1, <1>2, CountsAreNat DEF MyDepth, Counted, ConfigDepth, One
<1>4. LocksBalanced' /\ lock' \in [Locks -> [owner : Threads \cup {NoThread}, depth : Nat]]
  BY <1>2, <1>3, LeaveLock DEF Depth, Locks
<1>5. lock["my"].owner = t /\ lock["my"].depth = MyDepth(t)
  BY <1>3 DEF LocksBalanced, Locks, Depth
<1>6. inMyself = Counted(t) /\ inMyself' = Counted(t)'
  BY <1>1, <1>3, <1>5 DEF InMyselfCounts
<1>7. SharedTypes'
  BY <1>3, <1>6 DEF SharedTypes
<1>8. /\ lock'["my"].owner = t \/ (lock'["my"].owner = NoThread /\ MyDepth(t)' = 0)
      /\ lock'["config"] = lock["config"]
  BY <1>3, <1>5 DEF Release, Locks
<1>9. InMyselfCounts'
  BY <1>3, <1>6, <1>8, OwnerCounts
<1>10. pc'[t] # "dump"
  BY DEF Return, ReturnPlace, Go, ThreadTypes
<1>11. DumperRunsAlone'
  BY <1>1, <1>2, <1>8, <1>10, StillAlone
<1>12. CallShape'
  BY <1>1, <1>2, OthersShape
<1>13. QED
  BY <1>2, <1>4, <1>7, <1>9, <1>11, <1>12

\* A match enters the counter, a miss leaves myLock.
LEMMA ScanExceptionListStep ==
  ASSUME IInv, NEW t \in Threads, ScanExceptionList(t)
  PROVE  IInv'
<1> USE DEF At, conf, IInv, TypeOK
<1>1. /\ UNCHANGED <<suspended, exceptionList, config, contents, live, setting, errorStatus>>
      /\ pc[t] = "scan" /\ path[t] \in JavaPaths
  BY DEF ScanExceptionList, CallShape, Shape
<1>2. MyDepth(t) = JavaCalls(outer[t]) + 1 /\ Counted(t) = JavaCalls(outer[t])
  <2>1. JavaCalls(outer[t]) \in Nat
    BY CountsAreNat
  <2>2. MyDepth(t) = JavaCalls(outer[t]) + 1
    BY ONLY <1>1, <2>1 DEF MyDepth, One
  <2>3. Counted(t) = JavaCalls(outer[t])
    BY ONLY <1>1, <2>1 DEF Counted, One
  <2>4. QED
    BY <2>2, <2>3
<1>3. lock["my"].owner = t /\ lock["my"].depth = MyDepth(t)
  <2>1. MyDepth(t) > 0
    BY <1>2, CountsAreNat
  <2>2. QED
    BY ONLY <2>1, IInv DEF LocksBalanced, Locks, Depth
<1>4. inMyself = Counted(t)
  BY <1>3 DEF InMyselfCounts
<1>5. ASSUME NEW e \in exceptionList,
             CountIn,
             \/ /\ MayDump
                /\ target' = [target EXCEPT ![t] = e]
                /\ Go(t, "acquire")
             \/ Go(t, "uncount") /\ UNCHANGED target,
             UNCHANGED <<path, outer, ref, scope, lock>>
      PROVE  IInv'
  <2> USE DEF Go
  <2>1. /\ pc' = [pc EXCEPT ![t] = pc'[t]] /\ pc'[t] \in {"acquire", "uncount"}
        /\ pc'[t] = "acquire" => inMyself = 0
        /\ target' \in [Threads -> Targets \cup {NoTarget}]
    <3>1. pc' = [pc EXCEPT ![t] = "acquire"] \/ pc' = [pc EXCEPT ![t] = "uncount"]
      BY <1>5
    <3>2. ASSUME pc'[t] = "acquire"
          PROVE  inMyself = 0
      <4>1. pc \in [Threads -> PCs]
        BY DEF ThreadTypes
      <4>2. ~(pc' = [pc EXCEPT ![t] = "uncount"])
        BY <3>2, <4>1
      <4>3. MayDump
        BY <1>5, <4>2
      <4>4. QED
        BY <4>3 DEF MayDump
    <3>3. target' \in [Threads -> Targets \cup {NoTarget}]
      <4>1. target \in [Threads -> Targets \cup {NoTarget}] /\ e \in Targets
        BY DEF ThreadTypes, SharedTypes
      <4>2. target' = target \/ target' = [target EXCEPT ![t] = e]
        BY <1>5
      <4>3. QED
        BY ONLY <4>1, <4>2
    <3>4. QED
      BY <3>1, <3>2, <3>3 DEF ThreadTypes
  <2>2. inMyself' = inMyself + 1
    BY <1>5 DEF CountIn
  <2>3. ThreadTypes' /\ SharedTypes' /\ Roles' /\ OnlyMoves(t)
    <3>1. ThreadTypes'
      BY <1>5, <2>1 DEF ThreadTypes, PCs
    <3>2. SharedTypes'
      BY <1>1, <2>2 DEF SharedTypes
    <3>3. Roles' /\ OnlyMoves(t)
      BY <1>1, <1>5, <2>1 DEF ThreadTypes, Roles, ReloadPCs, Threads, OnlyMoves
    <3>4. QED
      BY <3>1, <3>2, <3>3
  <2>4. /\ MyDepth(t)' = MyDepth(t) /\ Counted(t)' = Counted(t) + 1
        /\ ConfigDepth(t)' = ConfigDepth(t)
    BY <1>1, <1>5, <2>1, CountsAreNat DEF MyDepth, Counted, ConfigDepth, One
  <2>5. LocksBalanced'
    BY <1>5, <2>3, <2>4, SameLocks
  <2>6. InMyselfCounts'
    BY <1>3, <1>4, <1>5, <2>2, <2>4, OwnerCounts
  <2>7. DumperRunsAlone'
    BY <1>1, <1>5, <2>1, <2>3, StillAlone
  <2>8. Shape(t)'
    BY <1>1, <1>2, <1>4, <1>5, <2>1 DEF Shape, CallShape, ReloadPCs, One
  <2>9. CallShape'
    BY <1>1, <2>3, <2>8, OthersShape
  <2>10. QED
    BY <1>5, <2>3, <2>5, <2>6, <2>7, <2>9
<1>6. ASSUME Release(t, "my"), Return(t), UNCHANGED inMyself
      PROVE  IInv'
  <2>1. /\ OnlyMoves(t) /\ ThreadTypes' /\ Roles' /\ Shape(t)'
        /\ ConfigDepth(t)' = AllCalls(outer[t])
        /\ MyDepth(t)' = JavaCalls(outer[t])
        /\ Counted(t)' = JavaCalls(outer[t])
    BY <1>1, <1>6, ReturnDepths
  <2>2. /\ MyDepth(t) = MyDepth(t)' + 1 /\ MyDepth(t)' \in Nat
        /\ Counted(t)' = Counted(t) /\ Counted(t)' = MyDepth(t)'
        /\ ConfigDepth(t)' = ConfigDepth(t)
    BY <1>1, <1>2, <2>1, CountsAreNat DEF ConfigDepth, One
  <2>3. LocksBalanced' /\ lock' \in [Locks -> [owner : Threads \cup {NoThread}, depth : Nat]]
    BY <1>6, <2>1, <2>2, LeaveLock DEF Depth, Locks
  <2>4. /\ lock'["my"].owner = t \/ (lock'["my"].owner = NoThread /\ MyDepth(t)' = 0)
        /\ lock'["config"] = lock["config"]
    BY <1>3, <1>6, <2>2 DEF Release, Locks
  <2>5. InMyselfCounts'
    BY <1>4, <1>6, <2>2, <2>4, OwnerCounts
  <2>6. pc'[t] # "dump"
    BY <1>6 DEF Return, ReturnPlace, Go, ThreadTypes
  <2>7. DumperRunsAlone'
    BY <1>1, <2>1, <2>4, <2>6, StillAlone
  <2>8. CallShape'
    BY <1>1, <2>1, OthersShape
  <2>9. SharedTypes'
    BY <1>1, <1>6 DEF SharedTypes
  <2>10. QED
    BY <2>1, <2>3, <2>5, <2>7, <2>8, <2>9
<1>7. QED
  BY <1>5, <1>6 DEF ScanExceptionList

-----------------------------------------------------------------------------
(* Steps that take or release configMonitor *)

\* An entry point enters configMonitor once.
LEMMA AcquireConfigMonitorStep ==
  ASSUME IInv, NEW t \in Threads, AcquireConfigMonitor(t)
  PROVE  IInv'
<1> USE DEF AcquireConfigMonitor, At, Go, java, conf, IInv, TypeOK
<1>1. /\ UNCHANGED <<path, outer, suspended, inMyself, setting>> /\ t \notin suspended
      /\ pc[t] = "acquire" /\ pc' = [pc EXCEPT ![t] = "enter"] /\ pc'[t] = "enter"
  BY DEF ThreadTypes
<1>2. ThreadTypes' /\ SharedTypes' /\ Roles'
  <2>1. ThreadTypes'
    BY <1>1 DEF ThreadTypes, PCs
  <2>2. SharedTypes'
    BY DEF SharedTypes
  <2>3. Roles'
    BY <1>1 DEF ThreadTypes, Roles, ReloadPCs, Threads
  <2>4. QED
    BY <2>1, <2>2, <2>3
<1>3. OnlyMoves(t)
  BY <1>1 DEF OnlyMoves, ThreadTypes
<1>4. /\ MyDepth(t)' = MyDepth(t) /\ Counted(t)' = Counted(t)
      /\ ConfigDepth(t)' = ConfigDepth(t) + 1
  BY <1>1, CountsAreNat DEF MyDepth, Counted, ConfigDepth, One
<1>5. LocksBalanced' /\ lock' \in [Locks -> [owner : Threads \cup {NoThread}, depth : Nat]]
  BY <1>3, <1>4, EnterLock DEF Depth, Locks
<1>6. lock'["config"].owner = t /\ lock'["my"] = lock["my"]
  BY DEF Acquire, Locks
<1>7. InMyselfCounts'
  <2>1. \A u \in Threads : Counted(u)' = Counted(u)
    BY <1>3, <1>4, OtherDepths DEF SameDepths
  <2>2. QED
    BY <1>1, <1>6, <2>1 DEF InMyselfCounts, Locks
<1>8. DumperRunsAlone'
  BY <1>1, <1>3, <1>6 DEF DumperRunsAlone, OnlyMoves
<1>9. CallShape'
  BY <1>1, <1>3, OthersShape DEF Shape, CallShape, ReloadPCs
<1>10. QED
  BY <1>2, <1>5, <1>7, <1>8, <1>9

\* The installation of a Config enters configMonitor and takes the setting away.
LEMMA InstallConfigStep ==
  ASSUME IInv, InstallConfig
  PROVE  IInv'
<1> DEFINE t == Monitor
<1> USE DEF InstallConfig, At, Go, java, IInv, TypeOK
<1>1. /\ UNCHANGED <<path, outer, suspended, inMyself>> /\ t \in Threads /\ t \notin suspended
      /\ pc[t] = "reload" /\ pc' = [pc EXCEPT ![t] = "redefine"] /\ pc'[t] = "redefine"
      /\ outer[t] = <<>>
  BY DEF ThreadTypes, Threads, CallShape, Shape, ReloadPCs
<1>2. ThreadTypes' /\ SharedTypes' /\ Roles'
  <2>1. ThreadTypes'
    BY <1>1 DEF ThreadTypes, PCs, ReloadPCs
  <2>2. config' \in 0..MaxReloads
    BY <1>1 DEF Roles, SharedTypes
  <2>3. setting' \in [by : Threads \cup {NoThread}, key : Keys]
    BY DEF NoSetting, Keys
  <2>4. SharedTypes'
    BY <2>2, <2>3 DEF SharedTypes
  <2>5. Roles'
    BY <1>1 DEF ThreadTypes, Roles, ReloadPCs, Threads
  <2>6. QED
    BY <2>1, <2>4, <2>5
<1>3. OnlyMoves(t)
  BY <1>1 DEF OnlyMoves, ThreadTypes
<1>4. /\ MyDepth(t)' = MyDepth(t) /\ Counted(t)' = Counted(t)
      /\ ConfigDepth(t) = 0 /\ ConfigDepth(t)' = 1
  <2>1. JavaCalls(outer[t]) = 0 /\ AllCalls(outer[t]) = 0 /\ outer'[t] = outer[t]
    BY <1>1, NoCalls
  <2>2. QED
    BY <1>1, <2>1 DEF MyDepth, Counted, ConfigDepth, One
<1>5. LocksBalanced' /\ lock' \in [Locks -> [owner : Threads \cup {NoThread}, depth : Nat]]
  BY <1>1, <1>3, <1>4, EnterLock DEF Depth, Locks
<1>6. lock'["config"].owner = t /\ lock'["my"] = lock["my"] /\ lock["config"].owner = NoThread
  BY <1>1, <1>4 DEF Acquire, Locks, LocksBalanced, Depth
<1>7. InMyselfCounts'
  <2>1. \A u \in Threads : Counted(u)' = Counted(u)
    BY <1>1, <1>3, <1>4, OtherDepths DEF SameDepths
  <2>2. QED
    BY <1>1, <1>6, <2>1 DEF InMyselfCounts, Locks
<1>8. DumperRunsAlone'
  BY <1>1, <1>3, <1>6 DEF DumperRunsAlone, OnlyMoves
<1>9. Shape(t)'
  BY <1>1, NoCalls, NothingBeneath DEF Shape, JavaPaths
<1>10. CallShape'
  BY <1>1, <1>3, <1>6, <1>9, OthersShape
<1>11. QED
  BY <1>2, <1>5, <1>7, <1>8, <1>10

\* A thread that leaves configMonitor, and does nothing else to the shared state
\* that the invariant is about, keeps the invariant.
LEMMA LeaveConfigMonitor ==
  ASSUME IInv, NEW t \in Threads, OnlyMoves(t), Release(t, "config"),
         UNCHANGED <<suspended, inMyself, setting>>, ThreadTypes', SharedTypes', Roles', Shape(t)',
         ConfigDepth(t) = ConfigDepth(t)' + 1,
         MyDepth(t)' = MyDepth(t), Counted(t)' = Counted(t), pc'[t] # "dump"
  PROVE  IInv'
<1> USE DEF IInv, TypeOK
<1>1. LocksBalanced' /\ lock' \in [Locks -> [owner : Threads \cup {NoThread}, depth : Nat]]
  BY LeaveLock DEF Depth, Locks
<1>2. ConfigDepth(t)' \in Nat
  BY DepthsStayNat
<1>3. lock["config"].owner = t
  BY <1>2 DEF LocksBalanced, Depth, Locks
<1>4. lock'["config"].owner \in {t, NoThread} /\ lock'["my"] = lock["my"]
  BY DEF Release, Locks
<1>5. InMyselfCounts'
  <2>1. \A u \in Threads : Counted(u)' = Counted(u)
    BY OtherDepths DEF SameDepths
  <2>2. QED
    BY <1>4, <2>1 DEF InMyselfCounts, Locks
<1>6. DumperRunsAlone'
  BY <1>3, <1>4, StillAlone
<1>7. CallShape'
  BY OthersShape
<1>8. QED
  BY <1>1, <1>5, <1>6, <1>7

\* The destructor of AutoMonitor leaves configMonitor once.
LEMMA ReleaseConfigMonitorStep ==
  ASSUME IInv, NEW t \in Threads, ReleaseConfigMonitor(t)
  PROVE  IInv'
<1> USE DEF At, java, conf, IInv, TypeOK
<1>1. /\ UNCHANGED <<suspended, inMyself, exceptionList, config, contents, live, setting,
                     errorStatus>>
      /\ pc[t] = "exit" /\ Release(t, "config")
  BY DEF ReleaseConfigMonitor
<1>2. SharedTypes'
  BY <1>1 DEF SharedTypes
<1>3. CASE path[t] \in JavaPaths
  <2>1. /\ UNCHANGED <<path, outer, ref, target, scope>>
        /\ pc' = [pc EXCEPT ![t] = "uncount"] /\ pc'[t] = "uncount"
    BY <1>3 DEF ReleaseConfigMonitor, Go, ThreadTypes
  <2>2. ThreadTypes' /\ Roles' /\ OnlyMoves(t)
    BY <1>1, <2>1 DEF ThreadTypes, Roles, PCs, ReloadPCs, Threads, OnlyMoves
  <2>3. /\ ConfigDepth(t) = ConfigDepth(t)' + 1
        /\ MyDepth(t)' = MyDepth(t) /\ Counted(t)' = Counted(t)
    <3>1. AllCalls(outer[t]) \in Nat /\ JavaCalls(outer[t]) \in Nat
      BY CountsAreNat
    <3>2. QED
      BY ONLY <1>1, <2>1, <3>1 DEF MyDepth, Counted, ConfigDepth, One
  <2>4. Shape(t)'
    BY <1>1, <1>3, <2>1 DEF Shape, CallShape, ReloadPCs
  <2>5. QED
    BY <1>1, <1>2, <2>1, <2>2, <2>3, <2>4, LeaveConfigMonitor
<1>4. CASE path[t] \notin JavaPaths
  <2>1. Return(t)
    BY <1>4 DEF ReleaseConfigMonitor
  <2>2. /\ OnlyMoves(t) /\ ThreadTypes' /\ Roles' /\ Shape(t)'
        /\ ConfigDepth(t)' = AllCalls(outer[t])
        /\ MyDepth(t)' = JavaCalls(outer[t])
        /\ Counted(t)' = JavaCalls(outer[t])
    BY <1>1, <2>1, ReturnDepths
  <2>3. /\ ConfigDepth(t) = ConfigDepth(t)' + 1
        /\ MyDepth(t)' = MyDepth(t) /\ Counted(t)' = Counted(t)
    BY <1>1, <1>4, <2>2, CountsAreNat DEF MyDepth, Counted, ConfigDepth, One
  <2>4. pc'[t] # "dump"
    BY <2>1 DEF Return, ReturnPlace, Go, ThreadTypes
  <2>5. QED
    BY <1>1, <1>2, <2>2, <2>3, <2>4, LeaveConfigMonitor
<1>5. QED
  BY <1>3, <1>4

\* Both ends of a reload.
LEMMA EndReloadStep ==
  ASSUME IInv, FinishReload \/ ReloadFails
  PROVE  IInv'
<1> DEFINE t == Monitor
<1> USE DEF FinishReload, ReloadFails, At, Go, java, IInv, TypeOK
<1>1. /\ UNCHANGED <<path, outer, ref, target, scope, suspended, inMyself, exceptionList, config,
                     contents, setting, errorStatus>>
      /\ t \in Threads /\ pc[t] = "redefine" /\ outer[t] = <<>> /\ Release(t, "config")
      /\ pc' = [pc EXCEPT ![t] = pc'[t]] /\ pc'[t] \in {"run", "unload"}
      /\ live' \subseteq live
  BY DEF Threads, ThreadTypes, CallShape, Shape, ReloadPCs
<1>2. ThreadTypes' /\ Roles' /\ OnlyMoves(t)
  BY <1>1 DEF ThreadTypes, Roles, PCs, ReloadPCs, OnlyMoves
<1>3. SharedTypes'
  BY <1>1 DEF SharedTypes
<1>4. /\ ConfigDepth(t) = ConfigDepth(t)' + 1
      /\ MyDepth(t)' = MyDepth(t) /\ Counted(t)' = Counted(t)
  <2>1. /\ AllCalls(outer[t]) = 0 /\ JavaCalls(outer[t]) = 0
        /\ outer'[t] = outer[t] /\ path'[t] = path[t]
    BY <1>1, NoCalls
  <2>2. QED
    BY <1>1, <2>1 DEF MyDepth, Counted, ConfigDepth, One
<1>5. Shape(t)'
  BY <1>1, NoCalls, NothingBeneath DEF Shape, JavaPaths, ReloadPCs
<1>6. QED
  BY <1>1, <1>2, <1>3, <1>4, <1>5, LeaveConfigMonitor

-----------------------------------------------------------------------------
(* Steps of a dump *)

\* Under configMonitor a call selects its own setting, or ends.
LEMMA EnterDumpStep ==
  ASSUME IInv, NEW t \in Threads, EnterDump(t)
  PROVE  IInv'
<1> USE DEF At, java, conf, IInv, TypeOK
<1>1. /\ UNCHANGED <<path, outer, ref, target, scope, suspended, lock, inMyself, exceptionList,
                     config, contents, live, errorStatus>>
      /\ pc[t] = "enter"
      /\ \/ pc' = [pc EXCEPT ![t] = "exit"] /\ UNCHANGED setting
         \/ /\ pc' = [pc EXCEPT ![t] = "init"]
            /\ \E key \in Keys : setting' = [by |-> t, key |-> key]
  <2>1. OverflowFound \subseteq Keys /\ {"method", "signal", NoTarget} \subseteq Keys
    <3>1. \A i \in DOMAIN Overflow : Overflow[i] \in Targets
      BY OverflowAssumption DEF OverflowAssumption
    <3>2. QED
      BY <3>1 DEF OverflowFound, Keys
  <2>2. Found(target[t]) \in Keys
    BY DEF Found, Keys, ThreadTypes
  <2>3. QED
    BY <2>1, <2>2 DEF EnterDump, Select, Go
<1>2. /\ pc' = [pc EXCEPT ![t] = pc'[t]] /\ pc'[t] \in {"init", "exit"}
      /\ pc'[t] = "init" => setting'.by = t
  BY <1>1 DEF ThreadTypes
<1>3. ThreadTypes' /\ SharedTypes' /\ Roles' /\ OnlyMoves(t)
  <2>1. ThreadTypes' /\ OnlyMoves(t)
    BY <1>1, <1>2 DEF ThreadTypes, PCs, OnlyMoves
  <2>2. setting' \in [by : Threads \cup {NoThread}, key : Keys]
    BY <1>1 DEF SharedTypes
  <2>3. SharedTypes'
    BY <1>1, <2>2 DEF SharedTypes
  <2>4. Roles'
    BY <1>1, <1>2 DEF ThreadTypes, Roles, ReloadPCs, Threads
  <2>5. QED
    BY <2>1, <2>3, <2>4
<1>4. SameDepths(t) /\ ConfigDepth(t) > 0
  BY <1>1, <1>2, CountsAreNat DEF SameDepths, MyDepth, Counted, ConfigDepth, One
<1>5. Shape(t)'
  BY <1>1, <1>2 DEF Shape, CallShape, ReloadPCs
<1>6. LocksBalanced' /\ InMyselfCounts'
  BY <1>1, <1>3, <1>4, SameLocks, SameCount DEF SameDepths
<1>7. DumperRunsAlone' /\ CallShape'
  BY <1>1, <1>2, <1>3, <1>4, <1>5, StillAlone, OthersShape
<1>8. QED
  BY <1>1, <1>3, <1>6, <1>7

\* A step of t that stops or resumes the others while it holds configMonitor.
LEMMA SuspensionStep ==
  ASSUME IInv, NEW t \in Threads, OnlyMoves(t), SameDepths(t), ConfigDepth(t) > 0,
         t \notin suspended,
         pc[t] \in {"init", "dump"}, pc'[t] \in {"dump", "mail", "exit"},
         UNCHANGED <<path, outer, lock, inMyself, setting>>, ThreadTypes', SharedTypes', Roles',
         suspended' \in {suspended, {}, Threads \ {t}},
         pc'[t] = "dump" => suspended' = Threads \ {t},
         pc'[t] = "mail" => path[t] \in MailPaths
  PROVE  IInv'
<1> USE DEF IInv, TypeOK, SameDepths
<1>1. LocksBalanced' /\ InMyselfCounts'
  BY SameLocks, SameCount
<1>2. lock["config"].owner = t
  BY DEF LocksBalanced, Locks, Depth
<1>3. \A u \in Threads \ {t} : pc'[u] # "dump"
  <2> SUFFICES ASSUME NEW u \in Threads \ {t}, pc[u] = "dump"
               PROVE  FALSE
    BY DEF OnlyMoves
  <2>1. ConfigDepth(u) > 0
    BY CountsAreNat DEF ConfigDepth, One
  <2>2. QED
    BY <2>1, OneHolder DEF Depth, Locks
<1>4. DumperRunsAlone'
  BY <1>2, <1>3 DEF DumperRunsAlone, Threads
<1>5. Shape(t)'
  BY DEF Shape, CallShape, ReloadPCs
<1>6. CallShape'
  BY <1>5, OthersShape
<1>7. QED
  BY <1>1, <1>4, <1>6

\* A dump stops the others, resumes them or fails, under configMonitor.
LEMMA DumpStep ==
  ASSUME IInv, NEW t \in Threads, SuspendOthers(t) \/ FinishDump(t) \/ DumpFails(t)
  PROVE  IInv'
<1> USE DEF At, java, conf, IInv, TypeOK
<1>1. /\ UNCHANGED <<path, outer, ref, target, lock, inMyself, exceptionList, config, contents,
                     live,
                     setting>>
      /\ t \notin suspended /\ pc[t] \in {"init", "dump"}
      /\ errorStatus' \in BOOLEAN
      /\ scope' \in [Threads -> {"one", "all"}]
  <2>1. UNCHANGED <<path, outer, ref, target, lock, inMyself, exceptionList, config, contents, live,
                    setting>>
    BY DEF SuspendOthers, FinishDump, DumpFails
  <2>2. t \notin suspended /\ pc[t] \in {"init", "dump"}
    BY DEF SuspendOthers, FinishDump, DumpFails
  <2>3. errorStatus \in BOOLEAN
    BY DEF SharedTypes
  <2>4. errorStatus' \in BOOLEAN
    BY <2>3 DEF SuspendOthers, FinishDump, DumpFails
  <2>5. scope \in [Threads -> {"one", "all"}]
    BY DEF ThreadTypes
  <2>6. scope' \in [Threads -> {"one", "all"}]
    BY <2>5 DEF SuspendOthers, FinishDump, DumpFails
  <2>7. QED
    BY <2>1, <2>2, <2>4, <2>6
<1>2. /\ pc' = [pc EXCEPT ![t] = pc'[t]] /\ pc'[t] \in {"dump", "mail", "exit"}
      /\ suspended' \in {suspended, {}, Threads \ {t}}
      /\ pc'[t] = "dump" => suspended' = Threads \ {t}
      /\ pc'[t] = "mail" => path[t] \in MailPaths
  <2>1. AfterDump(t) \subseteq {"mail", "exit"}
        /\ ("mail" \in AfterDump(t) => path[t] \in MailPaths)
    BY DEF AfterDump
  <2>2. suspended \cup (Threads \ {t}) = Threads \ {t}
    BY <1>1 DEF SharedTypes
  <2>3. QED
    BY <2>1, <2>2 DEF SuspendOthers, FinishDump, DumpFails, Go, ThreadTypes
<1>3. ThreadTypes' /\ SharedTypes' /\ Roles' /\ OnlyMoves(t)
  <2>1. ThreadTypes' /\ OnlyMoves(t)
    BY <1>1, <1>2 DEF ThreadTypes, PCs, OnlyMoves
  <2>2. SharedTypes'
    BY <1>1, <1>2 DEF SharedTypes
  <2>3. Roles'
    BY <1>1, <1>2 DEF ThreadTypes, Roles, ReloadPCs, Threads
  <2>4. QED
    BY <2>1, <2>2, <2>3
<1>4. SameDepths(t) /\ ConfigDepth(t) > 0
  BY <1>1, <1>2, CountsAreNat DEF SameDepths, MyDepth, Counted, ConfigDepth, One
<1>5. QED
  BY <1>1, <1>2, <1>3, <1>4, SuspensionStep

-----------------------------------------------------------------------------
(* The invariant *)

\* The invariant holds before any thread has called the agent.
LEMMA InitIInv == Init => IInv
<1> SUFFICES ASSUME Init
             PROVE  IInv
  OBVIOUS
<1> USE DEF Init, Threads, JavaPaths, PCs, ReloadPCs, Locks
<1>1. ThreadTypes
  <2>1. <<>> \in CallStacks
    BY EmptySeq DEF CallStacks
  <2>2. QED
    BY <2>1 DEF ThreadTypes, Paths
<1>2. SharedTypes
  <2>1. exceptionList \subseteq Targets
    <3>1. contents[0] \in Content
      OBVIOUS
    <3>2. QED
      BY <3>1 DEF Content
  <2>2. setting \in [by : Threads \cup {NoThread}, key : Keys]
    BY DEF NoSetting, Keys
  <2>3. config \in 0..MaxReloads /\ live \subseteq 0..MaxReloads /\ inMyself \in Nat
    OBVIOUS
  <2>4. suspended \subseteq Threads /\ contents \in [0..MaxReloads -> Contents]
        /\ errorStatus \in BOOLEAN
    OBVIOUS
  <2>5. QED
    BY ONLY <2>1, <2>2, <2>3, <2>4 DEF SharedTypes
<1>3. TypeOK
  BY <1>1, <1>2 DEF TypeOK, Roles
<1>4. LocksBalanced /\ InMyselfCounts
  BY CountsAreNat DEF LocksBalanced, InMyselfCounts, Depth, ConfigDepth, MyDepth, One
<1>5. DumperRunsAlone /\ CallShape
  BY DEF DumperRunsAlone, CallShape, Shape
<1>6. QED
  BY <1>3, <1>4, <1>5 DEF IInv

\* Every step keeps the invariant.
LEMMA NextIInv == IInv /\ [Next]_vars => IInv'
<1> SUFFICES ASSUME IInv, [Next]_vars
             PROVE  IInv'
  OBVIOUS
<1>1. ASSUME NEW t \in Threads, CallStep(t)
      PROVE  IInv'
  BY <1>1, ReadModeStep, EnterCallbackStep, ScanExceptionListStep, EnterMethodCallbackStep,
     LeaveCallbackStep, AcquireConfigMonitorStep, EnterDumpStep, DoNotDumpStep, DumpStep,
     SendMailStep, ReleaseConfigMonitorStep DEF CallStep
<1>2. ASSUME NEW t \in Threads, ExceptionEvent(t) \/ NestedExceptionEvent(t) \/ MethodEvent(t)
      PROVE  IInv'
  BY <1>2, ExceptionEventStep, NestedExceptionEventStep, MethodEventStep
<1>3. CASE DataDumpRequest \/ ReadSignal
  BY <1>3, SignalStep
<1>4. CASE ReadConfigFile \/ ReadConfigFileFails \/ MonitorStops \/ ReloadStep
  BY <1>4, QuietReloadStep, InstallConfigStep, EndReloadStep DEF ReloadStep
<1>5. CASE UNCHANGED vars
  <2> USE <1>5 DEF vars, thread, java, conf, IInv
  <2>1. TypeOK'
    BY DEF TypeOK, ThreadTypes, SharedTypes, Roles
  <2>2. LocksBalanced' /\ InMyselfCounts'
    BY CountsAreNat DEF LocksBalanced, InMyselfCounts, Depth, ConfigDepth, MyDepth, Counted
  <2>3. DumperRunsAlone' /\ CallShape'
    BY DEF DumperRunsAlone, CallShape, Shape
  <2>4. QED
    BY <2>1, <2>2, <2>3
<1>6. QED
  BY <1>1, <1>2, <1>3, <1>4, <1>5 DEF Next

\* IInv is an invariant.
THEOREM IInvHolds == Spec => []IInv
BY InitIInv, NextIInv, PTL DEF Spec

\* Every variable keeps its type, and only monitorThread reloads.
THEOREM TypesHold == Spec => []TypeOK
<1>1. IInv => TypeOK
  BY DEF IInv
<1>2. QED
  BY <1>1, IInvHolds, PTL

\* The two locks are entered and left in pairs on every path through the agent.
THEOREM LocksStayBalanced == Spec => []LocksBalanced
<1>1. IInv => LocksBalanced
  BY DEF IInv
<1>2. QED
  BY <1>1, IInvHolds, PTL

\* Callbacks.inMyself never drifts from the number of calls it counts.
THEOREM InMyselfStaysExact == Spec => []InMyselfCounts
<1>1. IInv => InMyselfCounts
  BY DEF IInv
<1>2. QED
  BY <1>1, IInvHolds, PTL

\* A dump runs with every other thread stopped, and its thread never is, whatever
\* fails.
THEOREM DumpersRunAlone == Spec => []DumperRunsAlone
<1>1. IInv => DumperRunsAlone
  BY DEF IInv
<1>2. QED
  BY <1>1, IInvHolds, PTL

\* No exception that comes through Callbacks dumps within another counted call
\* of Callbacks, however deep exceptions nest.
THEOREM CallbackDumpsDoNotNest == Spec => []NoNestedCallbackDump
<1>1. IInv => NoNestedCallbackDump
  BY DEF IInv, NoNestedCallbackDump, CallShape, Shape, JavaPaths
<1>2. QED
  BY <1>1, IInvHolds, PTL

\* A dump works with the output setting that its own thread selected.
THEOREM SettingsAreOwn == Spec => []SettingIsOwn
<1>1. IInv => SettingIsOwn
  BY DEF IInv, SettingIsOwn, CallShape, Shape
<1>2. QED
  BY <1>1, IInvHolds, PTL

-----------------------------------------------------------------------------
(* The Config objects *)

\* A new Config lives from its reading on, and only a reload that fails deletes
\* the one that is installed.
ConfigsLive ==
  /\ config \in live
  /\ pc[Monitor] \in {"setlist", "reload"} => config + 1 \in live
  /\ pc[Monitor] # "unload"

\* Where a new Config waits to be installed, or one is deleted that fails.
Hidden == {"setlist", "reload", "unload"}

\* The calls leave the Config objects alone and lead into no reload.
LEMMA CallsKeepConfigs ==
  ASSUME IInv, NEW t \in Threads, CallStep(t)
  PROVE  /\ UNCHANGED <<config, live>>
         /\ \E place \in PCs \ Hidden : pc' = [pc EXCEPT ![t] = place]
<1> USE DEF At, Go, conf, PCs, ReloadPCs, Hidden
<1>1. ReturnPlace(t) \in PCs \ Hidden
  BY DEF ReturnPlace
<1>2. CASE ReadMode(t)
  BY <1>1, <1>2 DEF ReadMode, Return
<1>3. CASE EnterCallback(t) \/ ScanExceptionList(t) \/ EnterMethodCallback(t) \/ LeaveCallback(t)
  BY <1>1, <1>3 DEF EnterCallback, ScanExceptionList, EnterMethodCallback, LeaveCallback, Return
<1>4. CASE AcquireConfigMonitor(t) \/ EnterDump(t) \/ DoNotDump(t) \/ SuspendOthers(t)
  BY <1>4 DEF AcquireConfigMonitor, EnterDump, DoNotDump, SuspendOthers, Select
<1>5. CASE FinishDump(t) \/ DumpFails(t) \/ SendMail(t)
  BY <1>5 DEF FinishDump, DumpFails, SendMail, AfterDump
<1>6. CASE ReleaseConfigMonitor(t)
  BY <1>1, <1>6 DEF ReleaseConfigMonitor, Return
<1>7. QED
  BY <1>2, <1>3, <1>4, <1>5, <1>6 DEF CallStep

LEMMA ConfigsLiveStep ==
  ASSUME ~Faults, IInv, ConfigsLive, [Next]_vars
  PROVE  ConfigsLive'
<1> USE DEF At, Go, conf, thread
<1>1. config \in Nat /\ pc \in [Threads -> PCs] /\ Monitor \in Threads
  BY DEF IInv, TypeOK, ThreadTypes, SharedTypes, Threads
<1>2. ASSUME UNCHANGED <<config, live>>, NEW t \in Threads, NEW place \in PCs \ Hidden,
             pc' = [pc EXCEPT ![t] = place]
      PROVE  ConfigsLive'
  BY <1>1, <1>2 DEF ConfigsLive, Hidden
<1>3. ASSUME NEW t \in Threads, CallStep(t) PROVE ConfigsLive'
  BY <1>2, <1>3, CallsKeepConfigs
<1>4. ASSUME NEW t \in Threads, ExceptionEvent(t) \/ NestedExceptionEvent(t) \/ MethodEvent(t)
      PROVE  ConfigsLive'
  <2>1. UNCHANGED <<config, live>> /\ \E place \in PCs \ Hidden : pc' = [pc EXCEPT ![t] = place]
    BY <1>4 DEF ExceptionEvent, NestedExceptionEvent, MethodEvent, PCs, Hidden
  <2>2. QED
    BY <1>2, <2>1
<1>5. CASE DataDumpRequest \/ ReadSignal
  <2>1. /\ UNCHANGED <<config, live>> /\ Signal \in Threads
        /\ \E place \in PCs \ Hidden : pc' = [pc EXCEPT ![Signal] = place]
    BY <1>5 DEF DataDumpRequest, ReadSignal, Return, ReturnPlace, PCs, ReloadPCs, Hidden, Threads
  <2>2. QED
    BY <1>2, <2>1
<1>6. CASE ReadConfigFile \/ ReadConfigFileFails
  BY <1>1, <1>6 DEF ReadConfigFile, ReadConfigFileFails, ConfigsLive
<1>7. CASE MonitorStops
  BY <1>1, <1>7 DEF MonitorStops, ConfigsLive
<1>8. CASE SetMonitorClass \/ InstallConfig
  BY <1>1, <1>8 DEF SetMonitorClass, InstallConfig, ConfigsLive
<1>9. CASE FinishReload \/ ReloadFails
  BY <1>1, <1>9 DEF FinishReload, ReloadFails, OldConfig, ConfigsLive
<1>10. CASE DeleteNewConfig \/ SetErrorStatus
  BY <1>1, <1>10 DEF DeleteNewConfig, SetErrorStatus, ConfigsLive
<1>11. CASE UNCHANGED vars
  BY <1>11 DEF vars, ConfigsLive
<1>12. QED
  BY <1>3, <1>4, <1>5, <1>6, <1>7, <1>8, <1>9, <1>10, <1>11 DEF Next, ReloadStep

\* If no C++ exception ends a reload, Global::config never points to a Config that
\* monitorThread has deleted.
THEOREM ConfigStaysLive == ~Faults /\ Spec => []InstalledConfigLive
<1>1. Init => ConfigsLive
  BY DEF Init, ConfigsLive, Threads
<1>2. ConfigsLive => InstalledConfigLive
  BY DEF ConfigsLive, InstalledConfigLive
<1>3. CASE ~Faults
  <2>1. IInv /\ ConfigsLive /\ [Next]_vars => ConfigsLive'
    BY <1>3, ConfigsLiveStep
  <2>2. QED
    BY <1>1, <1>2, <2>1, IInvHolds, PTL DEF Spec
<1>4. QED
  BY <1>3

-----------------------------------------------------------------------------
(* Refinement *)

StopsEnd == Faults \/ StoppedOnlyInDump

\* Every step is taken by a thread that is not suspended, and only the steps of a
\* dump stop or resume threads.
LEMMA StepsOfRunningThreads ==
  ASSUME Next
  PROVE  \E t \in Threads :
           /\ t \notin suspended
           /\ \/ UNCHANGED suspended /\ pc[t] # "dump"
              \/ SuspendOthers(t) \/ FinishDump(t) \/ DumpFails(t)
<1> USE DEF At, java, conf, thread
<1>1. ASSUME NEW t \in Threads, CallStep(t)
      PROVE  /\ t \notin suspended
             /\ \/ UNCHANGED suspended /\ pc[t] # "dump"
                \/ SuspendOthers(t) \/ FinishDump(t) \/ DumpFails(t)
  <2>1. CASE ReadMode(t) \/ EnterCallback(t) \/ ScanExceptionList(t) \/ EnterMethodCallback(t)
    BY <2>1 DEF ReadMode, EnterCallback, ScanExceptionList, EnterMethodCallback
  <2>2. CASE LeaveCallback(t) \/ AcquireConfigMonitor(t) \/ EnterDump(t) \/ DoNotDump(t)
    BY <2>2 DEF LeaveCallback, AcquireConfigMonitor, EnterDump, DoNotDump
  <2>3. CASE SendMail(t) \/ ReleaseConfigMonitor(t)
    BY <2>3 DEF SendMail, ReleaseConfigMonitor
  <2>4. CASE SuspendOthers(t) \/ FinishDump(t) \/ DumpFails(t)
    BY <2>4 DEF SuspendOthers, FinishDump, DumpFails
  <2>5. QED
    BY <1>1, <2>1, <2>2, <2>3, <2>4 DEF CallStep
<1>2. ASSUME NEW t \in Threads, ExceptionEvent(t) \/ NestedExceptionEvent(t) \/ MethodEvent(t)
      PROVE  t \notin suspended /\ UNCHANGED suspended /\ pc[t] # "dump"
  BY <1>2 DEF ExceptionEvent, NestedExceptionEvent, MethodEvent
<1>3. ASSUME DataDumpRequest \/ ReadSignal
      PROVE  Signal \notin suspended /\ UNCHANGED suspended /\ pc[Signal] # "dump"
  BY <1>3 DEF DataDumpRequest, ReadSignal
<1>4. ASSUME ReadConfigFile \/ ReadConfigFileFails \/ MonitorStops \/ ReloadStep
      PROVE  Monitor \notin suspended /\ UNCHANGED suspended /\ pc[Monitor] # "dump"
  BY <1>4 DEF ReadConfigFile, ReadConfigFileFails, MonitorStops, ReloadStep, SetMonitorClass,
              InstallConfig, FinishReload, ReloadFails, DeleteNewConfig, SetErrorStatus
<1>5. QED
  BY <1>1, <1>2, <1>3, <1>4 DEF Next, Threads

\* Without faults, whoever stops the others resumes them before it does anything
\* else, and nobody else can do anything in between.
LEMMA StopsEndStep ==
  ASSUME IInv, StopsEnd, [Next]_vars
  PROVE  StopsEnd'
<1> SUFFICES ASSUME ~Faults
             PROVE  StoppedOnlyInDump'
  BY DEF StopsEnd
<1>1. CASE UNCHANGED vars
  BY <1>1 DEF StopsEnd, StoppedOnlyInDump, vars, thread
<1>2. CASE Next
  <2>1. PICK t \in Threads :
           /\ t \notin suspended
           /\ \/ UNCHANGED suspended /\ pc[t] # "dump"
              \/ SuspendOthers(t) \/ FinishDump(t) \/ DumpFails(t)
    BY <1>2, StepsOfRunningThreads
  <2>2. CASE UNCHANGED suspended /\ pc[t] # "dump"
    BY <2>1, <2>2 DEF StopsEnd, StoppedOnlyInDump, IInv, DumperRunsAlone
  <2>3. CASE SuspendOthers(t)
    BY <2>3 DEF SuspendOthers, Go, StoppedOnlyInDump, IInv, TypeOK, ThreadTypes
  <2>4. CASE FinishDump(t) \/ DumpFails(t)
    BY <2>4 DEF FinishDump, DumpFails, StoppedOnlyInDump
  <2>5. QED
    BY <2>1, <2>2, <2>3, <2>4
<1>3. QED
  BY <1>1, <1>2

\* A step that releases configMonitor ends a session or leaves an inner call.
LEMMA ReleaseEnds ==
  ASSUME IInv, StopsEnd, NEW t \in Threads, t \notin suspended, pc[t] \in {"exit", "redefine"},
         Release(t, "config"), UNCHANGED <<config, setting, suspended>>
  PROVE  [Sessions!Next]_Sessions!session
<1>1. ConfigDepth(t) > 0
  BY CountsAreNat DEF ConfigDepth, One, IInv, TypeOK
<1>2. lock["config"].owner = t
  BY <1>1 DEF IInv, LocksBalanced, Depth, Locks
<1>3. lock'["config"].owner \in {t, NoThread}
  BY <1>2 DEF Release, IInv, TypeOK, Locks
<1>4. Faults \/ suspended = {}
  BY DEF StopsEnd, StoppedOnlyInDump, IInv, DumperRunsAlone
<1>5. CASE lock'["config"].owner = t
  BY <1>2, <1>5 DEF Sessions!session
<1>6. CASE lock'["config"].owner = NoThread
  BY <1>2, <1>4, <1>6 DEF Sessions!Next, Sessions!End
<1>7. QED
  BY <1>3, <1>5, <1>6

\* The protocol starts outside every session.
LEMMA SessionInit == Init => Sessions!Init
BY DEF Init, Sessions!Init, NoSetting, Locks

\* Every step is a step of the abstract sessions, or is invisible to them.
LEMMA SessionStep ==
  ASSUME IInv, StopsEnd, [Next]_vars
  PROVE  [Sessions!Next]_Sessions!session
<1> USE DEF At, java, conf, thread
<1>1. CASE UNCHANGED <<lock, config, setting, suspended>>
  BY <1>1 DEF Sessions!session
<1>2. ASSUME NEW t \in Threads, CallStep(t), ~UNCHANGED <<lock, config, setting, suspended>>
      PROVE  [Sessions!Next]_Sessions!session
  <2>1. CASE EnterCallback(t) \/ EnterMethodCallback(t)
    BY <2>1 DEF EnterCallback, EnterMethodCallback, Acquire, Sessions!session, IInv, TypeOK, Locks
  <2>2. CASE LeaveCallback(t) \/ ScanExceptionList(t)
    BY <2>2 DEF LeaveCallback, ScanExceptionList, Release, Sessions!session, IInv, TypeOK, Locks
  <2>3. CASE AcquireConfigMonitor(t)
    <3>1. lock["config"].owner \in {NoThread, t} /\ lock'["config"].owner = t /\ t \notin suspended
      BY <2>3 DEF AcquireConfigMonitor, Acquire, IInv, TypeOK, Locks
    <3>2. UNCHANGED <<config, setting, suspended>>
      BY <2>3 DEF AcquireConfigMonitor
    <3>3. CASE lock["config"].owner = t
      BY <3>1, <3>2, <3>3 DEF Sessions!session
    <3>4. CASE lock["config"].owner = NoThread
      BY <3>1, <3>2, <3>4 DEF Sessions!Next, Sessions!Begin
    <3>5. QED
      BY <3>1, <3>3, <3>4
  <2>4. ASSUME pc[t] \in {"enter", "init", "dump"}
        PROVE  lock["config"].owner = t
    <3>1. ConfigDepth(t) > 0
      BY <2>4, CountsAreNat DEF ConfigDepth, One, IInv, TypeOK
    <3>2. QED
      BY <3>1 DEF IInv, LocksBalanced, Depth, Locks
  <2>5. CASE EnterDump(t)
    <3>1. pc[t] = "enter" /\ UNCHANGED <<lock, config, suspended>> /\ setting'.by = t
      BY <1>2, <2>5 DEF EnterDump, Select
    <3>2. QED
      BY <2>4, <3>1 DEF Sessions!Next, Sessions!Choose
  <2>6. CASE SuspendOthers(t)
    <3>1. /\ pc[t] = "init" /\ t \notin suspended /\ UNCHANGED <<lock, config, setting>>
          /\ suspended' = suspended \cup (Threads \ {t})
      BY <2>6 DEF SuspendOthers
    <3>2. suspended' = Threads \ {t} /\ setting.by = t
      BY <3>1 DEF IInv, TypeOK, SharedTypes, CallShape, Shape
    <3>3. QED
      BY <2>4, <3>1, <3>2 DEF Sessions!Next, Sessions!StopOthers
  <2>7. CASE FinishDump(t) \/ DumpFails(t)
    <3>1. /\ pc[t] = "dump" /\ UNCHANGED <<lock, config, setting>>
          /\ suspended' = {}
      BY <1>2, <2>7 DEF FinishDump, DumpFails
    <3>2. QED
      BY <2>4, <3>1 DEF Sessions!Next, Sessions!Resume
  <2>8. CASE ReleaseConfigMonitor(t)
    BY <2>8, ReleaseEnds DEF ReleaseConfigMonitor
  <2>9. QED
    BY <1>2, <2>1, <2>2, <2>3, <2>5, <2>6, <2>7, <2>8
    DEF CallStep, ReadMode, DoNotDump, SendMail
<1>3. CASE InstallConfig
  <2>1. pc[Monitor] = "reload" /\ Monitor \notin suspended /\ Monitor \in Threads
    BY <1>3 DEF InstallConfig, Threads
  <2>2. ConfigDepth(Monitor) = 0
    BY <2>1, NoCalls DEF ConfigDepth, One, IInv, CallShape, Shape, ReloadPCs
  <2>3. lock["config"].owner = NoThread /\ lock'["config"].owner = Monitor
    BY <1>3, <2>1, <2>2
    DEF InstallConfig, Acquire, IInv, TypeOK, LocksBalanced, Depth, Locks
  <2>4. QED
    BY <1>3, <2>1, <2>3 DEF InstallConfig, NoSetting, Sessions!Next, Sessions!Reload
<1>4. CASE FinishReload \/ ReloadFails
  BY <1>4, ReleaseEnds DEF FinishReload, ReloadFails, Threads
<1>5. QED
  BY <1>1, <1>2, <1>3, <1>4
  DEF Next, vars, ReloadStep, ExceptionEvent, NestedExceptionEvent, MethodEvent, DataDumpRequest,
      ReadSignal, ReadConfigFile, ReadConfigFileFails, SetMonitorClass, DeleteNewConfig,
      SetErrorStatus, MonitorStops

\* The locks, the suspension and the early returns of the agent implement
\* sessions, one at a time, whose configuration does not change and which leave
\* threads stopped only if C++ code throws.
THEOREM DumpsImplementSessions == Spec => DumpsAreSessions
<1>1. Init => StopsEnd
  BY DEF Init, StopsEnd, StoppedOnlyInDump
<1>2. QED
  BY <1>1, IInvHolds, StopsEndStep, SessionInit, SessionStep, PTL
  DEF Spec, DumpsAreSessions, Sessions!Spec

=============================================================================
