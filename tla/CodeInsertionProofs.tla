------------------------ MODULE CodeInsertionProofs ------------------------
(***************************************************************************)
(* Proofs about CodeInsertion, for methods of any length and shape that a  *)
(* compiler produces.  The heart of the matter is a sum: what the map says *)
(* is added ahead of an instruction is what the second pass has written    *)
(* more than it has read when it comes to that instruction, although the   *)
(* padding of a switch depends on the sum itself.                          *)
(***************************************************************************)
EXTENDS CodeInsertion, FiniteSets, FiniteSetTheorems, WellFoundedInduction, TLAPS

-----------------------------------------------------------------------------
(* Induction, stated with the set of the numbers or subsets that have a    *)
(* property *)

\* Induction over the natural numbers up to a bound.
LEMMA CountUp ==
  ASSUME NEW n \in Nat, NEW G, 0 \in G, \A i \in 0..n - 1 : i \in G => i + 1 \in G
  PROVE  0..n \subseteq G
<1> DEFINE Bad == {i \in Nat : i \in 0..n /\ i \notin G}
<1> SUFFICES ASSUME Bad # {} PROVE FALSE
  OBVIOUS
<1>1. PICK i \in Bad : \A j \in Bad : ~(<<j, i>> \in OpToRel(<, Nat))
  <2>1. Bad \subseteq Nat
    OBVIOUS
  <2> HIDE DEF Bad
  <2> QED BY <2>1, NatLessThanWellFounded, WFMin
<1>2. i - 1 \in Nat /\ i - 1 \in 0..n - 1
  OBVIOUS
<1>3. i - 1 \in G
  <2> SUFFICES ASSUME i - 1 \in Bad PROVE FALSE
    BY <1>2
  <2>1. Bad \subseteq Nat /\ i \in Nat
    OBVIOUS
  <2> HIDE DEF Bad
  <2>2. <<i - 1, i>> \in OpToRel(<, Nat)
    BY <1>2, <2>1 DEF OpToRel
  <2> QED BY <1>1, <2>2
<1>4. i \in G
  BY <1>2, <1>3
<1> QED BY <1>4

\* Induction over the subsets of a finite set.
LEMMA SubsetsGrow ==
  ASSUME NEW S, IsFiniteSet(S), NEW G,
         \A T \in SUBSET S : (\A x \in T : T \ {x} \in G) => T \in G
  PROVE  SUBSET S \subseteq G
<1> DEFINE Bad == {T \in SUBSET S : T \notin G}
<1> SUFFICES ASSUME Bad # {} PROVE FALSE
  OBVIOUS
<1>1. PICK T \in Bad : \A U \in Bad : ~(<<U, T>> \in StrictSubsetOrdering(S))
  <2>1. Bad \subseteq FiniteSubsetsOf(S)
    BY FS_FiniteSubsetsOfFinite
  <2> HIDE DEF Bad
  <2> QED BY <2>1, FS_StrictSubsetOrderingWellFounded, WFMin
<1>2. ASSUME NEW x \in T PROVE T \ {x} \in G
  <2>1. <<T \ {x}, T>> \in StrictSubsetOrdering(S)
    BY DEF StrictSubsetOrdering
  <2> QED BY <1>1, <2>1
<1> QED BY <1>2
-----------------------------------------------------------------------------
(* Sums *)

Pick(s) == CHOOSE x \in s : TRUE

\* The function that SumFunctionOnSet chooses, on the subsets in D.
Adds(iter, f, D) ==
  iter = [s \in D |-> IF s = {} THEN 0 ELSE f[Pick(s)] + iter[s \ {Pick(s)}]]

Adder(f, S) == CHOOSE iter : Adds(iter, f, SUBSET S)

\* A sum is what the function chosen for it gives for the whole set.
LEMMA SumUnfolds ==
  ASSUME NEW f, NEW S
  PROVE  SumFunctionOnSet(f, S) = Adder(f, S)[S]
BY DEF SumFunctionOnSet, FoldFunctionOnSet, MapThenFoldSet, Adder, Adds, Pick

\* There is such a function, by induction over the size of the subsets.
LEMMA AdderExists ==
  ASSUME NEW f, NEW S, IsFiniteSet(S)
  PROVE  \E iter : Adds(iter, f, SUBSET S)
<1> DEFINE Upto(n) == {s \in SUBSET S : Cardinality(s) <= n}
           G == {n \in Nat : \E iter : Adds(iter, f, Upto(n))}
<1>0. \A s \in SUBSET S : IsFiniteSet(s) /\ Cardinality(s) \in Nat
  BY FS_Subset, FS_CardinalityType
<1>1. 0 \in G
  <2>1. Upto(0) = {{}}
    BY <1>0, FS_EmptySet
  <2>2. Adds([s \in {{}} |-> 0], f, {{}})
    BY DEF Adds
  <2> QED BY <2>1, <2>2
<1>2. ASSUME NEW n \in Nat, n \in G PROVE n + 1 \in G
  <2>1. PICK iter : Adds(iter, f, Upto(n))
    BY <1>2
  <2> DEFINE Value(s) == IF s = {} THEN 0 ELSE f[Pick(s)] + iter[s \ {Pick(s)}]
             grown == [s \in Upto(n + 1) |-> Value(s)]
  <2>2. \A s \in Upto(n) : iter[s] = Value(s)
    BY <2>1 DEF Adds
  <2>3. ASSUME NEW s \in Upto(n + 1), s # {}
        PROVE  s \ {Pick(s)} \in Upto(n) /\ s \ {Pick(s)} \in Upto(n + 1)
    <3>1. Pick(s) \in s
      BY <2>3 DEF Pick
    <3>2. Cardinality(s \ {Pick(s)}) = Cardinality(s) - 1
      BY <1>0, <3>1, FS_RemoveElement
    <3> QED BY <1>0, <3>2
  <2>4. \A s \in Upto(n + 1) :
          s # {} => grown[s \ {Pick(s)}] = iter[s \ {Pick(s)}]
    BY <2>2, <2>3
  <2>5. Adds(grown, f, Upto(n + 1))
    BY <2>4 DEF Adds
  <2> HIDE DEF Upto, grown
  <2>6. \E new : Adds(new, f, Upto(n + 1))
    BY <2>5
  <2> QED BY <2>6
<1>3. Cardinality(S) \in G
  <2>1. Cardinality(S) \in Nat
    BY FS_CardinalityType
  <2> HIDE DEF G
  <2>2. 0..Cardinality(S) \subseteq G
    BY <1>1, <1>2, <2>1, CountUp
  <2> QED BY <2>1, <2>2
<1>4. Upto(Cardinality(S)) = SUBSET S
  BY FS_Subset
<1> QED BY <1>3, <1>4

\* So the function chosen for a sum is one.
LEMMA AdderIs ==
  ASSUME NEW f, NEW S, IsFiniteSet(S)
  PROVE  \A s \in SUBSET S :
           Adder(f, S)[s] = IF s = {} THEN 0 ELSE f[Pick(s)] + Adder(f, S)[s \ {Pick(s)}]
<1>1. Adds(Adder(f, S), f, SUBSET S)
  BY AdderExists DEF Adder
<1> QED BY <1>1 DEF Adds

\* A sum takes one element away and adds the rest.
LEMMA SumDef ==
  ASSUME NEW f, NEW S, IsFiniteSet(S)
  PROVE  SumFunctionOnSet(f, S) =
           IF S = {} THEN 0 ELSE f[Pick(S)] + SumFunctionOnSet(f, S \ {Pick(S)})
<1> DEFINE R == S \ {Pick(S)}
           all == Adder(f, S)
           rest == Adder(f, R)
           G == {s \in SUBSET R : all[s] = rest[s]}
<1>1. IsFiniteSet(R)
  BY FS_RemoveElement
<1>2. \A s \in SUBSET S : all[s] = IF s = {} THEN 0 ELSE f[Pick(s)] + all[s \ {Pick(s)}]
  BY AdderIs
<1>3. \A s \in SUBSET R : rest[s] = IF s = {} THEN 0 ELSE f[Pick(s)] + rest[s \ {Pick(s)}]
  <2> HIDE DEF R
  <2> QED BY <1>1, AdderIs
<1>4. SumFunctionOnSet(f, S) = all[S] /\ SumFunctionOnSet(f, R) = rest[R]
  BY SumUnfolds
<1> HIDE DEF all, rest
<1>5. ASSUME NEW s \in SUBSET R, \A x \in s : s \ {x} \in G PROVE s \in G
  <2>1. s # {} => Pick(s) \in s
    BY DEF Pick
  <2> QED BY <1>2, <1>3, <1>5, <2>1
<1>6. SUBSET R \subseteq G
  <2> HIDE DEF G, R
  <2> QED BY <1>1, <1>5, SubsetsGrow
<1>7. all[R] = rest[R]
  BY <1>6
<1> QED BY <1>2, <1>4, <1>7

\* The sum of integers is one.
LEMMA SumType ==
  ASSUME NEW f, NEW S, IsFiniteSet(S), \A x \in S : f[x] \in Int
  PROVE  SumFunctionOnSet(f, S) \in Int
<1> DEFINE G == {s \in SUBSET S : SumFunctionOnSet(f, s) \in Int}
<1>1. ASSUME NEW s \in SUBSET S, \A x \in s : s \ {x} \in G PROVE s \in G
  <2>1. IsFiniteSet(s)
    BY FS_Subset
  <2>2. s # {} => Pick(s) \in s
    BY DEF Pick
  <2>3. SumFunctionOnSet(f, s) =
          IF s = {} THEN 0 ELSE f[Pick(s)] + SumFunctionOnSet(f, s \ {Pick(s)})
    BY <2>1, SumDef
  <2> QED BY <1>1, <2>2, <2>3
<1>2. SUBSET S \subseteq G
  <2> HIDE DEF G
  <2> QED BY <1>1, SubsetsGrow
<1> QED BY <1>2

\* Functions that agree have the same sum.
LEMMA SumSame ==
  ASSUME NEW f, NEW g, NEW S, IsFiniteSet(S), \A x \in S : f[x] = g[x]
  PROVE  SumFunctionOnSet(f, S) = SumFunctionOnSet(g, S)
<1> DEFINE G == {s \in SUBSET S : SumFunctionOnSet(f, s) = SumFunctionOnSet(g, s)}
<1>1. ASSUME NEW s \in SUBSET S, \A x \in s : s \ {x} \in G PROVE s \in G
  <2>1. IsFiniteSet(s)
    BY FS_Subset
  <2>2. s # {} => Pick(s) \in s
    BY DEF Pick
  <2>3. /\ SumFunctionOnSet(f, s) =
             IF s = {} THEN 0 ELSE f[Pick(s)] + SumFunctionOnSet(f, s \ {Pick(s)})
        /\ SumFunctionOnSet(g, s) =
             IF s = {} THEN 0 ELSE g[Pick(s)] + SumFunctionOnSet(g, s \ {Pick(s)})
    BY <2>1, SumDef
  <2> QED BY <1>1, <2>2, <2>3
<1>2. SUBSET S \subseteq G
  <2> HIDE DEF G
  <2> QED BY <1>1, SubsetsGrow
<1> QED BY <1>2

\* It does not matter which element is taken away.
LEMMA SumWithout ==
  ASSUME NEW f, NEW S, IsFiniteSet(S), \A x \in S : f[x] \in Int, NEW y \in S
  PROVE  SumFunctionOnSet(f, S) = f[y] + SumFunctionOnSet(f, S \ {y})
<1> DEFINE G == {s \in SUBSET S :
                   \A x \in s : SumFunctionOnSet(f, s) = f[x] + SumFunctionOnSet(f, s \ {x})}
<1>1. ASSUME NEW s \in SUBSET S, \A x \in s : s \ {x} \in G PROVE s \in G
  <2> SUFFICES ASSUME NEW x \in s
               PROVE  SumFunctionOnSet(f, s) = f[x] + SumFunctionOnSet(f, s \ {x})
    OBVIOUS
  <2> DEFINE p == Pick(s)
             rest == s \ {x, p}
  <2>1. p \in s
    BY DEF Pick
  <2>2. IsFiniteSet(s) /\ IsFiniteSet(rest)
    BY FS_Subset
  <2>3. SumFunctionOnSet(f, s) = f[p] + SumFunctionOnSet(f, s \ {p})
    BY <2>1, <2>2, SumDef
  <2>4. CASE x = p
    BY <2>3, <2>4
  <2>5. CASE x # p
    <3> HIDE DEF p
    <3>1. (s \ {p}) \ {x} = rest /\ (s \ {x}) \ {p} = rest
      OBVIOUS
    <3>2. SumFunctionOnSet(f, s \ {p}) = f[x] + SumFunctionOnSet(f, rest)
      BY <1>1, <2>1, <2>5, <3>1
    <3>3. SumFunctionOnSet(f, s \ {x}) = f[p] + SumFunctionOnSet(f, rest)
      BY <1>1, <2>1, <2>5, <3>1
    <3>4. f[x] \in Int /\ f[p] \in Int /\ SumFunctionOnSet(f, rest) \in Int
      BY <2>1, <2>2, SumType
    <3> QED BY <2>3, <3>2, <3>3, <3>4
  <2> QED BY <2>4, <2>5
<1>2. SUBSET S \subseteq G
  <2> HIDE DEF G
  <2> QED BY <1>1, SubsetsGrow
<1> QED BY <1>2

\* An element more.
LEMMA SumWith ==
  ASSUME NEW f, NEW S, IsFiniteSet(S), NEW y, y \notin S, \A x \in S \cup {y} : f[x] \in Int
  PROVE  SumFunctionOnSet(f, S \cup {y}) = SumFunctionOnSet(f, S) + f[y]
<1>1. IsFiniteSet(S \cup {y}) /\ (S \cup {y}) \ {y} = S
  BY FS_AddElement
<1>2. SumFunctionOnSet(f, S \cup {y}) = f[y] + SumFunctionOnSet(f, S)
  BY <1>1, SumWithout
<1>3. SumFunctionOnSet(f, S) \in Int /\ f[y] \in Int
  BY SumType
<1> QED BY <1>2, <1>3

\* The sum over nothing
LEMMA SumEmpty == ASSUME NEW f PROVE SumFunctionOnSet(f, {}) = 0
BY SumDef, FS_EmptySet

\* The sum over one element
LEMMA SumOne == ASSUME NEW f, NEW y, f[y] \in Int PROVE SumFunctionOnSet(f, {y}) = f[y]
<1>1. IsFiniteSet({y}) /\ {y} \ {y} = {}
  BY FS_Singleton
<1>2. SumFunctionOnSet(f, {y}) = f[y] + SumFunctionOnSet(f, {y} \ {y})
  BY <1>1, SumWithout
<1>3. SumFunctionOnSet(f, {y} \ {y}) = 0
  BY <1>1, SumEmpty
<1> QED BY <1>2, <1>3
-----------------------------------------------------------------------------
(* The code *)

code == method.code
Numbers == 1..Len(code)   \* of instructions
Past    == Len(code) + 1

S(i) == Starts(method)[i]

ExitAt(i)   == AtExits /\ code[i].op \in Exits
SwitchAt(i) == code[i].op \in Switches
Marked(i)   == ExitAt(i) \/ SwitchAt(i)

\* The call at the entry: its position in the map, its bytes.
Entry      == IF method.hooked /\ method.where # 2 THEN {0} ELSE {}
EntryBytes == IF Entry = {} THEN 0 ELSE method.bytes

\* The value that instruction i returns came from a call or the like.
Keeps(i) ==
  /\ code[i].op = "vreturn"
  /\ \E j \in 1..i - 1 : /\ code[j].op \in Results
                         /\ \A k \in j + 1..i - 1 : code[k].op = "convert"

KeptBytes(i) == IF Keeps(i) THEN LocalBytes(method.locals) ELSE 0

\* Does one of the first instructions need the local variable?
Kept(n) == AtExits /\ \E i \in 1..n : Keeps(i)

\* Where the map notes what instruction i grows by.
Spot(i) == IF ExitAt(i) THEN S(i) ELSE S(i) + 1

\* What a map f adds ahead of instruction i.
Ahead(f, i) == {p \in DOMAIN f : p < S(i) \/ p \in Entry}
Shift(f, i) == SumFunctionOnSet(f, Ahead(f, i))

Growth(f, i) ==
  IF ExitAt(i) THEN method.bytes + KeptBytes(i)
  ELSE IF SwitchAt(i) THEN Padding(S(i) + 1 + Shift(f, i)) - Padding(S(i) + 1)
  ELSE 0

\* An empty method that is monitored at both ends: one position, two calls.
Merged == Entry # {} /\ ExitAt(1)

\* f is the map after the first pass has looked at n instructions.
ChangesOK(f, n) ==
  /\ DOMAIN f = {} => f = <<>>
  /\ DOMAIN f = Entry \cup {Spot(i) : i \in {j \in 1..n : Marked(j)}}
  /\ Entry # {} => f[0] = method.bytes
  /\ ~Merged => \A i \in 1..n : Marked(i) => f[Spot(i)] = Growth(f, i)

\* p is what the value was computed by that instruction i returns or converts.
PreOK(p, i) ==
  AtExits /\ i \in Numbers /\ code[i].op \in {"vreturn", "convert"} =>
    \E j \in 1..i - 1 : /\ p = code[j].op /\ p \in {"plain", "call"}
                        /\ \A k \in j + 1..i - 1 : code[k].op = "convert"

EntryOut == IF Entry = {} THEN <<>> ELSE <<Callback(0)>>

\* Instruction i in the new code: the first byte that is its own, its size,
\* and where branches to it lead.
NewPlace(i) == S(i) + Shift(changes, i) + IF ExitAt(i) THEN Growth(changes, i) ELSE 0
NewSize(i)  == S(i + 1) - S(i) + IF SwitchAt(i) THEN Growth(changes, i) ELSE 0
Target(i)   == getCodePosAfterInsertCallbacks(S(i), AtExits)

\* From item first on, what leads to item k was inserted for it.
LeadsTo(o, first, k, i) ==
  /\ o[first].at = Target(i)
  /\ \A l \in first..k - 1 : o[l].of = 0
  /\ ExitAt(i) => first < k /\ o[k - 1].op = "callback"

\* Where what is new for instruction i starts, and the instruction itself.
Group(i) == S(i) + Shift(changes, i)

\* What was inserted right ahead of item k is not ahead of that.
Apart(o, k, i) ==
  \A l \in 1..k : (\A h \in l..k - 1 : o[h].of = 0) => i = 1 \/ o[l].at >= Group(i)

\* Item k of the new code o is instruction i.
ItemOK(o, k, i) ==
  /\ o[k].op = code[i].op /\ o[k].at = NewPlace(i) /\ o[k].size = NewSize(i)
  /\ DOMAIN o[k].to \subseteq DOMAIN code[i].to
  /\ \A b \in DOMAIN o[k].to : o[k].to[b] = Target(code[i].to[b]) - NewPlace(i)
  /\ \E first \in 1..k : LeadsTo(o, first, k, i)
  /\ Apart(o, k, i)

\* The first n instructions are written, each once.
OutOK(o, n) ==
  /\ \A k \in 1..Len(o) : o[k].of \in 0..n
  /\ \A i \in 1..n : \E k \in 1..Len(o) : o[k].of = i
  /\ \A k, l \in 1..Len(o) : o[k].of = o[l].of /\ o[k].of # 0 => k = l
  /\ \A k \in 1..Len(o) : IF o[k].of = 0 THEN o[k].op \in {"callback", "keep"} /\ o[k].to = <<>>
                                         ELSE ItemOK(o, k, o[k].of)
  /\ Entry # {} => Len(o) # 0 /\ o[1].at = 0
  /\ n # 0 => Len(o) # 0 /\ o[Len(o)].of = n

\* Where a part of the new code ends.
EndOf(o) == IF o = <<>> THEN 0 ELSE Last(o).at + Last(o).size

\* The empty method, of which no instruction branches.
MergedOK(o, n) ==
  /\ EndOf(o) = method.bytes + n * (method.bytes + 1)
  /\ \A k \in 1..Len(o) : o[k].to = <<>> /\ o[k].op \notin Switches

\* What the second pass has done with n instructions, o and max being the new
\* code and nMaxLocal.
CopyOK(o, max, n) ==
  /\ max = method.locals + IF Kept(n) THEN Slots ELSE 0
  /\ Kept(n) <=> \E k \in 1..Len(o) : o[k].op = "keep"
  /\ IF Merged THEN MergedOK(o, n)
                ELSE EndOf(o) = S(n + 1) + Shift(changes, n + 1) /\ OutOK(o, n)

Typed == method \in Methods /\ TypeOK /\ \E T : out \in Seq(T)

NotYet == locals = method.locals /\ newPos = EntryBytes /\ out = EntryOut

IInv ==
  /\ Typed
  /\ phase = "enter" => /\ next = 1 /\ newPos = 0 /\ pre = "none" /\ changes = <<>>
                        /\ ~added /\ locals = method.locals /\ out = <<>>
  /\ phase = "find" => ChangesOK(changes, next - 1) /\ NotYet
                       /\ PreOK(pre, next) /\ (added <=> Kept(next - 1))
  /\ phase \in {"copy", "raw", "done"} => ChangesOK(changes, Len(code)) /\ (added <=> Kept(Len(code)))
  /\ phase = "raw" => NotYet /\ ~Found
  /\ phase = "copy" => /\ CopyOK(out, locals, next - 1) /\ newPos = Written
                       /\ PreOK(pre, next) /\ Found
  /\ phase = "done" /\ ~Endless => CopyOK(out, locals, Len(code))
-----------------------------------------------------------------------------
(* Positions *)

LEMMA PaddingType == \A pos \in Int : Padding(pos) \in 0..3
BY DEF Padding

\* The padding brings a position to a multiple of four.
LEMMA PaddingAligns == ASSUME NEW pos \in Int PROVE (pos + Padding(pos)) % 4 = 0
BY DEF Padding

\* The positions of instructions are the sums of the sizes before them.
StartsUpto(start, m, n) ==
  start = [i \in 1..n |-> IF i = 1 THEN 0 ELSE start[i-1] + Size(m.code[i-1], start[i-1])]

LEMMA StartsExist ==
  ASSUME NEW m, Len(m.code) \in Nat
  PROVE  \E start : StartsUpto(start, m, Len(m.code) + 1)
<1> DEFINE G == {n \in Nat : \E start : StartsUpto(start, m, n)}
<1>1. 0 \in G
  <2>1. StartsUpto([i \in 1..0 |-> 0], m, 0)
    BY DEF StartsUpto
  <2> QED BY <2>1
<1>2. ASSUME NEW n \in Nat, n \in G PROVE n + 1 \in G
  <2>1. PICK start : StartsUpto(start, m, n)
    BY <1>2
  <2> DEFINE more == [i \in 1..n + 1 |-> IF i = 1 THEN 0
                                         ELSE start[i-1] + Size(m.code[i-1], start[i-1])]
  <2>2. \A i \in 1..n : more[i] = start[i]
    BY <2>1 DEF StartsUpto
  <2>3. \A i \in 1..n + 1 : i # 1 => i - 1 \in 1..n
    OBVIOUS
  <2>4. StartsUpto(more, m, n + 1)
    <3>1. \A i \in 1..n + 1 : i # 1 => more[i-1] = start[i-1]
      BY <2>2, <2>3
    <3>2. more = [i \in 1..n + 1 |-> IF i = 1 THEN 0
                                     ELSE more[i-1] + Size(m.code[i-1], more[i-1])]
      BY <3>1
    <3> QED BY <3>2 DEF StartsUpto
  <2> HIDE DEF more
  <2>5. \E new : StartsUpto(new, m, n + 1)
    BY <2>4
  <2> QED BY <2>5
<1>3. Len(m.code) + 1 \in G
  <2>1. Len(m.code) + 1 \in Nat
    OBVIOUS
  <2>2. \A n \in 0..(Len(m.code) + 1) - 1 : n \in G => n + 1 \in G
    BY <1>2
  <2> HIDE DEF G
  <2>3. 0..(Len(m.code) + 1) \subseteq G
    BY <1>1, <2>1, <2>2, CountUp
  <2> QED BY <2>1, <2>3
<1> QED BY <1>3

LEMMA StartsAre ==
  ASSUME NEW m, Len(m.code) \in Nat
  PROVE  /\ Starts(m)[1] = 0
         /\ \A i \in 1..Len(m.code) :
              Starts(m)[i + 1] = Starts(m)[i] + Size(m.code[i], Starts(m)[i])
<1>1. Starts(m) = CHOOSE start : StartsUpto(start, m, Len(m.code) + 1)
  BY DEF Starts, StartsUpto
<1>2. StartsUpto(Starts(m), m, Len(m.code) + 1)
  BY <1>1, StartsExist
<1> QED BY <1>2 DEF StartsUpto

\* What is known of the method, and of the sizes of its instructions.
LEMMA MethodIs ==
  ASSUME method \in Methods
  PROVE  /\ Len(code) \in Nat \ {0} /\ DOMAIN code = Numbers
         /\ method.prefix \in Nat /\ method.instance \in Nat /\ method.locals \in Nat
         /\ method.hooked \in BOOLEAN /\ method.where \in 0..2 /\ method.bytes \in {5, 6}
         /\ method.prefix = 0 => method.hooked /\ method.instance = 0
         /\ Compiled(code)
         /\ \A i \in Numbers : /\ code[i].op \in Ops /\ code[i].to \in Seq(Numbers)
                               /\ SwitchAt(i) => Len(code[i].to) >= 1
<1>1. code \in Seq([op : Ops, to : Seq(Nat)]) /\ Compiled(code)
  BY MethodsAssumption DEF code
<1>2. DOMAIN code = Numbers /\ Len(code) \in Nat
  BY <1>1 DEF Numbers
<1>3. Len(code) # 0
  BY <1>1, <1>2 DEF Compiled
<1>4. \A i \in Numbers : code[i] \in [op : Ops, to : Seq(Numbers)]
  BY <1>1, <1>2 DEF Compiled
<1>5. \A i \in Numbers : SwitchAt(i) => Len(code[i].to) >= 1
  <2>1. \A i \in Numbers : SwitchAt(i) => code[i].to # <<>>
    BY <1>1, <1>2 DEF Compiled, SwitchAt
  <2> QED BY <1>4, <2>1
<1> QED BY <1>1, <1>2, <1>3, <1>4, <1>5, MethodsAssumption

\* Bytes of the operands of a switch behind its padding.
Operands(i) == Size(code[i], 0) - 1 - Padding(1)

LEMMA Sizes ==
  ASSUME method \in Methods, NEW i \in Numbers, NEW pos \in Nat
  PROVE  /\ Size(code[i], pos) \in Nat \ {0}
         /\ code[i].op \in Exits => Size(code[i], pos) = 1
         /\ SwitchAt(i) => /\ Operands(i) \in Nat /\ Operands(i) >= 8
                           /\ Size(code[i], pos) = 1 + Padding(pos + 1) + Operands(i)
<1>1. /\ code[i].op \in Ops /\ Len(code[i].to) \in Nat
      /\ SwitchAt(i) => Len(code[i].to) >= 1
  BY MethodIs
<1>2. Padding(pos + 1) \in 0..3 /\ Padding(1) \in 0..3
  BY PaddingType
<1>3. CASE code[i].op \in Exits
  BY <1>3 DEF Size, Exits, SwitchAt, Switches
<1>4. CASE code[i].op = "lookupswitch"
  <2>1. \A at \in Nat : Size(code[i], at) = 1 + Padding(at + 1) + 8 * Len(code[i].to)
    BY <1>4 DEF Size
  <2>2. Size(code[i], 0) = 1 + Padding(1) + 8 * Len(code[i].to)
    <3>1. Size(code[i], 0) = 1 + Padding(0 + 1) + 8 * Len(code[i].to)
      BY <2>1
    <3>2. 0 + 1 = 1
      OBVIOUS
    <3> QED BY <3>1, <3>2
  <2>3. SwitchAt(i) /\ code[i].op \notin Exits
    BY <1>4 DEF SwitchAt, Switches, Exits
  <2>4. Operands(i) = 8 * Len(code[i].to)
    BY <1>1, <1>2, <2>2 DEF Operands
  <2>5. Operands(i) \in Nat /\ Operands(i) >= 8
    BY <1>1, <2>3, <2>4
  <2>6. Size(code[i], pos) = 1 + Padding(pos + 1) + Operands(i)
    BY <2>1, <2>4, <2>5, <1>1, <1>2
  <2>7. Size(code[i], pos) \in Nat \ {0}
    BY <2>5, <2>6, <1>2
  <2> QED BY <2>3, <2>5, <2>6, <2>7
<1>5. CASE code[i].op = "tableswitch"
  <2>1. \A at \in Nat : Size(code[i], at) = 1 + Padding(at + 1) + 8 + 4 * Len(code[i].to)
    BY <1>5 DEF Size
  <2>2. Size(code[i], 0) = 1 + Padding(1) + 8 + 4 * Len(code[i].to)
    <3>1. Size(code[i], 0) = 1 + Padding(0 + 1) + 8 + 4 * Len(code[i].to)
      BY <2>1
    <3>2. 0 + 1 = 1
      OBVIOUS
    <3> QED BY <3>1, <3>2
  <2>3. SwitchAt(i) /\ code[i].op \notin Exits
    BY <1>5 DEF SwitchAt, Switches, Exits
  <2>4. Operands(i) = 8 + 4 * Len(code[i].to)
    BY <1>1, <1>2, <2>2 DEF Operands
  <2>5. Operands(i) \in Nat /\ Operands(i) >= 8
    BY <1>1, <2>3, <2>4
  <2>6. Size(code[i], pos) = 1 + Padding(pos + 1) + Operands(i)
    <3>1. Size(code[i], pos) = 1 + Padding(pos + 1) + 8 + 4 * Len(code[i].to)
      BY <2>1
    <3>2. \A pad, len \in Nat : 1 + pad + 8 + 4 * len = 1 + pad + (8 + 4 * len)
      OBVIOUS
    <3>3. Padding(pos + 1) \in Nat
      BY <1>2
    <3> QED BY <1>1, <2>4, <3>1, <3>2, <3>3
  <2>7. Size(code[i], pos) \in Nat \ {0}
    BY <2>5, <2>6, <1>2
  <2> QED BY <2>3, <2>5, <2>6, <2>7
<1>6. CASE code[i].op \notin Exits \cup Switches
  BY <1>1, <1>6 DEF Size, SwitchAt, Switches, Ops, Branches
<1> QED BY <1>3, <1>4, <1>5, <1>6 DEF Switches

LEMMA Positions ==
  ASSUME method \in Methods
  PROVE  /\ S(1) = 0 /\ \A i \in 1..Past : S(i) \in Nat
         /\ \A i \in Numbers : S(i + 1) = S(i) + Size(code[i], S(i)) /\ S(i) < S(i + 1)
<1>1. /\ S(1) = 0
      /\ \A i \in Numbers : S(i + 1) = S(i) + Size(code[i], S(i))
  BY MethodIs, StartsAre DEF S, code, Numbers
<1> DEFINE G == {n \in Nat : S(n + 1) \in Nat}
<1>2. 0 \in G
  BY <1>1
<1>3. ASSUME NEW n \in 0..Len(code) - 1, n \in G PROVE n + 1 \in G
  <2>1. n + 1 \in Numbers /\ n + 1 \in Nat
    BY MethodIs DEF Numbers
  <2>2. S(n + 1) \in Nat
    BY <1>3
  <2>3. Size(code[n + 1], S(n + 1)) \in Nat
    BY <2>1, <2>2, Sizes
  <2> QED BY <1>1, <2>1, <2>2, <2>3
<1>4. 0..Len(code) \subseteq G
  <2> HIDE DEF G
  <2> QED BY <1>2, <1>3, MethodIs, CountUp
<1>5. \A i \in 1..Past : S(i) \in Nat
  <2> SUFFICES ASSUME NEW i \in 1..Past PROVE S(i) \in Nat
    OBVIOUS
  <2>1. i - 1 \in 0..Len(code) /\ (i - 1) + 1 = i
    BY MethodIs DEF Past
  <2> QED BY <1>4, <2>1
<1>6. \A i \in Numbers : S(i) < S(i + 1)
  <2> SUFFICES ASSUME NEW i \in Numbers PROVE S(i) < S(i + 1)
    OBVIOUS
  <2>1. S(i) \in Nat
    BY <1>5, MethodIs DEF Numbers, Past
  <2> QED BY <1>1, <2>1, Sizes
<1> QED BY <1>1, <1>5, <1>6

\* Later instructions stand behind.
LEMMA LaterIsBehind ==
  ASSUME method \in Methods, NEW i \in 1..Past, NEW j \in 1..Past, i < j
  PROVE  S(i) < S(j) /\ (SwitchAt(i) => S(i) + 1 < S(j))
<1>1. Len(code) \in Nat /\ i \in Numbers
  BY MethodIs DEF Numbers, Past
<1> DEFINE G == {n \in Nat : i + 1 + n <= Past => S(i + 1) <= S(i + 1 + n)}
<1>2. S(i) \in Nat /\ S(i + 1) \in Nat
  BY <1>1, Positions DEF Numbers, Past
<1>3. 0 \in G
  BY <1>2
<1>4. ASSUME NEW n \in 0..(j - i - 1) - 1, n \in G PROVE n + 1 \in G
  <2>1. i + 1 + n \in Numbers /\ i + 1 + n \in 1..Past /\ i + 1 + (n + 1) = (i + 1 + n) + 1
    BY <1>1 DEF Numbers, Past
  <2>2. (i + 1 + n) + 1 \in 1..Past
    BY <1>1, <2>1 DEF Numbers, Past
  <2>3. S(i + 1 + n) \in Nat /\ S((i + 1 + n) + 1) \in Nat /\ S(i + 1 + n) < S((i + 1 + n) + 1)
    BY <2>1, <2>2, Positions
  <2>4. S(i + 1) <= S(i + 1 + n)
    BY <1>4, <2>1 DEF Past
  <2>5. S(i + 1) <= S(i + 1 + (n + 1))
    BY <1>2, <2>1, <2>3, <2>4
  <2> QED BY <2>5
<1>5. 0..j - i - 1 \subseteq G
  <2>1. j - i - 1 \in Nat
    BY <1>1 DEF Past
  <2> HIDE DEF G
  <2> QED BY <1>3, <1>4, <2>1, CountUp
<1>6. S(i + 1) <= S(j)
  <2>1. j - i - 1 \in 0..j - i - 1 /\ i + 1 + (j - i - 1) = j
    BY <1>1 DEF Past
  <2> QED BY <1>5, <2>1
<1>7. S(j) \in Nat
  BY Positions
<1>8. SwitchAt(i) => S(i) + 1 < S(i + 1)
  <2>1. S(i + 1) = S(i) + Size(code[i], S(i)) /\ Padding(S(i) + 1) \in Nat
    BY <1>1, <1>2, Positions, PaddingType
  <2>2. SwitchAt(i) => /\ Operands(i) \in Nat /\ Operands(i) >= 8
                       /\ Size(code[i], S(i)) = 1 + Padding(S(i) + 1) + Operands(i)
    <3>1. /\ i \in Numbers /\ S(i) \in Nat
      BY <1>1, <1>2
    <3> QED BY <3>1, Sizes
  <2> QED BY <1>2, <2>1, <2>2
<1>9. S(i) < S(i + 1)
  BY <1>1, Positions
<1> QED BY <1>2, <1>6, <1>7, <1>8, <1>9

\* A mark lies inside its instruction.
LEMMA SpotInside ==
  ASSUME method \in Methods, NEW i \in Numbers, Marked(i)
  PROVE  Spot(i) \in Nat /\ S(i) <= Spot(i) /\ Spot(i) < S(i + 1)
<1>1. S(i) \in Nat /\ i \in 1..Past /\ i + 1 \in 1..Past /\ S(i + 1) \in Nat
  BY Positions, MethodIs DEF Numbers, Past
<1>2. S(i) < S(i + 1) /\ (SwitchAt(i) => S(i) + 1 < S(i + 1))
  BY <1>1, LaterIsBehind
<1> QED BY <1>1, <1>2 DEF Spot, Marked

\* Marks are in the order of instructions.
LEMMA SpotOrder ==
  ASSUME method \in Methods, NEW i \in Numbers, Marked(i), NEW j \in 1..Past
  PROVE  /\ i < j => Spot(i) < S(j)
         /\ j <= i => S(j) <= Spot(i)
         /\ j < i => S(j) + 1 <= Spot(i) /\ Spot(i) # 0
<1>1. i \in 1..Past /\ i + 1 \in 1..Past
  BY MethodIs DEF Numbers, Past
<1>2. /\ S(i) \in Nat /\ S(j) \in Nat /\ S(i + 1) \in Nat
      /\ Spot(i) \in Nat /\ S(i) <= Spot(i) /\ Spot(i) < S(i + 1)
  BY <1>1, Positions, SpotInside
<1>3. i + 1 < j => S(i + 1) < S(j)
  BY <1>1, LaterIsBehind
<1>4. j < i => S(j) < S(i)
  BY <1>1, LaterIsBehind
<1> QED BY <1>1, <1>2, <1>3, <1>4
-----------------------------------------------------------------------------
(* The map *)

\* What a map notes lies in the code.
LEMMA MapInCode ==
  ASSUME method \in Methods, NEW f, NEW n \in 0..Len(code), ChangesOK(f, n)
  PROVE  DOMAIN f \subseteq 0..S(Past) /\ IsFiniteSet(DOMAIN f)
<1>1. Past \in 1..Past /\ S(Past) \in Nat
  BY Positions, MethodIs DEF Past
<1>2. DOMAIN f \subseteq 0..S(Past)
  <2> SUFFICES ASSUME NEW i \in 1..n, Marked(i) PROVE Spot(i) \in 0..S(Past)
    BY <1>1 DEF ChangesOK, Entry
  <2>1. i \in Numbers /\ i < Past
    BY MethodIs DEF Numbers, Past
  <2>2. Spot(i) \in Nat /\ Spot(i) < S(Past)
    BY <1>1, <2>1, SpotInside, SpotOrder
  <2> QED BY <1>1, <2>2
<1>3. IsFiniteSet(0..S(Past))
  BY <1>1, FS_Interval
<1> QED BY <1>2, <1>3, FS_Subset

\* Behind an instruction its own mark is added.
LEMMA AheadNext ==
  ASSUME method \in Methods, NEW f, NEW n \in 0..Len(code), ChangesOK(f, n), NEW i \in 1..n
  PROVE  /\ Ahead(f, i + 1) = Ahead(f, i) \cup (IF Marked(i) THEN {Spot(i)} ELSE {})
         /\ Marked(i) /\ ~Merged => Spot(i) \notin Ahead(f, i)
<1>1. i \in Numbers /\ i \in 1..Past /\ i + 1 \in 1..Past /\ n <= Len(code) /\ n \in Nat
  BY MethodIs DEF Numbers, Past
<1>2. S(i) \in Nat /\ S(i + 1) \in Nat /\ S(i) < S(i + 1)
  BY <1>1, Positions
<1>3. ASSUME NEW p \in DOMAIN f, p \notin Entry
      PROVE  p < S(i + 1) <=> (p < S(i) \/ (Marked(i) /\ p = Spot(i)))
  <2>1. PICK j \in 1..n : Marked(j) /\ p = Spot(j)
    BY <1>3 DEF ChangesOK
  <2>2. j \in Numbers
    BY <1>1 DEF Numbers
  <2>3. Spot(j) \in Nat
    BY <2>1, <2>2, SpotInside
  <2>4. CASE j < i
    BY <1>1, <1>2, <2>1, <2>2, <2>3, <2>4, SpotOrder
  <2>5. CASE j = i
    BY <1>1, <1>2, <2>1, <2>2, <2>3, <2>5, SpotInside
  <2>6. CASE j > i
    <3>1. S(i + 1) <= Spot(j)
      BY <1>1, <2>1, <2>2, <2>6, SpotOrder
    <3>2. Marked(i) => Spot(i) < S(i + 1)
      BY <1>1, SpotInside
    <3> QED BY <1>2, <2>1, <2>3, <3>1, <3>2
  <2> QED BY <2>4, <2>5, <2>6, <1>1
<1>4. Marked(i) => Spot(i) \in DOMAIN f
  BY DEF ChangesOK
<1>5. Marked(i) => Spot(i) \in Nat /\ S(i) <= Spot(i) /\ Spot(i) < S(i + 1)
  BY <1>1, SpotInside
<1>6. Marked(i) /\ Spot(i) \in Entry => Merged
  <2> SUFFICES ASSUME Marked(i), Spot(i) \in Entry PROVE Merged
    OBVIOUS
  <2>1. Spot(i) = 0 /\ Entry # {}
    BY DEF Entry
  <2>2. ExitAt(i)
    BY <1>2, <2>1 DEF Spot
  <2>3. ~(1 < i)
    <3>1. S(i) = 0
      BY <1>2, <2>1, <1>5
    <3>2. 1 \in 1..Past /\ S(1) = 0
      BY <1>1, Positions DEF Past, Numbers
    <3> QED BY <1>1, <3>1, <3>2, LaterIsBehind
  <2> QED BY <1>1, <2>1, <2>2, <2>3 DEF Merged
<1>7. Marked(i) /\ ~Merged => Spot(i) \notin Ahead(f, i)
  BY <1>2, <1>5, <1>6 DEF Ahead
<1>8. \A p \in DOMAIN f : p \in Ahead(f, i + 1) <=>
        p \in Ahead(f, i) \/ (Marked(i) /\ p = Spot(i))
  BY <1>3, <1>5 DEF Ahead
<1> QED BY <1>4, <1>7, <1>8 DEF Ahead

\* What a map adds is a whole number, and grows by the growth of instructions.
LEMMA Shifts ==
  ASSUME method \in Methods, NEW f, NEW n \in 0..Len(code), ChangesOK(f, n), ~Merged
  PROVE  /\ Shift(f, 1) = EntryBytes /\ EntryBytes \in Nat
         /\ \A i \in 1..n + 1 : Shift(f, i) \in Int
         /\ \A i \in 1..n : /\ Shift(f, i + 1) = Shift(f, i) + Growth(f, i)
                           /\ Growth(f, i) \in Int
<1>1. IsFiniteSet(DOMAIN f) /\ DOMAIN f \subseteq Nat /\ n \in Nat /\ n <= Len(code)
  BY MapInCode, MethodIs, Positions DEF Past
<1>2. \A i \in 1..n + 1 : IsFiniteSet(Ahead(f, i))
  BY <1>1, FS_Subset DEF Ahead
<1>3. Ahead(f, 1) = Entry
  BY <1>1, Positions DEF Ahead, ChangesOK
<1>4. Shift(f, 1) = EntryBytes /\ EntryBytes \in Nat
  <2>1. CASE Entry = {}
    BY <1>3, <2>1, SumEmpty DEF Shift, EntryBytes
  <2>2. CASE Entry # {}
    <3>1. Entry = {0} /\ f[0] = method.bytes /\ method.bytes \in Nat
      BY <2>2, MethodIs DEF Entry, ChangesOK
    <3>2. SumFunctionOnSet(f, {0}) = f[0]
      BY <3>1, SumOne
    <3> QED BY <1>3, <2>2, <3>1, <3>2 DEF Shift, EntryBytes
  <2> QED BY <2>1, <2>2
<1>5. \A i \in 1..n : Shift(f, i) \in Int => Growth(f, i) \in Int
  <2> SUFFICES ASSUME NEW i \in 1..n, Shift(f, i) \in Int PROVE Growth(f, i) \in Int
    OBVIOUS
  <2>1. S(i) \in Nat
    BY <1>1, Positions, MethodIs DEF Past
  <2>2. Padding(S(i) + 1 + Shift(f, i)) \in Int /\ Padding(S(i) + 1) \in Int
    BY <2>1, PaddingType
  <2>3. method.bytes \in Int /\ KeptBytes(i) \in Int
    BY MethodIs DEF KeptBytes, LocalBytes
  <2> QED BY <2>2, <2>3 DEF Growth
<1>6. \A i \in 1..n : Marked(i) => f[Spot(i)] = Growth(f, i)
  BY DEF ChangesOK
<1> DEFINE G == {k \in Nat : \A p \in Ahead(f, k + 1) : f[p] \in Int}
<1>7. 0 \in G
  BY <1>3, MethodIs DEF ChangesOK, Entry
<1>8. ASSUME NEW k \in 0..n - 1, k \in G PROVE k + 1 \in G
  <2>1. k + 1 \in 1..n /\ k + 1 \in 1..n + 1 /\ k + 1 \in Nat
    BY <1>1
  <2>2. Shift(f, k + 1) \in Int
    BY <1>2, <1>8, <2>1, SumType DEF Shift
  <2>3. Marked(k + 1) => f[Spot(k + 1)] \in Int
    BY <1>5, <1>6, <2>1, <2>2
  <2>4. Ahead(f, (k + 1) + 1) = Ahead(f, k + 1) \cup (IF Marked(k + 1) THEN {Spot(k + 1)} ELSE {})
    BY <2>1, AheadNext
  <2>5. \A p \in Ahead(f, (k + 1) + 1) : f[p] \in Int
    BY <1>8, <2>3, <2>4
  <2> QED BY <2>1, <2>5
<1>9. 0..n \subseteq G
  <2> HIDE DEF G
  <2> QED BY <1>1, <1>7, <1>8, CountUp
<1>10. \A i \in 1..n + 1 : \A p \in Ahead(f, i) : f[p] \in Int
  <2> SUFFICES ASSUME NEW i \in 1..n + 1 PROVE \A p \in Ahead(f, i) : f[p] \in Int
    OBVIOUS
  <2>1. i - 1 \in 0..n /\ (i - 1) + 1 = i
    BY <1>1
  <2> QED BY <1>9, <2>1
<1>11. \A i \in 1..n + 1 : Shift(f, i) \in Int
  BY <1>2, <1>10, SumType DEF Shift
<1>12. ASSUME NEW i \in 1..n
       PROVE  Shift(f, i + 1) = Shift(f, i) + Growth(f, i) /\ Growth(f, i) \in Int
  <2>1. i \in 1..n + 1 /\ i + 1 \in 1..n + 1
    BY <1>1
  <2>2. Growth(f, i) \in Int /\ Shift(f, i) \in Int
    BY <1>5, <1>11, <2>1
  <2>3. CASE Marked(i)
    <3>1. Ahead(f, i + 1) = Ahead(f, i) \cup {Spot(i)} /\ Spot(i) \notin Ahead(f, i)
      BY <2>3, AheadNext
    <3>2. \A p \in Ahead(f, i) \cup {Spot(i)} : f[p] \in Int
      BY <1>10, <2>1, <3>1
    <3>3. SumFunctionOnSet(f, Ahead(f, i) \cup {Spot(i)})
            = SumFunctionOnSet(f, Ahead(f, i)) + f[Spot(i)]
      BY <1>2, <2>1, <3>1, <3>2, SumWith
    <3> QED BY <1>6, <2>2, <2>3, <3>1, <3>3 DEF Shift
  <2>4. CASE ~Marked(i)
    <3>1. Ahead(f, i + 1) = Ahead(f, i)
      <4>1. Ahead(f, i + 1) = Ahead(f, i) \cup (IF Marked(i) THEN {Spot(i)} ELSE {})
        BY AheadNext
      <4> QED BY <2>4, <4>1
    <3>2. Growth(f, i) = 0
      BY <2>4 DEF Growth, Marked
    <3> QED BY <2>2, <3>1, <3>2 DEF Shift
  <2> QED BY <2>3, <2>4
<1> QED BY <1>4, <1>11, <1>12

\* What is ahead of the positions that the code is asked about.
LEMMA AheadIs ==
  ASSUME method \in Methods, NEW f, NEW n \in 0..Len(code), ChangesOK(f, n), NEW i \in 1..n + 1
  PROVE  /\ {p \in DOMAIN f : p < S(i)} = IF i = 1 THEN {} ELSE Ahead(f, i)
         /\ {p \in DOMAIN f : p <= S(i)} =
              Ahead(f, i) \cup (IF i \in 1..n /\ ExitAt(i) THEN {S(i)} ELSE {})
         /\ i = n + 1 /\ i \in Numbers /\ SwitchAt(i) =>
              {p \in DOMAIN f : p <= S(i) + 1} = Ahead(f, i)
<1>1. /\ n \in Nat /\ n <= Len(code) /\ i \in 1..Past /\ DOMAIN f \subseteq Nat
      /\ S(i) \in Nat /\ S(1) = 0 /\ 1 \in 1..Past
  BY MapInCode, MethodIs, Positions DEF Past
<1>2. i # 1 => S(1) < S(i)
  BY <1>1, LaterIsBehind
<1>3. Entry \subseteq {0} /\ Entry \subseteq DOMAIN f
  BY DEF Entry, ChangesOK
<1>4. ASSUME NEW p \in DOMAIN f, p \notin Entry
      PROVE  /\ p = S(i) => i \in 1..n /\ ExitAt(i)
             /\ i = n + 1 => p < S(i)
  <2>1. PICK j \in 1..n : Marked(j) /\ p = Spot(j)
    BY <1>4 DEF ChangesOK
  <2>2. j \in Numbers /\ Spot(j) \in Nat
    BY <1>1, <2>1, SpotInside DEF Numbers
  <2>3. CASE j < i
    BY <1>1, <2>1, <2>2, <2>3, SpotOrder
  <2>4. CASE j = i
    BY <1>1, <2>1, <2>2, <2>4 DEF Spot
  <2>5. CASE i < j
    BY <1>1, <2>1, <2>2, <2>5, SpotOrder
  <2> QED BY <1>1, <2>3, <2>4, <2>5
<1>5. ASSUME i \in 1..n, ExitAt(i) PROVE S(i) \in DOMAIN f
  <2>1. Spot(i) \in DOMAIN f /\ Spot(i) = S(i)
    BY <1>5 DEF ChangesOK, Spot, Marked
  <2> QED BY <2>1
<1>6. {p \in DOMAIN f : p < S(i)} = IF i = 1 THEN {} ELSE Ahead(f, i)
  BY <1>1, <1>2, <1>3 DEF Ahead
<1>7. {p \in DOMAIN f : p <= S(i)} =
        Ahead(f, i) \cup (IF i \in 1..n /\ ExitAt(i) THEN {S(i)} ELSE {})
  BY <1>1, <1>3, <1>4, <1>5 DEF Ahead
<1>8. ASSUME i = n + 1 PROVE {p \in DOMAIN f : p <= S(i) + 1} = Ahead(f, i)
  <2>1. \A p \in DOMAIN f : p \in Entry \/ p < S(i)
    BY <1>4, <1>8
  <2> QED BY <1>1, <1>3, <2>1 DEF Ahead
<1> QED BY <1>6, <1>7, <1>8

\* An instruction that nothing is noted about.
LEMMA NothingNoted ==
  ASSUME NEW f, NEW n \in Nat, ChangesOK(f, n), ~Marked(n + 1)
  PROVE  ChangesOK(f, n + 1)
<1>1. {j \in 1..n + 1 : Marked(j)} = {j \in 1..n : Marked(j)}
  OBVIOUS
<1>2. DOMAIN f = Entry \cup {Spot(i) : i \in {j \in 1..n + 1 : Marked(j)}}
  BY <1>1 DEF ChangesOK
<1>3. ~Merged => \A i \in 1..n + 1 : Marked(i) => f[Spot(i)] = Growth(f, i)
  BY DEF ChangesOK
<1> QED BY <1>2, <1>3 DEF ChangesOK

\* Noting what the next instruction grows by leaves the earlier notes true.
Noted(f, pos, bytes) ==
  IF pos \in DOMAIN f THEN f
  ELSE [p \in DOMAIN f \cup {pos} |-> IF p = pos THEN bytes ELSE f[p]]

LEMMA NotedGrows ==
  ASSUME method \in Methods, NEW f, NEW n \in 0..Len(code), n + 1 \in Numbers,
         ChangesOK(f, n), Marked(n + 1),
         NEW g, g = Noted(f, Spot(n + 1), Growth(f, n + 1))
  PROVE  ChangesOK(g, n + 1)
<1> DEFINE new == Spot(n + 1)
<1>1. /\ n \in Nat /\ n <= Len(code) /\ DOMAIN f \subseteq Nat /\ new \in Nat
      /\ n + 1 \in 1..n + 1
  BY MapInCode, MethodIs, Positions, SpotInside DEF Past
<1>2. {j \in 1..n + 1 : Marked(j)} = {j \in 1..n : Marked(j)} \cup {n + 1}
  BY <1>1
<1>3. DOMAIN g = DOMAIN f \cup {new}
  BY DEF Noted
<1>4. DOMAIN g = Entry \cup {Spot(i) : i \in {j \in 1..n + 1 : Marked(j)}}
  BY <1>2, <1>3 DEF ChangesOK
<1>5. \A i \in 1..n : S(i) < new /\ i \in Numbers
  <2> SUFFICES ASSUME NEW i \in 1..n PROVE S(i) < new /\ i \in Numbers
    OBVIOUS
  <2>1. i \in 1..Past /\ i < n + 1 /\ i \in Numbers /\ S(i) \in Nat
    BY <1>1, Positions DEF Past, Numbers
  <2>2. S(i) + 1 <= new
    BY <2>1, SpotOrder
  <2> QED BY <1>1, <2>1, <2>2
<1>6. S(n + 1) <= new
  BY SpotInside
<1>7. \A p \in DOMAIN f : g[p] = f[p]
  BY DEF Noted
<1>8. Entry # {} => g[0] = method.bytes
  BY <1>7 DEF ChangesOK, Entry
<1>9. ASSUME ~Merged, NEW i \in 1..n + 1, Marked(i) PROVE g[Spot(i)] = Growth(g, i)
  <2>1. new \notin DOMAIN f
    <3> SUFFICES ASSUME new \in DOMAIN f PROVE FALSE
      OBVIOUS
    <3>1. ASSUME NEW j \in 1..n, Marked(j), new = Spot(j) PROVE FALSE
      <4>1. n + 1 \in 1..Past /\ j < n + 1
        BY <1>1 DEF Past
      <4>2. Spot(j) < S(n + 1)
        BY <1>5, <3>1, <4>1, SpotOrder
      <4>3. S(n + 1) \in Nat /\ S(n + 1) <= Spot(j)
        BY <1>6, <3>1, <4>1, Positions
      <4> QED BY <1>1, <3>1, <4>2, <4>3
    <3>2. new \in Entry
      BY <3>1 DEF ChangesOK
    <3>3. new = 0 /\ Entry # {}
      BY <3>2 DEF Entry
    <3>4. n = 0
      <4> SUFFICES ASSUME n # 0 PROVE FALSE
        OBVIOUS
      <4>1. 1 \in 1..n
        BY <1>1
      <4>2. S(1) = 0
        BY Positions
      <4> QED BY <1>5, <3>3, <4>1, <4>2
    <3>5. ExitAt(1)
      BY <3>3, <3>4, Positions DEF Spot
    <3> QED BY <1>9, <3>3, <3>5 DEF Merged
  <2>2. Ahead(g, i) = Ahead(f, i)
    <3>1. S(i) <= new /\ S(i) \in Nat
      <4>1. S(i) \in Nat
        BY <1>1, Positions DEF Past
      <4> QED BY <1>1, <1>5, <1>6, <4>1
    <3>2. new \notin Entry
      BY <2>1 DEF ChangesOK
    <3> QED BY <1>1, <1>3, <3>1, <3>2 DEF Ahead
  <2>3. Shift(g, i) = Shift(f, i)
    <3>1. IsFiniteSet(Ahead(f, i)) /\ \A p \in Ahead(f, i) : g[p] = f[p]
      BY <1>7, MapInCode, FS_Subset DEF Ahead
    <3> QED BY <2>2, <3>1, SumSame DEF Shift
  <2>4. Growth(g, i) = Growth(f, i)
    BY <2>3 DEF Growth
  <2>5. CASE i = n + 1
    BY <2>1, <2>4, <2>5 DEF Noted
  <2>6. CASE i # n + 1
    <3>1. i \in 1..n
      BY <1>1, <2>6
    <3>2. f[Spot(i)] = Growth(f, i) /\ Spot(i) \in DOMAIN f
      BY <1>9, <3>1 DEF ChangesOK
    <3> QED BY <1>7, <2>4, <3>2
  <2> QED BY <2>5, <2>6
<1> QED BY <1>3, <1>4, <1>8, <1>9 DEF ChangesOK

\* What getCodePosAfterInsertCallbacks makes of a position, with and without
\* bBeforeEnd.
PosAhead(pos)  == pos + SumFunctionOnSet(changes, {p \in DOMAIN changes : p < pos})
PosBehind(pos) == pos + SumFunctionOnSet(changes, {p \in DOMAIN changes : p <= pos})

LEMMA PosIs ==
  ASSUME DOMAIN changes \subseteq Nat, NEW pos \in Int
  PROVE  /\ getCodePosAfterInsertCallbacks(pos, TRUE) = PosAhead(pos)
         /\ getCodePosAfterInsertCallbacks(pos, FALSE) = PosBehind(pos)
<1>1. {p \in DOMAIN changes : p < pos \/ (p = pos /\ ~FALSE)} = {p \in DOMAIN changes : p <= pos}
  OBVIOUS
<1>2. {p \in DOMAIN changes : p < pos \/ (p = pos /\ ~TRUE)} = {p \in DOMAIN changes : p < pos}
  OBVIOUS
<1>3. getCodePosAfterInsertCallbacks(pos, TRUE) = PosAhead(pos)
  BY <1>2, Zenon DEF getCodePosAfterInsertCallbacks, PosAhead
<1>4. getCodePosAfterInsertCallbacks(pos, FALSE) = PosBehind(pos)
  BY <1>1, Zenon DEF getCodePosAfterInsertCallbacks, PosBehind
<1> QED BY <1>3, <1>4

LEMMA PosAtExits ==
  ASSUME DOMAIN changes \subseteq Nat, NEW pos \in Int
  PROVE  getCodePosAfterInsertCallbacks(pos, AtExits)
           = IF AtExits THEN PosAhead(pos) ELSE PosBehind(pos)
<1>1. CASE AtExits
  <2>1. {p \in DOMAIN changes : p < pos \/ (p = pos /\ ~AtExits)} = {p \in DOMAIN changes : p < pos}
    BY <1>1
  <2>2. getCodePosAfterInsertCallbacks(pos, AtExits) = PosAhead(pos)
    BY <2>1, Zenon DEF getCodePosAfterInsertCallbacks, PosAhead
  <2> QED BY <1>1, <2>2, Zenon
<1>2. CASE ~AtExits
  <2>1. {p \in DOMAIN changes : p < pos \/ (p = pos /\ ~AtExits)} = {p \in DOMAIN changes : p <= pos}
    BY <1>2
  <2>2. getCodePosAfterInsertCallbacks(pos, AtExits) = PosBehind(pos)
    BY <2>1, Zenon DEF getCodePosAfterInsertCallbacks, PosBehind
  <2> QED BY <1>2, <2>2, Zenon
<1> QED BY <1>1, <1>2, Zenon

LEMMA CodePos ==
  ASSUME method \in Methods, NEW n \in 0..Len(code), ChangesOK(changes, n), ~Merged,
         NEW i \in 1..n + 1
  PROVE  /\ PosAhead(S(i)) = IF i = 1 THEN 0 ELSE Group(i)
         /\ i \in 1..n => PosBehind(S(i)) = NewPlace(i)
         /\ i = n + 1 => PosBehind(S(i)) = Group(i)
         /\ Group(i) \in Int
<1>1. /\ n \in Nat /\ n <= Len(code) /\ i \in 1..Past /\ DOMAIN changes \subseteq Nat
      /\ S(i) \in Nat /\ S(1) = 0
  BY MapInCode, MethodIs, Positions DEF Past
<1>2. Shift(changes, i) \in Int
  BY Shifts
<1>3. PosAhead(S(i)) = IF i = 1 THEN 0 ELSE Group(i)
  <2>1. {p \in DOMAIN changes : p < S(i)} = IF i = 1 THEN {} ELSE Ahead(changes, i)
    BY AheadIs
  <2>2. CASE i = 1
    <3>1. {p \in DOMAIN changes : p < S(i)} = {}
      BY <2>1, <2>2
    <3>2. PosAhead(S(i)) = S(i) + 0
      BY <3>1, SumEmpty DEF PosAhead
    <3> QED BY <1>1, <2>2, <3>2
  <2>3. CASE i # 1
    <3>1. {p \in DOMAIN changes : p < S(i)} = Ahead(changes, i)
      BY <2>1, <2>3
    <3>2. PosAhead(S(i)) = Group(i)
      BY <3>1 DEF PosAhead, Group, Shift
    <3> QED BY <2>3, <3>2
  <2> QED BY <2>2, <2>3
<1>4. {p \in DOMAIN changes : p <= S(i)} =
        Ahead(changes, i) \cup (IF i \in 1..n /\ ExitAt(i) THEN {S(i)} ELSE {})
  BY AheadIs
<1>5. ASSUME i \in 1..n, ExitAt(i) PROVE PosBehind(S(i)) = NewPlace(i)
  <2>1. Ahead(changes, i + 1) = Ahead(changes, i) \cup {S(i)}
    <3>1. Ahead(changes, i + 1) = Ahead(changes, i) \cup (IF Marked(i) THEN {Spot(i)} ELSE {})
      BY <1>5, AheadNext
    <3> QED BY <1>5, <3>1 DEF Marked, Spot
  <2>2. /\ Shift(changes, i + 1) = Shift(changes, i) + Growth(changes, i)
        /\ Growth(changes, i) \in Int
    BY <1>5, Shifts
  <2>3. {p \in DOMAIN changes : p <= S(i)} = Ahead(changes, i + 1)
    BY <1>4, <1>5, <2>1
  <2>4. PosBehind(S(i)) = S(i) + Shift(changes, i + 1)
    BY <2>3 DEF PosBehind, Shift
  <2>5. NewPlace(i) = S(i) + Shift(changes, i) + Growth(changes, i)
    BY <1>5 DEF NewPlace
  <2> HIDE DEF NewPlace
  <2> QED BY <1>1, <1>2, <2>2, <2>4, <2>5
<1>6. ASSUME ~(i \in 1..n /\ ExitAt(i)) PROVE PosBehind(S(i)) = Group(i)
  <2>1. {p \in DOMAIN changes : p <= S(i)} = Ahead(changes, i)
    BY <1>4, <1>6
  <2> QED BY <2>1 DEF PosBehind, Shift, Group
<1>7. ~ExitAt(i) => NewPlace(i) = Group(i)
  BY <1>1, <1>2 DEF NewPlace, Group
<1>8. Group(i) \in Int
  BY <1>1, <1>2 DEF Group
<1>9. i \in 1..n => PosBehind(S(i)) = NewPlace(i)
  BY <1>5, <1>6, <1>7
<1>10. i = n + 1 => PosBehind(S(i)) = Group(i)
  BY <1>1, <1>6
<1> QED BY <1>3, <1>8, <1>9, <1>10

LEMMA SwitchPos ==
  ASSUME method \in Methods, NEW n \in 0..Len(code), ChangesOK(changes, n), n + 1 \in Numbers,
         SwitchAt(n + 1)
  PROVE  PosBehind(S(n + 1) + 1) = S(n + 1) + 1 + Shift(changes, n + 1)
<1>1. n \in Nat /\ n + 1 \in 1..n + 1
  BY MethodIs
<1>2. {p \in DOMAIN changes : p <= S(n + 1) + 1} = Ahead(changes, n + 1)
  BY <1>1, AheadIs
<1> QED BY <1>2 DEF PosBehind, Shift

\* An instruction of the new code stands in its group, ahead of the next one.
LEMMA GroupIs ==
  ASSUME method \in Methods, NEW n \in 0..Len(code), ChangesOK(changes, n), ~Merged,
         NEW i \in 1..n
  PROVE  /\ Group(i) <= NewPlace(i) /\ Group(i) \in Int /\ NewPlace(i) \in Int
         /\ NewSize(i) \in Nat \ {0} /\ Group(i + 1) = NewPlace(i) + NewSize(i)
         /\ SwitchAt(i) => /\ NewPlace(i) = Group(i)
                           /\ NewSize(i) = 1 + Padding(Group(i) + 1) + Operands(i)
<1>1. /\ n \in Nat /\ n <= Len(code) /\ i \in Numbers
      /\ S(i) \in Nat /\ S(i + 1) \in Nat
      /\ S(i + 1) = S(i) + Size(code[i], S(i)) /\ S(i) < S(i + 1)
  BY MethodIs, Positions DEF Past, Numbers
<1>2. /\ Shift(changes, i) \in Int /\ Growth(changes, i) \in Int
      /\ Shift(changes, i + 1) = Shift(changes, i) + Growth(changes, i)
  <2>1. i \in 1..n + 1
    BY <1>1
  <2> QED BY <2>1, Shifts
<1>3. Group(i) \in Int /\ Group(i + 1) = S(i + 1) + Shift(changes, i) + Growth(changes, i)
  BY <1>1, <1>2 DEF Group
<1>4. CASE ExitAt(i)
  <2>1. ~SwitchAt(i) /\ ~(code[i].op \in Switches)
    BY <1>4 DEF ExitAt, SwitchAt, Exits, Switches
  <2>2. Growth(changes, i) = method.bytes + KeptBytes(i) /\ Growth(changes, i) >= 0
    <3>1. method.bytes \in Nat /\ KeptBytes(i) \in Nat
      BY MethodIs DEF KeptBytes, LocalBytes
    <3> QED BY <1>4, <3>1 DEF Growth
  <2>3. NewPlace(i) = S(i) + Shift(changes, i) + Growth(changes, i) /\ NewSize(i) = S(i + 1) - S(i) + 0
    BY <1>4, <2>1 DEF NewPlace, NewSize
  <2>4. Group(i) = S(i) + Shift(changes, i)
    BY DEF Group
  <2>5. Group(i) <= NewPlace(i) /\ NewPlace(i) \in Int
    BY <1>1, <1>2, <2>2, <2>3, <2>4
  <2>6. NewSize(i) \in Nat \ {0}
    BY <1>1, <2>3
  <2>7. Group(i + 1) = NewPlace(i) + NewSize(i)
    BY <1>1, <1>2, <1>3, <2>3
  <2> QED BY <1>3, <2>1, <2>5, <2>6, <2>7
<1>5. CASE SwitchAt(i)
  <2>1. ~ExitAt(i)
    BY <1>5 DEF ExitAt, SwitchAt, Exits, Switches
  <2>2. /\ Operands(i) \in Nat /\ Operands(i) >= 8
        /\ Size(code[i], S(i)) = 1 + Padding(S(i) + 1) + Operands(i)
    BY <1>1, <1>5, Sizes
  <2>3. Padding(S(i) + 1) \in Nat /\ Padding(Group(i) + 1) \in Nat
    BY <1>1, <1>3, PaddingType, SMTT(30)
  <2>4. Group(i) + 1 = S(i) + 1 + Shift(changes, i)
    BY <1>1, <1>2 DEF Group
  <2>5. Growth(changes, i) = Padding(Group(i) + 1) - Padding(S(i) + 1)
    BY <1>5, <2>1, <2>4 DEF Growth
  <2>6. NewPlace(i) = S(i) + Shift(changes, i) + 0 /\ NewSize(i) = S(i + 1) - S(i) + Growth(changes, i)
    BY <1>5, <2>1 DEF NewPlace, NewSize
  <2>7. NewPlace(i) = Group(i)
    BY <1>1, <1>2, <2>6 DEF Group
  <2>8. NewSize(i) = 1 + Padding(Group(i) + 1) + Operands(i)
    BY <1>1, <2>2, <2>3, <2>5, <2>6, SMTT(30)
  <2>9. Group(i + 1) = NewPlace(i) + NewSize(i)
    BY <1>1, <1>2, <1>3, <2>6
  <2> QED BY <1>3, <2>2, <2>3, <2>7, <2>8, <2>9, SMTT(30)
<1>6. CASE ~ExitAt(i) /\ ~SwitchAt(i)
  <2>1. Growth(changes, i) = 0 /\ NewPlace(i) = S(i) + Shift(changes, i) + 0
        /\ NewSize(i) = S(i + 1) - S(i) + 0
    BY <1>6 DEF Growth, NewPlace, NewSize
  <2> QED BY <1>1, <1>2, <1>3, <1>6, <2>1, SMTT(30) DEF Group
<1> QED BY <1>4, <1>5, <1>6

\* Groups are in the order of the instructions, the first one behind the call
\* at the entry.
LEMMA GroupsGrow ==
  ASSUME method \in Methods, NEW n \in 0..Len(code), ChangesOK(changes, n), ~Merged,
         NEW i \in 1..n + 1
  PROVE  /\ Group(1) = EntryBytes /\ EntryBytes \in Nat /\ Group(i) \in Nat
         /\ Group(i) >= EntryBytes
         /\ \A j \in 1..n + 1 : i < j => Group(i) < Group(j)
<1>1. n \in Nat /\ n <= Len(code) /\ Len(code) \in Nat
  BY MethodIs
<1>2. Group(1) = EntryBytes /\ EntryBytes \in Nat
  BY Shifts, Positions DEF Group
<1>3. \A k \in 1..n : Group(k) \in Int /\ Group(k + 1) \in Int /\ Group(k) < Group(k + 1)
  <2> SUFFICES ASSUME NEW k \in 1..n
               PROVE  Group(k) \in Int /\ Group(k + 1) \in Int /\ Group(k) < Group(k + 1)
    OBVIOUS
  <2>1. /\ Group(k) <= NewPlace(k) /\ Group(k) \in Int /\ NewPlace(k) \in Int
        /\ NewSize(k) \in Nat \ {0} /\ Group(k + 1) = NewPlace(k) + NewSize(k)
    BY GroupIs
  <2> QED BY <2>1
<1>4. ASSUME NEW a \in 1..n + 1, NEW b \in 1..n + 1, a < b PROVE Group(a) < Group(b)
  <2> DEFINE G == {k \in Nat : a + 1 + k <= n + 1 => Group(a) < Group(a + 1 + k)}
  <2>1. 0 \in G
    BY <1>1, <1>3, <1>4
  <2>2. ASSUME NEW k \in 0..(b - a - 1) - 1, k \in G PROVE k + 1 \in G
    <3>1. a + 1 + k \in 1..n /\ a + 1 + (k + 1) = (a + 1 + k) + 1 /\ k + 1 \in Nat /\ a \in 1..n
      BY <1>1, <1>4
    <3>2. Group(a) < Group(a + 1 + k)
      BY <1>1, <2>2, <3>1
    <3>3. /\ Group(a + 1 + k) \in Int /\ Group((a + 1 + k) + 1) \in Int /\ Group(a) \in Int
          /\ Group(a + 1 + k) < Group((a + 1 + k) + 1)
      BY <1>3, <3>1
    <3>4. Group(a) < Group(a + 1 + (k + 1))
      BY <3>1, <3>2, <3>3
    <3> QED BY <3>1, <3>4
  <2>3. b - a - 1 \in Nat
    BY <1>1, <1>4
  <2>4. 0..b - a - 1 \subseteq G
    <3> HIDE DEF G
    <3> QED BY <2>1, <2>2, <2>3, CountUp
  <2>5. b - a - 1 \in 0..b - a - 1 /\ a + 1 + (b - a - 1) = b
    BY <1>1, <1>4
  <2> QED BY <2>4, <2>5, SMTT(30)
<1>5. \A j \in 1..n + 1 : i < j => Group(i) < Group(j)
  BY <1>4
<1>6. Group(i) >= EntryBytes /\ Group(i) \in Nat
  <2>1. Group(i) \in Int
    BY CodePos
  <2>2. i # 1 => Group(1) < Group(i)
    BY <1>1, <1>4
  <2> QED BY <1>2, <2>1, <2>2
<1> QED BY <1>2, <1>5, <1>6
-----------------------------------------------------------------------------
(* preOpcode *)

LEMMA KeepsIs ==
  ASSUME method \in Methods, NEW i \in Numbers, NEW p, PreOK(p, i), AtExits
  PROVE  (code[i].op = "vreturn" /\ p \in Results) <=> Keeps(i)
<1> SUFFICES ASSUME code[i].op = "vreturn" PROVE p \in Results <=> Keeps(i)
  BY DEF Keeps
<1>1. PICK j \in 1..i - 1 : /\ p = code[j].op /\ p \in {"plain", "call"}
                            /\ \A k \in j + 1..i - 1 : code[k].op = "convert"
  BY DEF PreOK
<1>2. ASSUME p \in Results PROVE Keeps(i)
  BY <1>1, <1>2 DEF Keeps
<1>3. ASSUME Keeps(i) PROVE p \in Results
  <2>1. PICK h \in 1..i - 1 : /\ code[h].op \in Results
                              /\ \A k \in h + 1..i - 1 : code[k].op = "convert"
    BY <1>3 DEF Keeps
  <2>2. i \in Int
    BY DEF Numbers
  <2>3. CASE h < j
    <3>1. j \in h + 1..i - 1
      BY <2>2, <2>3
    <3> QED BY <1>1, <2>1, <3>1
  <2>4. CASE j < h
    <3>1. h \in j + 1..i - 1
      BY <2>2, <2>4
    <3> QED BY <1>1, <2>1, <3>1 DEF Results
  <2>5. CASE h = j
    BY <1>1, <2>1, <2>5
  <2> QED BY <2>2, <2>3, <2>4, <2>5
<1> QED BY <1>2, <1>3

\* An operation that leaves a value on the stack, or converts one.
LEMMA PreStep ==
  ASSUME method \in Methods, NEW i \in Numbers, NEW p, PreOK(p, i),
         NEW q, q = IF AtExits /\ code[i].op # "convert" THEN code[i].op ELSE p
  PROVE  PreOK(q, i + 1)
<1> SUFFICES ASSUME AtExits, i + 1 \in Numbers, code[i + 1].op \in {"vreturn", "convert"}
             PROVE  \E j \in 1..i : /\ q = code[j].op /\ q \in {"plain", "call"}
                                    /\ \A k \in j + 1..i : code[k].op = "convert"
  <2>1. (i + 1) - 1 = i
    BY DEF Numbers
  <2> QED BY <2>1 DEF PreOK
<1>1. code[i].op \in {"plain", "call", "convert"}
  <2>1. i + 1 \in DOMAIN code \ {1} /\ (i + 1) - 1 = i
    BY MethodIs DEF Numbers
  <2> QED BY <2>1, MethodIs DEF Compiled
<1>2. CASE code[i].op # "convert"
  <2>1. i \in 1..i /\ i + 1..i = {}
    BY DEF Numbers
  <2> QED BY <1>1, <1>2, <2>1
<1>3. CASE code[i].op = "convert"
  <2>1. PICK j \in 1..i - 1 : /\ p = code[j].op /\ p \in {"plain", "call"}
                              /\ \A k \in j + 1..i - 1 : code[k].op = "convert"
    BY <1>3 DEF PreOK
  <2>2. j \in 1..i /\ \A k \in j + 1..i : k = i \/ k \in j + 1..i - 1
    BY DEF Numbers
  <2> QED BY <1>3, <2>1, <2>2
<1> QED BY <1>2, <1>3

\* Behind any other operation nothing is returned or converted.
LEMMA PreSkip ==
  ASSUME method \in Methods, NEW i \in Numbers, NEW p,
         code[i].op \in Exits \cup Switches \cup Branches
  PROVE  PreOK(p, i + 1)
<1> SUFFICES ASSUME i + 1 \in Numbers, code[i + 1].op \in {"vreturn", "convert"} PROVE FALSE
  BY DEF PreOK
<1>1. i + 1 \in DOMAIN code \ {1} /\ (i + 1) - 1 = i
  BY MethodIs DEF Numbers
<1>2. code[i].op \in {"plain", "call", "convert"}
  BY <1>1, MethodIs DEF Compiled
<1> QED BY <1>2 DEF Exits, Switches, Branches

LEMMA PreFirst ==
  ASSUME method \in Methods, NEW p
  PROVE  PreOK(p, 1)
BY MethodIs DEF PreOK, Compiled

-----------------------------------------------------------------------------
(* The new code *)

\* The items s, written behind o, are instruction i and what is inserted for it.
NextItems(o, s, i) ==
  LET x == s[Len(s)]
  IN  /\ Len(s) # 0
      /\ x.op = code[i].op /\ x.of = i /\ x.at = NewPlace(i) /\ x.size = NewSize(i)
      /\ DOMAIN x.to \subseteq DOMAIN code[i].to
      /\ \A b \in DOMAIN x.to : x.to[b] = Target(code[i].to[b]) - NewPlace(i)
      /\ \A k \in 1..Len(s) - 1 : s[k].of = 0 /\ s[k].op \in {"callback", "keep"} /\ s[k].to = <<>>
      /\ \A k \in 1..Len(s) - 1 : s[k].at >= EndOf(o)
      /\ ExitAt(i) => Len(s) > 1 /\ s[1].at = EndOf(o) /\ s[Len(s) - 1].op = "callback"

LEMMA Joined ==
  ASSUME NEW T, NEW o \in Seq(T), NEW s \in Seq(T)
  PROVE  /\ o \o s \in Seq(T) /\ Len(o \o s) = Len(o) + Len(s)
         /\ \A k \in 1..Len(o) : (o \o s)[k] = o[k]
         /\ \A k \in 1..Len(s) : (o \o s)[Len(o) + k] = s[k]
         /\ \A k \in 1..Len(o) + Len(s) : k \notin 1..Len(o) =>
              k - Len(o) \in 1..Len(s) /\ (o \o s)[k] = s[k - Len(o)]
OBVIOUS

\* What was right about an item remains so if more is written behind it.
LEMMA ItemStays ==
  ASSUME NEW o, NEW q, NEW k \in Nat, \A l \in 1..k : q[l] = o[l], NEW i, ItemOK(o, k, i), k > 0
  PROVE  ItemOK(q, k, i)
<1>1. q[k] = o[k]
  OBVIOUS
<1>2. PICK first \in 1..k : LeadsTo(o, first, k, i)
  BY DEF ItemOK
<1>3. LeadsTo(q, first, k, i)
  <2>1. q[first] = o[first] /\ \A l \in first..k - 1 : q[l] = o[l]
    OBVIOUS
  <2>2. first < k => q[k - 1] = o[k - 1]
    OBVIOUS
  <2> QED BY <1>2, <2>1, <2>2 DEF LeadsTo
<1>4. Apart(q, k, i)
  <2> SUFFICES ASSUME NEW l \in 1..k, \A h \in l..k - 1 : q[h].of = 0
               PROVE  i = 1 \/ q[l].at >= Group(i)
    BY DEF Apart
  <2>1. \A h \in l..k - 1 : o[h].of = 0
    OBVIOUS
  <2>2. q[l] = o[l]
    OBVIOUS
  <2> QED BY <2>1, <2>2 DEF ItemOK, Apart
<1> QED BY <1>1, <1>3, <1>4 DEF ItemOK

LEMMA OutGrows ==
  ASSUME method \in Methods, NEW n \in Nat, NEW T, NEW o \in Seq(T), OutOK(o, n),
         NEW s \in Seq(T), NextItems(o, s, n + 1),
         ItemOK(o \o s, Len(o) + Len(s), n + 1)
  PROVE  OutOK(o \o s, n + 1)
<1> DEFINE q == o \o s
           e == Len(o)
           z == Len(s)
<1>1. /\ e \in Nat /\ z \in Nat \ {0} /\ Len(q) = e + z
      /\ \A k \in 1..e : q[k] = o[k]
      /\ \A k \in 1..e + z : k \notin 1..e => k - e \in 1..z /\ q[k] = s[k - e]
  BY Joined DEF NextItems
<1>2. q[e + z].of = n + 1
  <2>1. e + z \in 1..e + z /\ e + z \notin 1..e /\ (e + z) - e = z
    BY <1>1
  <2> QED BY <1>1, <2>1 DEF NextItems
<1>3. ASSUME NEW k \in 1..e + z, k \notin 1..e, k # e + z
      PROVE  q[k].of = 0 /\ q[k].op \in {"callback", "keep"} /\ q[k].to = <<>>
  <2>1. k - e \in 1..z - 1 /\ q[k] = s[k - e]
    <3>1. k - e \in 1..z /\ q[k] = s[k - e]
      BY <1>1, <1>3
    <3> HIDE DEF q, e, z
    <3> QED BY <1>1, <1>3, <3>1
  <2>2. \A l \in 1..z - 1 : s[l].of = 0 /\ s[l].op \in {"callback", "keep"} /\ s[l].to = <<>>
    BY DEF NextItems
  <2> QED BY <2>1, <2>2
<1>4. \A k \in 1..e : q[k].of \in 0..n
  BY <1>1 DEF OutOK
<1>5. \A k \in 1..Len(q) : q[k].of \in 0..n + 1
  <2> SUFFICES ASSUME NEW k \in 1..e + z PROVE q[k].of \in 0..n + 1
    BY <1>1
  <2>1. CASE k \in 1..e
    <3>1. q[k].of \in 0..n
      BY <1>4, <2>1
    <3> QED BY <3>1
  <2>2. CASE k = e + z
    BY <1>2, <2>2
  <2>3. CASE k \notin 1..e /\ k # e + z
    <3>1. q[k].of = 0
      BY <1>3, <2>3
    <3> QED BY <3>1
  <2> QED BY <2>1, <2>2, <2>3
<1>6. \A i \in 1..n + 1 : \E k \in 1..Len(q) : q[k].of = i
  <2> SUFFICES ASSUME NEW i \in 1..n + 1 PROVE \E k \in 1..e + z : q[k].of = i
    BY <1>1
  <2>1. CASE i = n + 1
    <3>1. e + z \in 1..e + z
      BY <1>1
    <3> QED BY <1>2, <2>1, <3>1
  <2>2. CASE i # n + 1
    <3>1. PICK k \in 1..e : o[k].of = i
      BY <2>2 DEF OutOK
    <3>2. k \in 1..e + z /\ q[k].of = i
      BY <1>1, <3>1
    <3> QED BY <3>2
  <2> QED BY <2>1, <2>2
<1>7. \A k, l \in 1..Len(q) : q[k].of = q[l].of /\ q[k].of # 0 => k = l
  <2> SUFFICES ASSUME NEW k \in 1..e + z, NEW l \in 1..e + z, q[k].of = q[l].of, q[k].of # 0
               PROVE  k = l
    BY <1>1
  <2>1. CASE k \in 1..e /\ l \in 1..e
    BY <1>1, <2>1 DEF OutOK
  <2>2. CASE k \notin 1..e
    BY <1>2, <1>3, <1>4, <2>2, SMTT(30)
  <2>3. CASE l \notin 1..e
    BY <1>2, <1>3, <1>4, <2>3
  <2> QED BY <2>1, <2>2, <2>3
<1>8. ASSUME NEW k \in 1..Len(q)
      PROVE  IF q[k].of = 0 THEN q[k].op \in {"callback", "keep"} /\ q[k].to = <<>>
             ELSE ItemOK(q, k, q[k].of)
  <2>1. CASE k \in 1..e
    <3>1. q[k] = o[k] /\ \A l \in 1..k : q[l] = o[l]
      BY <1>1, <2>1
    <3>2. IF o[k].of = 0 THEN o[k].op \in {"callback", "keep"} /\ o[k].to = <<>>
          ELSE ItemOK(o, k, o[k].of)
      BY <2>1 DEF OutOK
    <3>3. o[k].of # 0 => ItemOK(q, k, o[k].of)
      <4>1. k \in Nat /\ k > 0
        BY <1>1
      <4> HIDE DEF q
      <4> QED BY <3>1, <3>2, <4>1, ItemStays
    <3> QED BY <3>1, <3>2, <3>3
  <2>2. CASE k = e + z
    BY <1>2, <2>2
  <2>3. CASE k \notin 1..e /\ k # e + z
    BY <1>1, <1>3, <2>3
  <2> QED BY <2>1, <2>2, <2>3
<1>9. Entry # {} => Len(q) # 0 /\ q[1].at = 0
  <2>1. Entry # {} => e # 0 /\ o[1].at = 0
    BY DEF OutOK
  <2>2. e # 0 => Len(q) # 0 /\ q[1] = o[1]
    BY <1>1
  <2> QED BY <2>1, <2>2
<1> HIDE DEF q
<1>10. Len(q) # 0 /\ q[Len(q)].of = n + 1
  BY <1>1, <1>2
<1>11. OutOK(q, n + 1)
  BY <1>5, <1>6, <1>7, <1>8, <1>9, <1>10 DEF OutOK
<1> QED BY <1>11 DEF q

\* The next instruction stands where it should, and branches to it find it.
LEMMA NextItemOK ==
  ASSUME method \in Methods, ChangesOK(changes, Len(code)), ~Merged,
         NEW n \in 0..Len(code), n + 1 \in Numbers,
         NEW T, NEW o \in Seq(T), OutOK(o, n), EndOf(o) = Group(n + 1),
         NEW s \in Seq(T), NextItems(o, s, n + 1)
  PROVE  /\ ItemOK(o \o s, Len(o) + Len(s), n + 1)
         /\ EndOf(o \o s) = Group(n + 2)
<1> DEFINE q == o \o s
           e == Len(o)
           z == Len(s)
           i == n + 1
<1>1. /\ e \in Nat /\ z \in Nat \ {0} /\ Len(q) = e + z /\ q[e + z] = s[z]
      /\ \A k \in 1..e : q[k] = o[k]
      /\ \A k \in 1..z : q[e + k] = s[k]
  BY Joined DEF NextItems
<1>2. /\ n \in Nat /\ Len(code) \in Nat /\ i \in 1..Len(code) /\ i \in 1..Len(code) + 1
      /\ S(i) \in Nat /\ DOMAIN changes \subseteq Nat /\ Len(code) \in 0..Len(code)
  <2>1. /\ n \in Nat /\ Len(code) \in Nat /\ i \in 1..Len(code) /\ i \in 1..Len(code) + 1
        /\ Len(code) \in 0..Len(code)
    BY MethodIs DEF Numbers
  <2>2. S(i) \in Nat /\ S(Past) \in Nat
    BY <2>1, Positions DEF Past
  <2>3. DOMAIN changes \subseteq 0..S(Past)
    BY <2>1, MapInCode
  <2> QED BY <2>1, <2>2, <2>3
<1>3. /\ PosAhead(S(i)) = IF i = 1 THEN 0 ELSE Group(i)
      /\ PosBehind(S(i)) = NewPlace(i)
  BY <1>2, CodePos
<1>4. Target(i) = IF AtExits THEN PosAhead(S(i)) ELSE PosBehind(S(i))
  BY <1>2, PosAtExits DEF Target
<1>5. Group(1) = EntryBytes
  BY <1>2, GroupsGrow
<1>6. \E first \in 1..e + z : LeadsTo(q, first, e + z, i)
  <2>1. CASE ExitAt(i)
    <3>1. AtExits
      BY <2>1 DEF ExitAt
    <3>2. Target(i) = Group(i)
      <4>1. i = 1 => Entry = {}
        BY <2>1 DEF Merged
      <4>2. i = 1 => Group(1) = 0
        BY <1>5, <4>1 DEF EntryBytes
      <4> QED BY <1>3, <1>4, <3>1, <4>2
    <3>3. q[e + 1] = s[1] /\ e + 1 < e + z /\ s[1].at = Group(i)
      BY <1>1, <2>1 DEF NextItems
    <3>4. q[(e + z) - 1] = s[z - 1] /\ s[z - 1].op = "callback"
      BY <1>1, <2>1 DEF NextItems
    <3>5. \A l \in e + 1..(e + z) - 1 : q[l].of = 0
      <4> SUFFICES ASSUME NEW l \in e + 1..(e + z) - 1 PROVE q[l].of = 0
        OBVIOUS
      <4>1. l - e \in 1..z - 1 /\ e + (l - e) = l
        BY <1>1
      <4>2. q[e + (l - e)] = s[l - e] /\ s[l - e].of = 0
        BY <1>1, <4>1 DEF NextItems
      <4> QED BY <4>1, <4>2
    <3>6. LeadsTo(q, e + 1, e + z, i)
      BY <3>2, <3>3, <3>4, <3>5 DEF LeadsTo
    <3>7. e + 1 \in 1..e + z
      BY <1>1
    <3> HIDE DEF q
    <3> QED BY <3>6, <3>7
  <2>2. CASE ~ExitAt(i)
    <3>1. q[e + z].at = NewPlace(i) /\ NewPlace(i) = Group(i)
      <4>1. NewPlace(i) = S(i) + Shift(changes, i) + 0
        BY <2>2 DEF NewPlace
      <4>2. Shift(changes, i) \in Int
        BY <1>2, Shifts
      <4>3. NewPlace(i) = Group(i)
        BY <1>2, <4>1, <4>2 DEF Group
      <4> QED BY <1>1, <4>3 DEF NextItems
    <3>2. CASE Target(i) = Group(i)
      <4>1. LeadsTo(q, e + z, e + z, i)
        <5>1. e + z..(e + z) - 1 = {}
          BY <1>1
        <5> QED BY <2>2, <3>1, <3>2, <5>1 DEF LeadsTo
      <4>2. e + z \in 1..e + z
        BY <1>1
      <4> HIDE DEF q
      <4> QED BY <4>1, <4>2
    <3>3. CASE Target(i) # Group(i)
      <4>1. AtExits /\ i = 1 /\ Target(i) = 0
        BY <1>3, <1>4, <3>1, <3>3
      <4>2. Entry # {}
        BY <1>5, <3>3, <4>1 DEF EntryBytes
      <4>3. e # 0 /\ q[1].at = 0
        BY <1>1, <4>2 DEF OutOK
      <4>4. \A l \in 1..(e + z) - 1 : q[l].of = 0
        <5> SUFFICES ASSUME NEW l \in 1..(e + z) - 1 PROVE q[l].of = 0
          OBVIOUS
        <5>1. CASE l \in 1..e
          <6>1. n = 0
            BY <1>2, <4>1
          <6>2. o[l].of \in 0..n
            BY <5>1 DEF OutOK
          <6>3. q[l] = o[l]
            BY <1>1, <5>1
          <6> QED BY <6>1, <6>2, <6>3
        <5>2. CASE l \notin 1..e
          <6>1. l - e \in 1..z - 1 /\ e + (l - e) = l
            BY <1>1, <5>2
          <6>2. q[e + (l - e)] = s[l - e] /\ s[l - e].of = 0
            BY <1>1, <6>1 DEF NextItems
          <6> QED BY <6>1, <6>2
        <5> QED BY <5>1, <5>2
      <4>5. LeadsTo(q, 1, e + z, i)
        BY <2>2, <4>1, <4>3, <4>4 DEF LeadsTo
      <4>6. 1 \in 1..e + z
        BY <1>1
      <4> HIDE DEF q
      <4> QED BY <4>5, <4>6
    <3> QED BY <3>2, <3>3
  <2> QED BY <2>1, <2>2
<1>7. Apart(q, e + z, i)
  <2> SUFFICES ASSUME NEW l \in 1..e + z, \A h \in l..(e + z) - 1 : q[h].of = 0, i # 1
               PROVE  q[l].at >= Group(i)
    BY DEF Apart
  <2>1. e # 0 /\ o[e].of = n /\ n # 0
    BY <1>2 DEF OutOK
  <2>2. l \notin 1..e
    <3> SUFFICES ASSUME l \in 1..e PROVE FALSE
      OBVIOUS
    <3>1. e \in l..(e + z) - 1 /\ e \in 1..e
      BY <1>1, <2>1
    <3>2. q[e].of = 0 /\ q[e] = o[e]
      BY <1>1, <3>1
    <3> QED BY <2>1, <3>2
  <2>3. l - e \in 1..z /\ e + (l - e) = l
    BY <1>1, <2>2
  <2>4. q[l] = s[l - e]
    BY <1>1, <2>3
  <2>5. CASE l - e = z
    <3>1. s[z].at = NewPlace(i)
      BY DEF NextItems
    <3>2. Group(i) <= NewPlace(i) /\ Group(i) \in Int /\ NewPlace(i) \in Int
      BY <1>2, GroupIs
    <3> QED BY <2>4, <2>5, <3>1, <3>2
  <2>6. CASE l - e # z
    <3>1. l - e \in 1..z - 1
      BY <1>1, <2>3, <2>6
    <3> QED BY <2>4, <3>1 DEF NextItems
  <2> QED BY <2>5, <2>6
<1>8. ItemOK(q, e + z, i)
  <2>1. /\ s[z].op = code[i].op /\ s[z].at = NewPlace(i) /\ s[z].size = NewSize(i)
        /\ DOMAIN s[z].to \subseteq DOMAIN code[i].to
        /\ \A b \in DOMAIN s[z].to : s[z].to[b] = Target(code[i].to[b]) - NewPlace(i)
    BY DEF NextItems
  <2> HIDE DEF q
  <2> QED BY <1>1, <1>6, <1>7, <2>1 DEF ItemOK
<1>9. EndOf(q) = Group(n + 2)
  <2>1. q # <<>>
    BY <1>1
  <2>2. EndOf(q) = q[e + z].at + q[e + z].size
    <3>1. Last(q) = q[e + z]
      BY <1>1 DEF Last
    <3> QED BY <2>1, <3>1 DEF EndOf
  <2>3. q[e + z].at = NewPlace(i) /\ q[e + z].size = NewSize(i)
    BY <1>1 DEF NextItems
  <2>4. Group(i + 1) = NewPlace(i) + NewSize(i) /\ i + 1 = n + 2
    BY <1>2, GroupIs
  <2> QED BY <2>2, <2>3, <2>4
<1> QED BY <1>8, <1>9

-----------------------------------------------------------------------------
(* Steps *)

\* What is said about the method does not change with the rest of the state.
LEMMA SameMethod ==
  ASSUME method' = method
  PROVE  /\ code' = code /\ Numbers' = Numbers /\ (AtExits' <=> AtExits) /\ (Merged' <=> Merged)
         /\ EntryOut' = EntryOut /\ EntryBytes' = EntryBytes
         /\ \A i : S(i)' = S(i)
         /\ \A n : Kept(n)' <=> Kept(n)
         /\ \A f, n : ChangesOK(f, n)' <=> ChangesOK(f, n)
         /\ \A p, i : PreOK(p, i)' <=> PreOK(p, i)
<1>1. code' = code /\ Numbers' = Numbers /\ (AtExits' <=> AtExits) /\ Entry' = Entry
  BY DEF code, Numbers, AtExits, Entry
<1>2. \A i : S(i)' = S(i)
  BY DEF S
<1>3. \A i : (ExitAt(i)' <=> ExitAt(i)) /\ (SwitchAt(i)' <=> SwitchAt(i))
  BY <1>1 DEF ExitAt, SwitchAt
<1>4. \A i : Marked(i)' <=> Marked(i)
  BY <1>3 DEF Marked
<1>5. \A i : Spot(i)' = Spot(i)
  BY <1>2, <1>3 DEF Spot
<1>6. Merged' <=> Merged
  BY <1>1, <1>3 DEF Merged
<1>7. EntryBytes' = EntryBytes /\ EntryOut' = EntryOut
  BY <1>1 DEF EntryBytes, EntryOut, Callback
<1>8. \A i : Keeps(i)' <=> Keeps(i)
  BY <1>1 DEF Keeps
<1>9. \A n : Kept(n)' <=> Kept(n)
  BY <1>1, <1>8 DEF Kept
<1>10. \A f, i : Shift(f, i)' = Shift(f, i)
  <2> SUFFICES ASSUME NEW f, NEW i PROVE Shift(f, i)' = Shift(f, i)
    OBVIOUS
  <2>1. Ahead(f, i)' = Ahead(f, i)
    BY <1>1, <1>2 DEF Ahead
  <2> QED BY <2>1 DEF Shift
<1>11. \A f, i : Growth(f, i)' = Growth(f, i)
  BY <1>2, <1>3, <1>8, <1>10 DEF Growth, KeptBytes
<1>12. \A f, n : ChangesOK(f, n)' <=> ChangesOK(f, n)
  <2> SUFFICES ASSUME NEW f, NEW n PROVE ChangesOK(f, n)' <=> ChangesOK(f, n)
    OBVIOUS
  <2>1. {Spot(i) : i \in {j \in 1..n : Marked(j)}}' = {Spot(i) : i \in {j \in 1..n : Marked(j)}}
    BY <1>4, <1>5
  <2> QED BY <1>1, <1>4, <1>5, <1>6, <1>11, <2>1 DEF ChangesOK
<1>13. \A p, i : PreOK(p, i)' <=> PreOK(p, i)
  BY <1>1 DEF PreOK
<1> QED BY <1>1, <1>2, <1>6, <1>7, <1>9, <1>12, <1>13

LEMMA SameMap ==
  ASSUME method' = method, changes' = changes
  PROVE  \A o, max, n : CopyOK(o, max, n)' <=> CopyOK(o, max, n)
<1>1. /\ code' = code /\ (AtExits' <=> AtExits) /\ (Merged' <=> Merged) /\ Entry' = Entry
      /\ \A i : S(i)' = S(i)
  BY SameMethod DEF Entry
<1>2. \A n : Kept(n)' <=> Kept(n)
  BY SameMethod
<1>3. \A i : (ExitAt(i)' <=> ExitAt(i)) /\ (SwitchAt(i)' <=> SwitchAt(i))
  BY <1>1 DEF ExitAt, SwitchAt
<1>4. \A i : Shift(changes, i)' = Shift(changes, i)
  BY <1>1 DEF Shift, Ahead
<1>5. \A i : Growth(changes, i)' = Growth(changes, i)
  BY <1>1, <1>3, <1>4 DEF Growth, KeptBytes, Keeps
<1>6. \A i : NewPlace(i)' = NewPlace(i) /\ NewSize(i)' = NewSize(i)
  BY <1>1, <1>3, <1>4, <1>5 DEF NewPlace, NewSize
<1>7. \A i : Target(i)' = Target(i)
  BY <1>1 DEF Target, getCodePosAfterInsertCallbacks
<1>8. \A o, first, k, i : LeadsTo(o, first, k, i)' <=> LeadsTo(o, first, k, i)
  BY <1>3, <1>7 DEF LeadsTo
<1>9. \A o, k, i : ItemOK(o, k, i)' <=> ItemOK(o, k, i)
  <2>1. \A i : Group(i)' = Group(i)
    BY <1>1, <1>4 DEF Group
  <2>2. \A o, k, i : Apart(o, k, i)' <=> Apart(o, k, i)
    BY <2>1 DEF Apart
  <2> QED BY <1>1, <1>6, <1>7, <1>8, <2>2 DEF ItemOK
<1>10. \A o, n : OutOK(o, n)' <=> OutOK(o, n)
  BY <1>1, <1>9 DEF OutOK
<1>11. \A o, n : MergedOK(o, n)' <=> MergedOK(o, n)
  BY DEF MergedOK
<1>12. Slots' = Slots
  BY DEF Slots
<1> QED BY <1>1, <1>2, <1>4, <1>10, <1>11, <1>12 DEF CopyOK

LEMMA Facts ==
  ASSUME IInv
  PROVE  /\ method \in Methods /\ Len(code) \in Nat \ {0} /\ Len(code) \in 0..Len(code)
         /\ End = S(Past) /\ S(Past) \in Nat
         /\ next \in 1..Len(code) + 1 /\ nPos = S(next) /\ nPos \in Nat
         /\ More <=> next \in Numbers
         /\ More => Op = code[next].op /\ next - 1 \in 0..Len(code) /\ (next - 1) + 1 = next
<1>1. method \in Methods /\ next \in 1..Len(code) + 1
  BY DEF IInv, Typed, TypeOK, code
<1>2. Len(code) \in Nat \ {0} /\ Len(code) \in 0..Len(code)
  BY <1>1, MethodIs
<1>3. S(Past) \in Nat /\ S(next) \in Nat
  BY <1>1, <1>2, Positions DEF Past
<1>4. End = S(Past) /\ nPos = S(next)
  BY DEF End, nPos, S, Past, code
<1>5. More <=> next \in Numbers
  BY <1>1, <1>2 DEF More, Numbers, code
<1>6. More => Op = code[next].op /\ next - 1 \in 0..Len(code) /\ (next - 1) + 1 = next
  BY <1>1, <1>2, <1>5 DEF Op, code, Numbers
<1> QED BY <1>1, <1>2, <1>3, <1>4, <1>5, <1>6

\* A step of the first pass.
LEMMA FindStep ==
  ASSUME IInv, phase = "find", More, method' = method, phase' = phase, next' = next + 1,
         newPos' = newPos, locals' = locals, out' = out,
         pre' \in Ops \cup {"none"}, PreOK(pre', next + 1),
         added' \in BOOLEAN, added' <=> Kept(next), ChangesOK(changes', next)
  PROVE  IInv'
<1>1. /\ method \in Methods /\ Len(code) \in Nat \ {0} /\ next \in Numbers
      /\ End = S(Past) /\ next \in 0..Len(code) /\ (next + 1) - 1 = next
      /\ next + 1 \in 1..Len(code) + 1
  BY Facts DEF Numbers
<1>2. /\ code' = code /\ Numbers' = Numbers /\ S(Past)' = S(Past)
      /\ EntryOut' = EntryOut /\ EntryBytes' = EntryBytes
      /\ \A n : Kept(n)' <=> Kept(n)
      /\ \A f, n : ChangesOK(f, n)' <=> ChangesOK(f, n)
      /\ \A p, i : PreOK(p, i)' <=> PreOK(p, i)
  BY SameMethod DEF Past
<1>3. DOMAIN changes' \subseteq 0..End /\ End' = End
  <2>1. DOMAIN changes' \subseteq 0..S(Past)
    BY <1>1, MapInCode
  <2> QED BY <1>1, <2>1 DEF End
<1>4. Typed'
  <2>1. Typed /\ TypeOK /\ Len(method.code) = Len(code)
    BY DEF IInv, Typed, code
  <2>2. TypeOK'
    BY <1>1, <1>3, <2>1 DEF TypeOK
  <2>3. (\E T : out \in Seq(T))'
    BY <2>1 DEF Typed
  <2> QED BY <1>1, <2>2, <2>3 DEF Typed
<1>5. NotYet'
  BY <1>2 DEF IInv, NotYet
<1>6. ChangesOK(changes, next - 1)'
  BY <1>1, <1>2
<1>7. PreOK(pre, next)'
  BY <1>2
<1>8. (added <=> Kept(next - 1))'
  BY <1>1, <1>2
<1> QED BY <1>4, <1>5, <1>6, <1>7, <1>8 DEF IInv

\* A step of the second pass.
LEMMA CopyStep ==
  ASSUME IInv, phase = "copy", More, method' = method, phase' = phase, next' = next + 1,
         changes' = changes, added' = added,
         pre' \in Ops \cup {"none"}, PreOK(pre', next + 1),
         locals' \in Nat, newPos' \in Nat, newPos' = EndOf(out'),
         NEW T, out' \in Seq(T), CopyOK(out', locals', next),
         \A k \in DOMAIN out' : /\ out'[k].of \in 0..Len(code)
                                /\ out'[k].op \in Ops \cup {"callback", "keep"}
  PROVE  IInv'
<1>1. /\ method \in Methods /\ Len(code) \in Nat \ {0} /\ next \in Numbers
      /\ (next + 1) - 1 = next /\ next + 1 \in 1..Len(code) + 1
  <2>1. method \in Methods /\ Len(code) \in Nat \ {0} /\ next \in Numbers
    BY Facts
  <2> QED BY <2>1 DEF Numbers
<1>2. /\ code' = code
      /\ \A n : Kept(n)' <=> Kept(n)
      /\ \A f, n : ChangesOK(f, n)' <=> ChangesOK(f, n)
      /\ \A p, i : PreOK(p, i)' <=> PreOK(p, i)
      /\ \A o, max, n : CopyOK(o, max, n)' <=> CopyOK(o, max, n)
  BY SameMethod, SameMap
<1>3. Typed'
  <2>1. Typed /\ TypeOK /\ Len(method.code) = Len(code) /\ method.code = code
    BY DEF IInv, Typed, code
  <2>2. TypeOK'
    BY <1>1, <2>1 DEF TypeOK, End
  <2> QED BY <1>1, <2>2 DEF Typed
<1>4. (ChangesOK(changes, Len(code)) /\ (added <=> Kept(Len(code))))'
  BY <1>2 DEF IInv
<1>5. CopyOK(out, locals, next - 1)'
  BY <1>1, <1>2
<1>6. (newPos = Written)'
  BY DEF Written, EndOf
<1>7. PreOK(pre, next)'
  BY <1>2
<1>8. Found'
  BY DEF IInv, Found, Has, AtExits
<1> QED BY <1>3, <1>4, <1>5, <1>6, <1>7, <1>8 DEF IInv

LEMMA EntryOutIs ==
  /\ EntryOut \in Seq({Callback(0)}) /\ DOMAIN EntryOut = 1..Len(EntryOut)
  /\ Len(EntryOut) = IF Entry = {} THEN 0 ELSE 1
  /\ \A k \in DOMAIN EntryOut : /\ EntryOut[k].of = 0 /\ EntryOut[k].op = "callback"
                                /\ EntryOut[k].at = 0 /\ EntryOut[k].size = method.bytes
                                /\ EntryOut[k].to = <<>>
<1>1. /\ Callback(0).op = "callback" /\ Callback(0).of = 0 /\ Callback(0).at = 0
      /\ Callback(0).size = method.bytes /\ Callback(0).to = <<>>
  BY DEF Callback, Item
<1>2. CASE Entry = {}
  BY <1>2 DEF EntryOut
<1>3. CASE Entry # {}
  <2>1. EntryOut = <<Callback(0)>>
    BY <1>3 DEF EntryOut
  <2>2. Len(EntryOut) = 1 /\ EntryOut[1] = Callback(0) /\ EntryOut \in Seq({Callback(0)})
    BY <2>1
  <2>3. DOMAIN EntryOut = 1..1
    BY <2>1
  <2>4. \A k \in DOMAIN EntryOut : EntryOut[k] = Callback(0)
    BY <2>2, <2>3
  <2> QED BY <1>1, <1>3, <2>2, <2>3, <2>4
<1> QED BY <1>2, <1>3

LEMMA EntryEnds == ASSUME method \in Methods PROVE EndOf(EntryOut) = EntryBytes /\ EntryBytes \in Nat
<1>1. CASE Entry = {}
  BY <1>1 DEF EntryOut, EndOf, EntryBytes
<1>2. CASE Entry # {}
  <2>1. EntryOut # <<>> /\ Last(EntryOut) = EntryOut[1] /\ 1 \in DOMAIN EntryOut
    BY <1>2, EntryOutIs DEF Last
  <2>2. EntryOut[1].at = 0 /\ EntryOut[1].size = method.bytes /\ method.bytes \in Nat
    BY <2>1, EntryOutIs, MethodIs
  <2> QED BY <1>2, <2>1, <2>2 DEF EndOf, EntryBytes
<1> QED BY <1>1, <1>2

LEMMA EnterStep == IInv /\ Enter => IInv'
<1> SUFFICES ASSUME IInv, Enter PROVE IInv'
  OBVIOUS
<1>1. /\ method' = method /\ next' = next /\ pre' = pre /\ added' = added /\ locals' = locals
      /\ phase = "enter" /\ phase' = "find"
  BY DEF Enter
<1>2. /\ next = 1 /\ newPos = 0 /\ pre = "none" /\ changes = <<>> /\ ~added /\ added \in BOOLEAN
      /\ locals = method.locals /\ out = <<>> /\ TypeOK
  BY <1>1 DEF IInv, Typed, TypeOK
<1>3. /\ method \in Methods /\ Len(code) \in Nat \ {0} /\ End = S(Past)
      /\ method.bytes \in {5, 6} /\ 0 \in 0..Len(code) /\ 1 - 1 = 0
  BY Facts, MethodIs
<1>4. /\ code' = code /\ S(Past)' = S(Past)
      /\ EntryOut' = EntryOut /\ EntryBytes' = EntryBytes
      /\ \A n : Kept(n)' <=> Kept(n)
      /\ \A f, n : ChangesOK(f, n)' <=> ChangesOK(f, n)
      /\ \A p, i : PreOK(p, i)' <=> PreOK(p, i)
  BY <1>1, SameMethod DEF Past
<1>5. /\ changes' = IF Entry = {} THEN <<>> ELSE [p \in {0} |-> method.bytes]
      /\ newPos' = EntryBytes /\ out' = EntryOut
  <2>1. Entry # {} <=> method.hooked /\ method.where # 2
    BY DEF Entry
  <2>2. Insert(0, method.bytes) = [p \in {0} |-> method.bytes]
    <3>1. DOMAIN changes = {}
      BY <1>2
    <3>2. DOMAIN changes \cup {0} = {0} /\ 0 \notin DOMAIN changes
      BY <3>1
    <3> QED BY <3>2 DEF Insert
  <2> QED BY <1>2, <2>1, <2>2 DEF Enter, EntryBytes, EntryOut
<1>6. ChangesOK(changes', 0)
  <2>1. DOMAIN changes' = Entry
    BY <1>5 DEF Entry
  <2>2. {Spot(i) : i \in {j \in 1..0 : Marked(j)}} = {}
    OBVIOUS
  <2>3. DOMAIN changes' = {} => changes' = <<>>
    BY <1>5, <2>1
  <2>4. Entry # {} => changes'[0] = method.bytes
    BY <1>5
  <2> QED BY <2>1, <2>2, <2>3, <2>4 DEF ChangesOK
<1>7. DOMAIN changes' \subseteq 0..End /\ End' = End
  <2>1. DOMAIN changes' \subseteq 0..S(Past)
    BY <1>3, <1>6, MapInCode
  <2> QED BY <1>1, <1>3, <2>1 DEF End
<1>8. Typed'
  <2>1. newPos' \in Nat
    BY <1>3, <1>5 DEF EntryBytes
  <2>2. /\ out' \in Seq({Callback(0)})
        /\ \A k \in DOMAIN out' : out'[k].of \in 0..Len(code) /\ out'[k].op \in {"callback"}
    BY <1>3, <1>5, EntryOutIs
  <2>3. Len(method.code) = Len(code)
    BY DEF code
  <2>4. TypeOK'
    BY <1>1, <1>2, <1>7, <2>1, <2>2, <2>3 DEF TypeOK
  <2> QED BY <1>1, <1>3, <2>2, <2>4 DEF Typed
<1>9. NotYet'
  BY <1>1, <1>2, <1>4, <1>5 DEF NotYet
<1>10. ChangesOK(changes, next - 1)'
  BY <1>1, <1>2, <1>3, <1>4, <1>6
<1>11. PreOK(pre, next)'
  BY <1>1, <1>2, <1>3, <1>4, PreFirst
<1>12. (added <=> Kept(next - 1))'
  <2>1. ~Kept(0)
    BY DEF Kept
  <2> QED BY <1>1, <1>2, <1>3, <1>4, <2>1
<1> QED BY <1>1, <1>8, <1>9, <1>10, <1>11, <1>12 DEF IInv

LEMMA KeptNext == ASSUME NEW n \in Nat PROVE Kept(n + 1) <=> Kept(n) \/ (AtExits /\ Keeps(n + 1))
<1>1. \A i \in 1..n + 1 : i \in 1..n \/ i = n + 1
  OBVIOUS
<1>2. n + 1 \in 1..n + 1 /\ 1..n \subseteq 1..n + 1
  OBVIOUS
<1> QED BY <1>1, <1>2 DEF Kept

LEMMA KeepsAtReturn == \A i : Keeps(i) => code[i].op = "vreturn" /\ (AtExits => ExitAt(i))
BY DEF Keeps, ExitAt, Exits

LEMMA FindExitStep == IInv /\ FindExit => IInv'
<1> SUFFICES ASSUME IInv, FindExit PROVE IInv'
  OBVIOUS
<1> DEFINE n == next - 1
<1>1. /\ phase = "find" /\ More /\ AtExits /\ Op \in Exits
      /\ method' = method /\ phase' = phase /\ next' = next + 1 /\ newPos' = newPos
      /\ locals' = locals /\ out' = out /\ pre' = pre
      /\ added' = (added \/ KeepsResult(Op))
      /\ changes' = Insert(nPos, method.bytes + IF KeepsResult(Op) THEN LocalBytes(locals) ELSE 0)
  BY DEF FindExit
<1>2. /\ method \in Methods /\ next \in Numbers /\ nPos = S(next) /\ Op = code[next].op
      /\ n \in 0..Len(code) /\ n + 1 = next /\ n \in Nat
  BY <1>1, Facts
<1>3. /\ ChangesOK(changes, n) /\ PreOK(pre, next) /\ (added <=> Kept(n)) /\ locals = method.locals
      /\ pre \in Ops \cup {"none"} /\ added \in BOOLEAN
  BY <1>1 DEF IInv, NotYet, Typed, TypeOK
<1>4. KeepsResult(Op) <=> Keeps(next)
  BY <1>1, <1>2, <1>3, KeepsIs DEF KeepsResult
<1>5. ExitAt(next) /\ Marked(next)
  BY <1>1, <1>2 DEF ExitAt, Marked
<1>6. changes' = Noted(changes, Spot(next), Growth(changes, next))
  <2>1. Spot(next) = nPos
    BY <1>2, <1>5 DEF Spot
  <2>2. Growth(changes, next) = method.bytes + IF KeepsResult(Op) THEN LocalBytes(locals) ELSE 0
    BY <1>3, <1>4, <1>5 DEF Growth, KeptBytes
  <2> QED BY <1>1, <2>1, <2>2 DEF Insert, Noted
<1>7. ChangesOK(changes', next)
  BY <1>2, <1>3, <1>5, <1>6, NotedGrows
<1>8. added' \in BOOLEAN /\ (added' <=> Kept(next))
  BY <1>1, <1>2, <1>3, <1>4, KeptNext
<1>9. PreOK(pre', next + 1)
  BY <1>1, <1>2, PreSkip
<1> HIDE DEF n
<1> QED BY <1>1, <1>3, <1>7, <1>8, <1>9, FindStep

LEMMA FindSwitchStep == IInv /\ FindSwitch => IInv'
<1> SUFFICES ASSUME IInv, FindSwitch PROVE IInv'
  OBVIOUS
<1> DEFINE n == next - 1
<1>1. /\ phase = "find" /\ More /\ Op \in Switches
      /\ method' = method /\ phase' = phase /\ next' = next + 1 /\ newPos' = newPos
      /\ locals' = locals /\ out' = out /\ pre' = pre /\ added' = added
      /\ changes' = Insert(nPos + 1, getSwitchCodeAddedSize(nPos + 1))
  BY DEF FindSwitch
<1>2. /\ method \in Methods /\ next \in Numbers /\ nPos = S(next) /\ Op = code[next].op
      /\ n \in 0..Len(code) /\ n + 1 = next /\ n \in Nat /\ S(next) \in Nat
  BY <1>1, Facts
<1>3. /\ ChangesOK(changes, n) /\ PreOK(pre, next) /\ (added <=> Kept(n))
      /\ pre \in Ops \cup {"none"} /\ added \in BOOLEAN
  BY <1>1 DEF IInv, Typed, TypeOK
<1>4. SwitchAt(next) /\ ~ExitAt(next) /\ Marked(next)
  BY <1>1, <1>2 DEF ExitAt, SwitchAt, Marked, Exits, Switches
<1>5. changes' = Noted(changes, Spot(next), Growth(changes, next))
  <2>1. Spot(next) = nPos + 1
    BY <1>2, <1>4 DEF Spot
  <2>2. DOMAIN changes \subseteq Nat
    BY <1>2, <1>3, MapInCode
  <2>3. getCodePosAfterInsertCallbacks(nPos + 1, FALSE) = S(next) + 1 + Shift(changes, next)
    <3>1. getCodePosAfterInsertCallbacks(nPos + 1, FALSE) = PosBehind(nPos + 1)
      <4>1. nPos + 1 \in Int
        BY <1>2
      <4> QED BY <2>2, <4>1, PosIs, Zenon
    <3>2. PosBehind(S(next) + 1) = S(next) + 1 + Shift(changes, next)
      BY <1>2, <1>3, <1>4, SwitchPos
    <3> QED BY <1>2, <3>1, <3>2
  <2>4. Growth(changes, next) = getSwitchCodeAddedSize(nPos + 1)
    BY <1>2, <1>4, <2>3 DEF Growth, getSwitchCodeAddedSize
  <2> QED BY <1>1, <2>1, <2>4 DEF Insert, Noted
<1>6. ChangesOK(changes', next)
  BY <1>2, <1>3, <1>4, <1>5, NotedGrows
<1>7. added' \in BOOLEAN /\ (added' <=> Kept(next))
  <2>1. ~(AtExits /\ Keeps(next))
    BY <1>4, KeepsAtReturn
  <2> QED BY <1>1, <1>2, <1>3, <2>1, KeptNext
<1>8. PreOK(pre', next + 1)
  BY <1>1, <1>2, PreSkip
<1> HIDE DEF n
<1> QED BY <1>1, <1>3, <1>6, <1>7, <1>8, FindStep

LEMMA FindOtherStep == IInv /\ FindOther => IInv'
<1> SUFFICES ASSUME IInv, FindOther PROVE IInv'
  OBVIOUS
<1> DEFINE n == next - 1
<1>1. /\ phase = "find" /\ More /\ Op \notin Switches /\ ~(AtExits /\ Op \in Exits)
      /\ method' = method /\ phase' = phase /\ next' = next + 1 /\ newPos' = newPos
      /\ locals' = locals /\ out' = out /\ added' = added /\ changes' = changes
      /\ pre' = IF AtExits /\ Op # "convert" THEN Op ELSE pre
  BY DEF FindOther
<1>2. /\ method \in Methods /\ next \in Numbers /\ Op = code[next].op
      /\ n \in 0..Len(code) /\ n + 1 = next /\ n \in Nat
  BY <1>1, Facts
<1>3. /\ ChangesOK(changes, n) /\ PreOK(pre, next) /\ (added <=> Kept(n))
      /\ pre \in Ops \cup {"none"} /\ added \in BOOLEAN
  BY <1>1 DEF IInv, Typed, TypeOK
<1>4. ~SwitchAt(next) /\ ~ExitAt(next) /\ ~Marked(next)
  BY <1>1, <1>2 DEF ExitAt, SwitchAt, Marked
<1>5. ChangesOK(changes', next)
  BY <1>1, <1>2, <1>3, <1>4, NothingNoted
<1>6. added' \in BOOLEAN /\ (added' <=> Kept(next))
  <2>1. ~(AtExits /\ Keeps(next))
    BY <1>4, KeepsAtReturn
  <2> QED BY <1>1, <1>2, <1>3, <2>1, KeptNext
<1>7. PreOK(pre', next + 1)
  BY <1>1, <1>2, <1>3, PreStep
<1>8. pre' \in Ops \cup {"none"}
  BY <1>1, <1>2, <1>3, MethodIs
<1> HIDE DEF n
<1> QED BY <1>1, <1>5, <1>6, <1>7, <1>8, FindStep

LEMMA MisreadStep == IInv /\ Misread => IInv'
<1> SUFFICES ASSUME IInv, Misread PROVE IInv'
  OBVIOUS
<1>1. /\ phase' = "misread" /\ UNCHANGED <<method, next, newPos, pre, changes, added, locals, out>>
  BY DEF Misread
<1>2. Typed'
  BY <1>1 DEF IInv, Typed, TypeOK, End
<1> QED BY <1>1, <1>2 DEF IInv

LEMMA FoundAllStep == IInv /\ FoundAll => IInv'
<1> SUFFICES ASSUME IInv, FoundAll PROVE IInv'
  OBVIOUS
<1>1. /\ phase = "find" /\ ~More
      /\ phase' = IF Found THEN "copy" ELSE "raw"
      /\ next' = 1 /\ pre' = "none"
      /\ method' = method /\ newPos' = newPos /\ changes' = changes /\ added' = added
      /\ locals' = locals /\ out' = out
  BY DEF FoundAll
<1>2. /\ method \in Methods /\ Len(code) \in Nat \ {0} /\ Len(code) \in 0..Len(code)
      /\ next - 1 = Len(code) /\ 1 - 1 = 0
  <2>1. /\ method \in Methods /\ Len(code) \in Nat \ {0} /\ next \in 1..Len(code) + 1
        /\ next \notin Numbers /\ Len(code) \in 0..Len(code)
    BY <1>1, Facts
  <2> QED BY <2>1 DEF Numbers
<1>3. /\ ChangesOK(changes, Len(code)) /\ (added <=> Kept(Len(code))) /\ NotYet /\ Typed
  BY <1>1, <1>2 DEF IInv
<1>4. /\ code' = code /\ EntryOut' = EntryOut /\ EntryBytes' = EntryBytes
      /\ \A i : Kept(i)' <=> Kept(i)
      /\ \A f, i : ChangesOK(f, i)' <=> ChangesOK(f, i)
      /\ \A p, i : PreOK(p, i)' <=> PreOK(p, i)
      /\ \A o, max, i : CopyOK(o, max, i)' <=> CopyOK(o, max, i)
  BY <1>1, SameMethod, SameMap
<1>5. Typed'
  <2>1. TypeOK /\ Len(method.code) = Len(code) /\ 1 \in 1..Len(code) + 1
    BY <1>2, <1>3 DEF Typed, code
  <2>2. TypeOK'
    BY <1>1, <2>1 DEF TypeOK, End
  <2> QED BY <1>1, <1>3, <2>2 DEF Typed
<1>6. (ChangesOK(changes, Len(code)) /\ (added <=> Kept(Len(code))))'
  BY <1>1, <1>3, <1>4
<1>7. NotYet' /\ (Found' <=> Found)
  BY <1>1, <1>3, <1>4 DEF NotYet, Found, Has, AtExits
<1>8. EndOf(EntryOut) = EntryBytes
  BY <1>2, EntryEnds
<1>9. (newPos = Written)'
  BY <1>1, <1>3, <1>8 DEF NotYet, Written, EndOf
<1>10. CopyOK(EntryOut, locals, 0)
  <2>1. ~Kept(0) /\ locals = method.locals /\ method.locals \in Nat
    BY <1>2, <1>3, MethodIs DEF Kept, NotYet
  <2>2. ~\E k \in 1..Len(EntryOut) : EntryOut[k].op = "keep"
    BY EntryOutIs
  <2>3. ASSUME ~Merged PROVE EndOf(EntryOut) = Group(1) /\ OutOK(EntryOut, 0)
    <3>1. EndOf(EntryOut) = Group(1)
      <4>1. 1 \in 1..Len(code) + 1
        BY <1>2
      <4> QED BY <1>2, <1>3, <1>8, <2>3, <4>1, GroupsGrow
    <3>2. OutOK(EntryOut, 0)
      BY EntryOutIs DEF OutOK
    <3> QED BY <3>1, <3>2
  <2>4. ASSUME Merged PROVE MergedOK(EntryOut, 0)
    <3>1. EndOf(EntryOut) = method.bytes + 0 * (method.bytes + 1)
      <4>1. method.bytes \in Nat /\ EntryBytes = method.bytes
        BY <1>2, <2>4, MethodIs DEF Merged, EntryBytes
      <4> QED BY <1>8, <4>1
    <3>2. \A k \in 1..Len(EntryOut) : EntryOut[k].to = <<>> /\ EntryOut[k].op \notin Switches
      BY EntryOutIs DEF Switches
    <3> QED BY <3>1, <3>2 DEF MergedOK
  <2>5. 0 + 1 = 1
    OBVIOUS
  <2>6. locals = method.locals + IF Kept(0) THEN Slots ELSE 0
    BY <2>1
  <2> QED BY <2>1, <2>2, <2>3, <2>4, <2>5, <2>6 DEF CopyOK, Group
<1>11. CopyOK(out, locals, next - 1)'
  BY <1>1, <1>2, <1>3, <1>4, <1>10 DEF NotYet
<1>12. PreOK(pre, next)'
  BY <1>1, <1>2, <1>4, PreFirst
<1>13. CASE Found
  BY <1>1, <1>5, <1>6, <1>7, <1>9, <1>11, <1>12, <1>13 DEF IInv
<1>14. CASE ~Found
  BY <1>1, <1>5, <1>6, <1>7, <1>14 DEF IInv
<1> QED BY <1>13, <1>14

LEMMA CopyGrows ==
  ASSUME method \in Methods, ChangesOK(changes, Len(code)), ~Merged,
         NEW n \in 0..Len(code), n + 1 \in Numbers,
         NEW T, NEW o \in Seq(T), NEW max, CopyOK(o, max, n),
         NEW s \in Seq(T), NextItems(o, s, n + 1),
         (\E k \in 1..Len(s) : s[k].op = "keep") <=> AtExits /\ Keeps(n + 1),
         NEW more, more = IF AtExits /\ Keeps(n + 1) /\ max = method.locals THEN max + Slots ELSE max
  PROVE  CopyOK(o \o s, more, n + 1) /\ EndOf(o \o s) = Group(n + 2)
<1>1. /\ OutOK(o, n) /\ EndOf(o) = Group(n + 1)
      /\ max = method.locals + IF Kept(n) THEN Slots ELSE 0
      /\ Kept(n) <=> \E k \in 1..Len(o) : o[k].op = "keep"
  BY DEF CopyOK, Group
<1>2. ItemOK(o \o s, Len(o) + Len(s), n + 1) /\ EndOf(o \o s) = Group(n + 2)
  BY <1>1, NextItemOK
<1>3. n \in Nat
  BY MethodIs
<1>4. OutOK(o \o s, n + 1)
  BY <1>1, <1>2, <1>3, OutGrows
<1>5. Kept(n + 1) <=> Kept(n) \/ (AtExits /\ Keeps(n + 1))
  BY <1>3, KeptNext
<1>6. more = method.locals + IF Kept(n + 1) THEN Slots ELSE 0
  <2>1. method.locals \in Nat /\ Slots \in {1, 2}
    BY MethodIs DEF Slots
  <2> QED BY <1>1, <1>5, <2>1
<1>7. Kept(n + 1) <=> \E k \in 1..Len(o \o s) : (o \o s)[k].op = "keep"
  <2> DEFINE q == o \o s
  <2>1. /\ Len(q) = Len(o) + Len(s) /\ Len(o) \in Nat /\ Len(s) \in Nat
        /\ \A k \in 1..Len(o) : q[k] = o[k]
        /\ \A k \in 1..Len(s) : q[Len(o) + k] = s[k]
        /\ \A k \in 1..Len(o) + Len(s) : k \notin 1..Len(o) =>
              k - Len(o) \in 1..Len(s) /\ q[k] = s[k - Len(o)]
    BY Joined
  <2> HIDE DEF q
  <2>2. ASSUME NEW k \in 1..Len(o), o[k].op = "keep" PROVE \E l \in 1..Len(q) : q[l].op = "keep"
    <3>1. k \in 1..Len(q) /\ q[k] = o[k]
      BY <2>1
    <3> QED BY <2>2, <3>1
  <2>3. ASSUME NEW k \in 1..Len(s), s[k].op = "keep" PROVE \E l \in 1..Len(q) : q[l].op = "keep"
    <3>1. Len(o) + k \in 1..Len(q) /\ q[Len(o) + k] = s[k]
      BY <2>1
    <3> QED BY <2>3, <3>1
  <2>4. ASSUME NEW l \in 1..Len(q), q[l].op = "keep"
        PROVE  (\E k \in 1..Len(o) : o[k].op = "keep") \/ (\E k \in 1..Len(s) : s[k].op = "keep")
    BY <2>1, <2>4
  <2>5. (\E l \in 1..Len(q) : q[l].op = "keep") <=>
        (\E k \in 1..Len(o) : o[k].op = "keep") \/ (\E k \in 1..Len(s) : s[k].op = "keep")
    BY <2>2, <2>3, <2>4
  <2>6. (\E l \in 1..Len(q) : q[l].op = "keep") <=> Kept(n + 1)
    BY <1>1, <1>5, <2>5
  <2> QED BY <2>6 DEF q
<1>8. EndOf(o \o s) = S((n + 1) + 1) + Shift(changes, (n + 1) + 1)
  <2>1. (n + 1) + 1 = n + 2
    BY <1>3
  <2> QED BY <1>2, <2>1 DEF Group
<1> QED BY <1>2, <1>4, <1>6, <1>7, <1>8 DEF CopyOK

LEMMA CopyFacts ==
  ASSUME IInv, phase = "copy", More
  PROVE  /\ method \in Methods /\ next \in Numbers /\ Op = code[next].op
         /\ nPos = S(next) /\ nPos \in Nat
         /\ next - 1 \in 0..Len(code) /\ (next - 1) + 1 = next /\ next \in 1..Len(code)
         /\ ChangesOK(changes, Len(code)) /\ CopyOK(out, locals, next - 1) /\ PreOK(pre, next)
         /\ newPos = EndOf(out) /\ Written = EndOf(out)
         /\ pre \in Ops \cup {"none"} /\ newPos \in Nat /\ locals \in Nat
         /\ ~Merged => newPos = Group(next)
         /\ Merged => next = 1 /\ Len(code) = 1 /\ ExitAt(next) /\ ~Keeps(next)
<1>1. /\ method \in Methods /\ next \in Numbers /\ Op = code[next].op
      /\ nPos = S(next) /\ nPos \in Nat
      /\ next - 1 \in 0..Len(code) /\ (next - 1) + 1 = next
  BY Facts
<1>2. next \in 1..Len(code) /\ Len(code) \in Nat \ {0}
  BY <1>1, MethodIs DEF Numbers
<1>3. /\ ChangesOK(changes, Len(code)) /\ CopyOK(out, locals, next - 1) /\ PreOK(pre, next)
      /\ newPos = Written
      /\ pre \in Ops \cup {"none"} /\ newPos \in Nat /\ locals \in Nat
  BY DEF IInv, Typed, TypeOK
<1>4. Written = EndOf(out)
  BY DEF Written, EndOf
<1>5. ~Merged => newPos = Group(next)
  BY <1>1, <1>3, <1>4 DEF CopyOK, Group
<1>6. ASSUME Merged PROVE next = 1 /\ Len(code) = 1 /\ ExitAt(next) /\ ~Keeps(next)
  <2>1. Len(code) = 1
    BY <1>1, <1>6, MethodIs DEF Merged, ExitAt, Compiled
  <2>2. next = 1
    BY <1>2, <2>1
  <2>3. ~Keeps(next)
    BY <2>2 DEF Keeps
  <2> QED BY <1>6, <2>1, <2>2, <2>3 DEF Merged
<1> QED BY <1>1, <1>2, <1>3, <1>4, <1>5, <1>6

LEMMA CopyItems ==
  ASSUME IInv, phase = "copy", More, ~Merged,
         method' = method, phase' = phase, changes' = changes, added' = added, next' = next + 1,
         pre' \in Ops \cup {"none"}, PreOK(pre', next + 1),
         NEW U, NEW s \in Seq(U), NextItems(out, s, next),
         (\E k \in 1..Len(s) : s[k].op = "keep") <=> AtExits /\ Keeps(next),
         locals' = IF AtExits /\ Keeps(next) /\ locals = method.locals THEN locals + Slots ELSE locals,
         out' = out \o s, newPos' = Group(next + 1)
  PROVE  IInv'
<1> DEFINE n == next - 1
<1>1. /\ method \in Methods /\ next \in Numbers /\ next \in 1..Len(code) /\ next \in Nat
      /\ n \in 0..Len(code) /\ n + 1 = next /\ n + 2 = next + 1
      /\ ChangesOK(changes, Len(code)) /\ CopyOK(out, locals, n) /\ locals \in Nat
  BY CopyFacts, SMTT(30)
<1>2. PICK T : out \in Seq(T)
  BY DEF IInv, Typed
<1>3. out \in Seq(T \cup U) /\ s \in Seq(T \cup U) /\ out \o s \in Seq(T \cup U)
  BY <1>2
<1>4. CopyOK(out \o s, locals', next) /\ EndOf(out \o s) = Group(next + 1)
  <2> HIDE DEF n
  <2>1. CopyOK(out \o s, locals', n + 1) /\ EndOf(out \o s) = Group(n + 2)
    BY <1>1, <1>3, CopyGrows
  <2> QED BY <1>1, <2>1
<1>5. Group(next + 1) \in Nat
  <2>1. next + 1 \in 1..Len(code) + 1 /\ Len(code) \in 0..Len(code)
    BY <1>1, MethodIs
  <2> QED BY <1>1, <2>1, GroupsGrow
<1>6. \A k \in DOMAIN out' : /\ out'[k].of \in 0..Len(code)
                             /\ out'[k].op \in Ops \cup {"callback", "keep"}
  <2>1. \A k \in 1..Len(out) : /\ out[k].of \in 0..Len(code)
                               /\ out[k].op \in Ops \cup {"callback", "keep"}
    BY <1>2, SMTT(30) DEF IInv, Typed, TypeOK, code
  <2>2. \A k \in 1..Len(s) : /\ s[k].of \in 0..Len(code)
                             /\ s[k].op \in Ops \cup {"callback", "keep"}
    <3> SUFFICES ASSUME NEW k \in 1..Len(s)
                 PROVE  /\ s[k].of \in 0..Len(code)
                        /\ s[k].op \in Ops \cup {"callback", "keep"}
      OBVIOUS
    <3>1. /\ s[Len(s)].of = next /\ s[Len(s)].op = code[next].op
          /\ \A l \in 1..Len(s) - 1 : s[l].of = 0 /\ s[l].op \in {"callback", "keep"} /\ s[l].to = <<>>
      BY DEF NextItems
    <3>2. code[next].op \in Ops /\ next \in 0..Len(code) /\ 0 \in 0..Len(code)
      <4>1. code[next].op \in Ops /\ Len(code) \in Nat
        BY <1>1, MethodIs
      <4>2. next \in 1..Len(code)
        BY <1>1
      <4> HIDE DEF n
      <4> QED BY <4>1, <4>2
    <3>3. k = Len(s) \/ k \in 1..Len(s) - 1
      OBVIOUS
    <3> QED BY <3>1, <3>2, <3>3
  <2>3. /\ DOMAIN (out \o s) = 1..Len(out) + Len(s)
        /\ \A k \in 1..Len(out) : (out \o s)[k] = out[k]
        /\ \A k \in 1..Len(out) + Len(s) : k \notin 1..Len(out) =>
              k - Len(out) \in 1..Len(s) /\ (out \o s)[k] = s[k - Len(out)]
    BY <1>3, Joined
  <2> QED BY <2>1, <2>2, <2>3
<1>7. locals' \in Nat
  BY <1>1 DEF Slots
<1> HIDE DEF n
<1> QED BY <1>3, <1>4, <1>5, <1>6, <1>7, CopyStep

\* An instruction ahead of which nothing is inserted.
LEMMA CopyOne ==
  ASSUME IInv, phase = "copy", More, ~ExitAt(next),
         method' = method, phase' = phase, changes' = changes, added' = added, next' = next + 1,
         locals' = locals, pre' \in Ops \cup {"none"}, PreOK(pre', next + 1),
         NEW size, size = NewSize(next), NEW to, DOMAIN to \subseteq DOMAIN code[next].to,
         \A b \in DOMAIN to : to[b] = Target(code[next].to[b]) - NewPlace(next),
         out' = out \o <<Item(Op, next, Written, size, to)>>, newPos' = newPos + size
  PROVE  IInv'
<1> DEFINE x == Item(Op, next, Written, size, to)
           s == <<x>>
<1>1. /\ method \in Methods /\ next \in 1..Len(code) /\ Op = code[next].op
      /\ ChangesOK(changes, Len(code)) /\ newPos = Written /\ ~Merged /\ newPos = Group(next)
  BY CopyFacts
<1>2. /\ x.op = code[next].op /\ x.of = next /\ x.at = Written /\ x.size = size /\ x.to = to
  BY <1>1 DEF Item
<1> HIDE DEF x
<1>3. /\ Len(s) = 1 /\ s[1] = x /\ s \in Seq({x})
  OBVIOUS
<1> HIDE DEF s
<1>4. NewPlace(next) = Group(next) /\ Group(next + 1) = newPos + size
  <2>1. Len(code) \in 0..Len(code)
    BY <1>1, MethodIs
  <2>2. /\ Group(next + 1) = NewPlace(next) + NewSize(next)
    BY <1>1, <2>1, GroupIs
  <2>3. NewPlace(next) = Group(next)
    <3>1. next \in 1..Len(code) + 1
      BY <1>1, <2>1
    <3>2. Shift(changes, next) \in Int /\ S(next) \in Nat
      BY <1>1, <2>1, <3>1, Shifts, Positions DEF Past
    <3> QED BY <3>2 DEF NewPlace, Group
  <2> QED BY <1>1, <2>2, <2>3
<1>5. NextItems(out, s, next)
  <2>1. 1..1 - 1 = {}
    OBVIOUS
  <2> QED BY <1>1, <1>2, <1>3, <1>4, <2>1 DEF NextItems
<1>6. ~(AtExits /\ Keeps(next))
  BY KeepsAtReturn
<1>7. ~\E k \in 1..Len(s) : s[k].op = "keep"
  <2>1. code[next].op # "keep"
    BY <1>1, MethodIs DEF Numbers, Ops, Branches, Switches, Exits
  <2> QED BY <1>2, <1>3, <2>1
<1>8. out' = out \o s
  BY DEF s, x
<1> QED BY <1>1, <1>3, <1>4, <1>5, <1>6, <1>7, <1>8, CopyItems

LEMMA JumpIs ==
  ASSUME IInv, phase = "copy", More, ~Merged
  PROVE  /\ DOMAIN modifyJumpTarget(code[next]) = DOMAIN code[next].to
         /\ \A b \in DOMAIN modifyJumpTarget(code[next]) :
              modifyJumpTarget(code[next])[b] = Target(code[next].to[b]) - NewPlace(next)
<1>1. /\ method \in Methods /\ next \in 1..Len(code) /\ nPos = S(next) /\ nPos \in Nat
      /\ ChangesOK(changes, Len(code)) /\ Len(code) \in 0..Len(code)
      /\ next \in 1..Len(code) + 1
  <2>1. /\ method \in Methods /\ next \in 1..Len(code) /\ nPos = S(next) /\ nPos \in Nat
        /\ ChangesOK(changes, Len(code))
    BY CopyFacts
  <2> QED BY <2>1, MethodIs
<1>2. DOMAIN changes \subseteq Nat
  BY <1>1, MapInCode
<1>3. getCodePosAfterInsertCallbacks(nPos, FALSE) = PosBehind(nPos)
  <2>1. nPos \in Int
    BY <1>1
  <2> QED BY <1>2, <2>1, PosIs, Zenon
<1>4. PosBehind(nPos) = NewPlace(next)
  BY <1>1, CodePos
<1>5. \A j : getCodePosAfterInsertCallbacks(Starts(method)[j], AtExits) = Target(j)
  BY DEF Target, S
<1> DEFINE behind == getCodePosAfterInsertCallbacks(nPos, FALSE)
           Lead(j) == getCodePosAfterInsertCallbacks(Starts(method)[j], AtExits)
<1>6. modifyJumpTarget(code[next]) = [b \in DOMAIN code[next].to |-> Lead(code[next].to[b]) - behind]
  BY DEF modifyJumpTarget
<1>7. behind = NewPlace(next) /\ \A j : Lead(j) = Target(j)
  BY <1>3, <1>4, <1>5
<1> HIDE DEF behind, Lead
<1> QED BY <1>6, <1>7

LEMMA CopyJumpStep == IInv /\ CopyJump => IInv'
<1> SUFFICES ASSUME IInv, CopyJump PROVE IInv'
  OBVIOUS
<1> DEFINE size == Size(method.code[next], nPos)
           to == modifyJumpTarget(method.code[next])
<1>1. /\ phase = "copy" /\ More /\ Op \in Branches
      /\ method' = method /\ phase' = phase /\ pre' = pre /\ changes' = changes /\ added' = added
      /\ locals' = locals /\ next' = next + 1 /\ newPos' = newPos + size
      /\ out' = out \o <<Item(Op, next, Written, size, to)>>
  BY DEF CopyJump, Write
<1>2. /\ method \in Methods /\ next \in Numbers /\ next \in 1..Len(code) /\ Op = code[next].op
      /\ nPos = S(next) /\ nPos \in Nat /\ pre \in Ops \cup {"none"}
  BY <1>1, CopyFacts
<1>3. ~ExitAt(next) /\ ~SwitchAt(next)
  BY <1>1, <1>2 DEF ExitAt, SwitchAt, Branches, Exits, Switches
<1>4. ~Merged
  BY <1>1, <1>3, CopyFacts
<1>5. size = NewSize(next)
  <2>1. S(next + 1) = S(next) + size /\ S(next) \in Nat
    BY <1>2, Positions DEF code
  <2>2. NewSize(next) = S(next + 1) - S(next) + 0
    BY <1>3 DEF NewSize
  <2>3. size \in Nat
    BY <1>2, Sizes DEF code
  <2> HIDE DEF size
  <2> QED BY <2>1, <2>2, <2>3
<1>6. /\ DOMAIN to \subseteq DOMAIN code[next].to
      /\ \A b \in DOMAIN to : to[b] = Target(code[next].to[b]) - NewPlace(next)
  BY <1>1, <1>4, JumpIs DEF code
<1>7. PreOK(pre', next + 1)
  BY <1>1, <1>2, PreSkip
<1> HIDE DEF size, to
<1> QED BY <1>1, <1>2, <1>3, <1>5, <1>6, <1>7, CopyOne

LEMMA CopySwitchStep == IInv /\ CopySwitch => IInv'
<1> SUFFICES ASSUME IInv, CopySwitch PROVE IInv'
  OBVIOUS
<1> DEFINE size == Size(method.code[next], nPos) - Padding(nPos + 1) + Padding(newPos + 1)
           to == modifyJumpTarget(method.code[next])
<1>1. /\ phase = "copy" /\ More /\ Op \in Switches
      /\ method' = method /\ phase' = phase /\ pre' = pre /\ changes' = changes /\ added' = added
      /\ locals' = locals /\ next' = next + 1 /\ newPos' = newPos + size
      /\ out' = out \o <<Item(Op, next, Written, size, to)>>
  BY DEF CopySwitch, Write
<1>2. /\ method \in Methods /\ next \in Numbers /\ next \in 1..Len(code) /\ Op = code[next].op
      /\ nPos = S(next) /\ nPos \in Nat /\ pre \in Ops \cup {"none"} /\ newPos \in Nat
      /\ ChangesOK(changes, Len(code))
  BY <1>1, CopyFacts
<1>3. ~ExitAt(next) /\ SwitchAt(next)
  BY <1>1, <1>2 DEF ExitAt, SwitchAt, Exits, Switches
<1>4. ~Merged /\ newPos = Group(next)
  BY <1>1, <1>3, CopyFacts
<1>5. size = NewSize(next)
  <2>1. /\ Operands(next) \in Nat
        /\ Size(code[next], nPos) = 1 + Padding(nPos + 1) + Operands(next)
    BY <1>2, <1>3, Sizes
  <2>2. Padding(nPos + 1) \in Nat /\ Padding(newPos + 1) \in Nat
    BY <1>2, PaddingType
  <2>3. NewSize(next) = 1 + Padding(newPos + 1) + Operands(next)
    <3>1. Len(code) \in 0..Len(code)
      BY <1>2, MethodIs
    <3> QED BY <1>2, <1>3, <1>4, <3>1, GroupIs
  <2>4. size = (1 + Padding(nPos + 1) + Operands(next)) - Padding(nPos + 1) + Padding(newPos + 1)
    BY <2>1 DEF code
  <2> HIDE DEF size
  <2> QED BY <2>1, <2>2, <2>3, <2>4
<1>6. /\ DOMAIN to \subseteq DOMAIN code[next].to
      /\ \A b \in DOMAIN to : to[b] = Target(code[next].to[b]) - NewPlace(next)
  BY <1>1, <1>4, JumpIs DEF code
<1>7. PreOK(pre', next + 1)
  BY <1>1, <1>2, PreSkip
<1> HIDE DEF size, to
<1> QED BY <1>1, <1>2, <1>3, <1>5, <1>6, <1>7, CopyOne

LEMMA CopyOtherStep == IInv /\ CopyOther => IInv'
<1> SUFFICES ASSUME IInv, CopyOther PROVE IInv'
  OBVIOUS
<1> DEFINE size == Size(method.code[next], nPos)
<1>1. /\ phase = "copy" /\ More
      /\ Op \notin Branches \cup Switches /\ ~(AtExits /\ Op \in Exits)
      /\ method' = method /\ phase' = phase /\ changes' = changes /\ added' = added
      /\ pre' = IF AtExits /\ Op # "convert" THEN Op ELSE pre
      /\ locals' = locals /\ next' = next + 1 /\ newPos' = newPos + size
      /\ out' = out \o <<Item(Op, next, Written, size, <<>>)>>
  BY DEF CopyOther, Write
<1>2. /\ method \in Methods /\ next \in Numbers /\ next \in 1..Len(code) /\ Op = code[next].op
      /\ nPos = S(next) /\ nPos \in Nat /\ pre \in Ops \cup {"none"} /\ PreOK(pre, next)
  BY <1>1, CopyFacts
<1>3. ~ExitAt(next) /\ ~SwitchAt(next)
  BY <1>1, <1>2 DEF ExitAt, SwitchAt
<1>4. size = NewSize(next)
  <2>1. S(next + 1) = S(next) + size /\ S(next) \in Nat
    BY <1>2, Positions DEF code
  <2>2. NewSize(next) = S(next + 1) - S(next) + 0
    BY <1>3 DEF NewSize
  <2>3. size \in Nat
    BY <1>2, Sizes DEF code
  <2> HIDE DEF size
  <2> QED BY <2>1, <2>2, <2>3
<1>5. DOMAIN <<>> = {}
  OBVIOUS
<1>6. PreOK(pre', next + 1)
  BY <1>1, <1>2, PreStep
<1>7. pre' \in Ops \cup {"none"}
  BY <1>1, <1>2, MethodIs
<1> HIDE DEF size
<1> QED BY <1>1, <1>2, <1>3, <1>4, <1>5, <1>6, <1>7, CopyOne

\* An exit of a method that is not the empty one.
LEMMA CopyExitApart == IInv /\ CopyExit /\ ~Merged => IInv'
<1> SUFFICES ASSUME IInv, CopyExit, ~Merged PROVE IInv'
  OBVIOUS
<1> DEFINE keep == IF KeepsResult(Op) THEN LocalBytes(method.locals) ELSE 0
           k == Item("keep", 0, Written, keep, <<>>)
           c == Callback(Written + keep)
           x == Item(Op, next, Written + keep + method.bytes, 1, <<>>)
           s == (IF KeepsResult(Op) THEN <<k>> ELSE <<>>) \o <<c, x>>
<1>1. /\ phase = "copy" /\ More /\ AtExits /\ Op \in Exits
      /\ method' = method /\ phase' = phase /\ pre' = pre /\ changes' = changes /\ added' = added
      /\ locals' = IF KeepsResult(Op) /\ locals = method.locals THEN locals + Slots ELSE locals
      /\ next' = next + 1 /\ newPos' = newPos + (keep + method.bytes + 1)
      /\ out' = out \o s
  BY DEF CopyExit, Write
<1>2. /\ method \in Methods /\ next \in Numbers /\ next \in 1..Len(code) /\ Op = code[next].op
      /\ nPos = S(next) /\ nPos \in Nat /\ pre \in Ops \cup {"none"} /\ PreOK(pre, next)
      /\ newPos = Written /\ Written = EndOf(out) /\ newPos = Group(next) /\ newPos \in Nat
      /\ ChangesOK(changes, Len(code))
  BY <1>1, CopyFacts
<1>3. ExitAt(next) /\ ~SwitchAt(next)
  BY <1>1, <1>2 DEF ExitAt, SwitchAt, Exits, Switches
<1>4. KeepsResult(Op) <=> Keeps(next)
  BY <1>1, <1>2, KeepsIs DEF KeepsResult
<1>5. keep = KeptBytes(next) /\ keep \in Nat /\ method.bytes \in Nat
  BY <1>2, <1>4, MethodIs DEF KeptBytes, LocalBytes
<1>6. /\ k.op = "keep" /\ k.of = 0 /\ k.at = Written
      /\ c.op = "callback" /\ c.of = 0 /\ c.at = Written + keep /\ k.to = <<>> /\ c.to = <<>>
      /\ x.op = code[next].op /\ x.of = next /\ x.at = Written + keep + method.bytes
      /\ x.size = 1 /\ x.to = <<>>
  BY <1>2 DEF Item, Callback
<1> HIDE DEF k, c, x
<1>7. code[next].op # "keep"
  BY <1>2, MethodIs DEF Ops, Branches, Switches, Exits
<1>8. /\ s \in Seq({k, c, x}) /\ Len(s) \in {2, 3} /\ s[Len(s)] = x /\ s[Len(s) - 1] = c
      /\ s[1].at = Written /\ \A l \in 1..Len(s) - 1 : s[l] \in {k, c}
      /\ \A l \in 1..Len(s) - 1 : s[l].at >= Written
      /\ (\E l \in 1..Len(s) : s[l].op = "keep") <=> Keeps(next)
  <2>1. CASE Keeps(next)
    <3>1. s = <<k>> \o <<c, x>>
      BY <1>4, <2>1
    <3> HIDE DEF s
    <3>2. /\ <<k>> \in Seq({k, c, x}) /\ <<c, x>> \in Seq({k, c, x})
          /\ Len(<<k>>) = 1 /\ Len(<<c, x>>) = 2
      OBVIOUS
    <3>3. s \in Seq({k, c, x}) /\ Len(s) = 3 /\ s[1] = k /\ s[2] = c /\ s[3] = x
      <4>1. /\ s \in Seq({k, c, x}) /\ Len(s) = 1 + 2
            /\ \A l \in 1..1 : s[l] = <<k>>[l]
            /\ \A l \in 1..2 : s[1 + l] = <<c, x>>[l]
        BY <3>1, <3>2, Joined
      <4>2. 1 \in 1..1 /\ 1 \in 1..2 /\ 2 \in 1..2 /\ 1 + 1 = 2 /\ 1 + 2 = 3
        OBVIOUS
      <4> QED BY <4>1, <4>2
    <3>4. 1 \in 1..Len(s) /\ \A l \in 1..Len(s) - 1 : l = 1 \/ l = 2
      BY <3>3
    <3>5. k.at >= Written /\ c.at >= Written
      <4>1. \A w, b \in Nat : w >= w /\ w + b >= w
        OBVIOUS
      <4> HIDE DEF keep
      <4> QED BY <1>2, <1>5, <1>6, <4>1
    <3> QED BY <1>6, <2>1, <3>3, <3>4, <3>5
  <2>2. CASE ~Keeps(next)
    <3>1. s = <<>> \o <<c, x>>
      BY <1>4, <2>2
    <3>2. s = <<c, x>>
      BY <3>1
    <3> HIDE DEF s
    <3>3. s \in Seq({k, c, x}) /\ Len(s) = 2 /\ s[1] = c /\ s[2] = x
      BY <3>2
    <3>4. Written + keep = Written
      BY <1>2, <1>5, <2>2 DEF KeptBytes
    <3>5. \A l \in 1..Len(s) - 1 : l = 1
      BY <3>3
    <3>6. \A l \in 1..Len(s) : l = 1 \/ l = 2
      BY <3>3
    <3>7. c.at >= Written
      BY <1>2, <1>6, <3>4
    <3> QED BY <1>6, <1>7, <2>2, <3>3, <3>4, <3>5, <3>6, <3>7
  <2> QED BY <2>1, <2>2
<1> HIDE DEF s
<1>9. NewPlace(next) = Written + keep + method.bytes /\ NewSize(next) = 1
      /\ Group(next + 1) = newPos + (keep + method.bytes + 1)
  <2>1. Group(next + 1) = NewPlace(next) + NewSize(next) /\ Len(code) \in 0..Len(code)
    <3>1. Len(code) \in 0..Len(code)
      BY <1>2, MethodIs
    <3> QED BY <1>2, <3>1, GroupIs
  <2>2. NewSize(next) = 1
    <3>1. NewSize(next) = S(next + 1) - S(next) + 0
      BY <1>3 DEF NewSize
    <3>2. S(next + 1) = S(next) + 1 /\ S(next) \in Nat
      <4>1. S(next) \in Nat /\ S(next + 1) = S(next) + Size(code[next], S(next))
        BY <1>2, Positions
      <4>2. Size(code[next], S(next)) = 1
        BY <1>1, <1>2, <4>1, Sizes
      <4> QED BY <4>1, <4>2
    <3> QED BY <3>1, <3>2
  <2>3. NewPlace(next) = Written + keep + method.bytes
    <3>1. NewPlace(next) = S(next) + Shift(changes, next) + (method.bytes + keep)
      BY <1>3, <1>5 DEF NewPlace, Growth
    <3>2. Written = S(next) + Shift(changes, next) /\ Written \in Nat
      BY <1>2 DEF Group
    <3>3. Shift(changes, next) \in Int /\ S(next) \in Nat
      <4>1. next \in 1..Len(code) + 1
        BY <1>2, <2>1
      <4> QED BY <1>2, <2>1, <4>1, Shifts
    <3> QED BY <1>5, <3>1, <3>2, <3>3
  <2>4. newPos = Written /\ Written \in Nat /\ keep \in Nat /\ method.bytes \in Nat
    BY <1>2, <1>5
  <2> HIDE DEF keep
  <2>5. \A w, e, b \in Nat : w + e + b + 1 = w + (e + b + 1)
    OBVIOUS
  <2>6. Group(next + 1) = Written + keep + method.bytes + 1
    BY <2>1, <2>2, <2>3, Zenon
  <2> QED BY <2>2, <2>3, <2>4, <2>5, <2>6, Zenon
<1>10. NextItems(out, s, next)
  <2>1. \A l \in 1..Len(s) - 1 : s[l].of = 0 /\ s[l].op \in {"callback", "keep"} /\ s[l].to = <<>>
    BY <1>6, <1>8
  <2>2. DOMAIN x.to = {}
    BY <1>6
  <2>3. Len(s) # 0 /\ Len(s) > 1
    <3>1. Len(s) \in {2, 3}
      BY <1>8, Zenon
    <3>2. \A n \in {2, 3} : n # 0 /\ n > 1
      OBVIOUS
    <3> QED BY <3>1, <3>2, Zenon
  <2>4. s[1].at = EndOf(out) /\ s[Len(s) - 1].op = "callback"
    BY <1>2, <1>6, <1>8
  <2>5. s[Len(s)] = x
    BY <1>8
  <2>6. \A l \in 1..Len(s) - 1 : s[l].at >= EndOf(out)
    BY <1>2, <1>8
  <2> HIDE DEF keep
  <2> QED BY <1>6, <1>9, <2>1, <2>2, <2>3, <2>4, <2>5, <2>6 DEF NextItems
<1>11. PreOK(pre', next + 1)
  BY <1>1, <1>2, PreSkip
<1> HIDE DEF keep
<1> QED BY <1>1, <1>2, <1>4, <1>8, <1>9, <1>10, <1>11, CopyItems

\* The exit of the empty method.
LEMMA CopyExitMerged == IInv /\ CopyExit /\ Merged => IInv'
<1> SUFFICES ASSUME IInv, CopyExit, Merged PROVE IInv'
  OBVIOUS
<1>1. /\ phase = "copy" /\ More /\ AtExits /\ Op \in Exits
      /\ method' = method /\ phase' = phase /\ pre' = pre /\ changes' = changes /\ added' = added
      /\ next' = next + 1
  BY DEF CopyExit, Write
<1>2. /\ method \in Methods /\ next = 1 /\ Len(code) = 1 /\ ExitAt(next) /\ ~Keeps(next)
      /\ Op = code[next].op /\ next \in Numbers
      /\ pre \in Ops \cup {"none"} /\ PreOK(pre, next) /\ newPos \in Nat /\ locals \in Nat
      /\ newPos = EndOf(out) /\ Written = EndOf(out) /\ CopyOK(out, locals, next - 1)
  BY <1>1, CopyFacts
<1>3. ~KeepsResult(Op)
  BY <1>1, <1>2, KeepsIs DEF KeepsResult
<1> DEFINE c == Callback(Written + 0)
           x == Item(Op, next, Written + 0 + method.bytes, 1, <<>>)
           s == <<c, x>>
<1>4. /\ out' = out \o s /\ newPos' = newPos + (0 + method.bytes + 1) /\ locals' = locals
  <2>1. out' = out \o (<<>> \o s)
    BY <1>3 DEF CopyExit, Write
  <2>2. <<>> \o s = s
    OBVIOUS
  <2> QED BY <1>3, <2>1, <2>2 DEF CopyExit, Write
<1>5. method.bytes \in Nat /\ Op \in Ops /\ Op \notin Switches /\ Op # "keep" /\ next - 1 = 0
  BY <1>1, <1>2, MethodIs DEF Exits, Switches
<1>6. /\ c.op = "callback" /\ c.of = 0 /\ c.to = <<>>
      /\ x.op = Op /\ x.of = next /\ x.to = <<>>
      /\ x.at = Written + 0 + method.bytes /\ x.size = 1
  BY DEF Item, Callback
<1> HIDE DEF c, x
<1>7. PICK T : out \in Seq(T)
  BY DEF IInv, Typed
<1> DEFINE U == T \cup {c, x}
<1>8. s \in Seq(U) /\ Len(s) = 2 /\ s[1] = c /\ s[2] = x /\ out \in Seq(U)
  BY <1>7
<1> HIDE DEF s, U
<1> DEFINE q == out \o s
<1>9. /\ q \in Seq(U) /\ Len(q) = Len(out) + 2 /\ Len(out) \in Nat
      /\ \A l \in 1..Len(out) : q[l] = out[l]
      /\ q[Len(out) + 1] = c /\ q[Len(out) + 2] = x
  <2>1. out \in Seq(U) /\ s \in Seq(U)
    BY <1>8
  <2>2. /\ q \in Seq(U) /\ Len(q) = Len(out) + Len(s)
        /\ \A l \in 1..Len(out) : q[l] = out[l]
        /\ \A l \in 1..Len(s) : q[Len(out) + l] = s[l]
    BY <2>1, Joined
  <2>3. 1 \in 1..Len(s) /\ 2 \in 1..Len(s) /\ Len(out) \in Nat
    BY <1>8
  <2> HIDE DEF q
  <2> QED BY <1>8, <2>2, <2>3
<1> HIDE DEF q
<1>10. \A l \in 1..Len(q) : l \in 1..Len(out) \/ l = Len(out) + 1 \/ l = Len(out) + 2
  BY <1>9
<1>11. /\ locals = method.locals + IF Kept(0) THEN Slots ELSE 0
       /\ (Kept(0) <=> \E l \in 1..Len(out) : out[l].op = "keep")
       /\ MergedOK(out, 0)
  BY <1>2, <1>5 DEF CopyOK
<1>12. Kept(1) <=> Kept(0)
  <2>1. Kept(0 + 1) <=> Kept(0) \/ (AtExits /\ Keeps(0 + 1))
    BY KeptNext
  <2>2. 0 + 1 = 1
    OBVIOUS
  <2> QED BY <1>2, <2>1, <2>2
<1>13. (\E l \in 1..Len(q) : q[l].op = "keep") <=> (\E l \in 1..Len(out) : out[l].op = "keep")
  <2>1. \A l \in 1..Len(out) : l \in 1..Len(q)
    BY <1>9
  <2> QED BY <1>5, <1>6, <1>9, <1>10, <2>1
<1>14. EndOf(q) = newPos + (0 + method.bytes + 1) /\ MergedOK(q, 1)
  <2>1. q # <<>> /\ Last(q) = x
    BY <1>9 DEF Last
  <2>2. EndOf(q) = x.at + x.size
    BY <2>1 DEF EndOf
  <2>3. EndOf(q) = newPos + (0 + method.bytes + 1)
    BY <1>2, <1>5, <1>6, <2>2
  <2>4. newPos = method.bytes + 0 * (method.bytes + 1)
    BY <1>2, <1>11 DEF MergedOK
  <2>5. EndOf(q) = method.bytes + 1 * (method.bytes + 1)
    BY <1>5, <2>3, <2>4
  <2>6. \A l \in 1..Len(q) : q[l].to = <<>> /\ q[l].op \notin Switches
    <3>1. \A l \in 1..Len(out) : out[l].to = <<>> /\ out[l].op \notin Switches
      BY <1>11 DEF MergedOK
    <3>2. "callback" \notin Switches
      BY DEF Switches
    <3> QED BY <1>5, <1>6, <1>9, <1>10, <3>1, <3>2
  <2> QED BY <2>3, <2>5, <2>6 DEF MergedOK
<1>15. CopyOK(q, locals, 1)
  BY <1>11, <1>12, <1>13, <1>14 DEF CopyOK
<1>16. \A l \in DOMAIN q : /\ q[l].of \in 0..Len(code)
                           /\ q[l].op \in Ops \cup {"callback", "keep"}
  <2>1. \A l \in 1..Len(out) : /\ out[l].of \in 0..Len(code)
                               /\ out[l].op \in Ops \cup {"callback", "keep"}
    BY <1>7 DEF IInv, Typed, TypeOK, code
  <2>2. DOMAIN q = 1..Len(q)
    BY <1>9
  <2>3. 0 \in 0..Len(code) /\ next \in 0..Len(code)
    BY <1>2
  <2> QED BY <1>5, <1>6, <1>9, <1>10, <2>1, <2>2, <2>3
<1>17. PreOK(pre', next + 1)
  BY <1>1, <1>2, PreSkip
<1>18. out' = q
  BY <1>4 DEF q
<1>19. newPos' \in Nat /\ newPos' = EndOf(q)
  BY <1>2, <1>4, <1>5, <1>14
<1>20. out' \in Seq(U) /\ newPos' = EndOf(out') /\ CopyOK(out', locals', next)
  BY <1>2, <1>4, <1>9, <1>15, <1>18, <1>19
<1>21. \A l \in DOMAIN out' : /\ out'[l].of \in 0..Len(code)
                             /\ out'[l].op \in Ops \cup {"callback", "keep"}
  BY <1>16, <1>18
<1> QED BY <1>1, <1>2, <1>4, <1>17, <1>19, <1>20, <1>21, CopyStep

LEMMA CopyExitStep == IInv /\ CopyExit => IInv'
BY CopyExitApart, CopyExitMerged

LEMMA CopiedAllStep == IInv /\ CopiedAll => IInv'
<1> SUFFICES ASSUME IInv, CopiedAll PROVE IInv'
  OBVIOUS
<1>1. /\ phase = "copy" /\ ~More /\ phase' = "done"
      /\ method' = method /\ next' = next /\ newPos' = newPos /\ pre' = pre /\ changes' = changes
      /\ added' = added /\ locals' = locals /\ out' = out
  BY DEF CopiedAll
<1>2. next - 1 = Len(code)
  <2>1. Len(code) \in Nat \ {0} /\ next \in 1..Len(code) + 1 /\ next \notin Numbers
    BY <1>1, Facts
  <2> QED BY <2>1 DEF Numbers
<1>3. ChangesOK(changes, Len(code)) /\ (added <=> Kept(Len(code))) /\ CopyOK(out, locals, Len(code))
  BY <1>1, <1>2 DEF IInv
<1>4. /\ code' = code
      /\ \A i : Kept(i)' <=> Kept(i)
      /\ \A f, i : ChangesOK(f, i)' <=> ChangesOK(f, i)
      /\ \A o, max, i : CopyOK(o, max, i)' <=> CopyOK(o, max, i)
  BY <1>1, SameMethod, SameMap
<1>5. Typed'
  BY <1>1 DEF IInv, Typed, TypeOK, End
<1> QED BY <1>1, <1>3, <1>4, <1>5 DEF IInv

\* The code as it is, s, behind the call at the entry.
RawItems(s) ==
  /\ Len(s) = Len(code)
  /\ \A i \in Numbers :
       /\ s[i].op = code[i].op /\ s[i].of = i /\ s[i].at = EntryBytes + S(i)
       /\ s[i].size = S(i + 1) - S(i)
       /\ DOMAIN s[i].to = DOMAIN code[i].to
       /\ \A b \in DOMAIN s[i].to : s[i].to[b] = S(code[i].to[b]) - S(i)

LEMMA RawCopyOK ==
  ASSUME method \in Methods, ChangesOK(changes, Len(code)), ~AtExits, ~Has(Switches),
         NEW T, EntryOut \in Seq(T), NEW s \in Seq(T), RawItems(s)
  PROVE  CopyOK(EntryOut \o s, method.locals, Len(code))
<1> DEFINE q == EntryOut \o s
           e == Len(EntryOut)
           z == Len(code)
<1>1. /\ z \in Nat \ {0} /\ Len(s) = z /\ z \in 0..z /\ DOMAIN code = 1..z /\ method.locals \in Nat
  BY MethodIs DEF RawItems, Numbers
<1>2. /\ e \in {0, 1} /\ (Entry # {} => e = 1)
      /\ \A k \in 1..e : /\ EntryOut[k].of = 0 /\ EntryOut[k].op = "callback" /\ EntryOut[k].at = 0
                         /\ EntryOut[k].size = method.bytes /\ EntryOut[k].to = <<>>
  BY EntryOutIs
<1>3. /\ Len(q) = e + z
      /\ \A k \in 1..e : q[k] = EntryOut[k]
      /\ \A i \in 1..z : q[e + i] = s[i]
      /\ \A k \in 1..e + z : k \notin 1..e => k - e \in 1..z /\ q[k] = s[k - e]
  <2>1. /\ Len(q) = e + Len(s)
        /\ \A k \in 1..e : q[k] = EntryOut[k]
        /\ \A i \in 1..Len(s) : q[e + i] = s[i]
        /\ \A k \in 1..e + Len(s) : k \notin 1..e => k - e \in 1..Len(s) /\ q[k] = s[k - e]
    BY Joined
  <2> HIDE DEF q, e
  <2> QED BY <1>1, <2>1
<1> HIDE DEF q
<1>4. \A i : ~ExitAt(i) /\ (i \in 1..z => ~SwitchAt(i) /\ ~Marked(i))
  BY <1>1 DEF ExitAt, SwitchAt, Marked, Has, code
<1>5. ~Merged /\ DOMAIN changes = Entry
  <2>1. {j \in 1..z : Marked(j)} = {}
    BY <1>4
  <2> QED BY <1>4, <2>1 DEF Merged, ChangesOK
<1>6. \A i : Shift(changes, i) = EntryBytes
  <2>1. \A i : Ahead(changes, i) = Entry
    BY <1>5 DEF Ahead
  <2>2. Shift(changes, 1) = EntryBytes
    BY <1>1, <1>5, Shifts
  <2> QED BY <2>1, <2>2 DEF Shift
<1>7. EntryBytes \in Nat /\ \A i \in 1..z + 1 : S(i) \in Nat
  BY EntryEnds, Positions DEF Past
<1>8. \A i \in 1..z : NewPlace(i) = EntryBytes + S(i) /\ NewSize(i) = S(i + 1) - S(i)
  <2> SUFFICES ASSUME NEW i \in 1..z
               PROVE  NewPlace(i) = EntryBytes + S(i) /\ NewSize(i) = S(i + 1) - S(i)
    OBVIOUS
  <2>1. NewPlace(i) = S(i) + EntryBytes + 0 /\ NewSize(i) = S(i + 1) - S(i) + 0
    BY <1>4, <1>6 DEF NewPlace, NewSize
  <2>2. S(i) \in Nat /\ S(i + 1) \in Nat
    BY <1>1, <1>7
  <2> QED BY <1>7, <2>1, <2>2
<1>9. \A i \in 1..z : Target(i) = NewPlace(i)
  <2> SUFFICES ASSUME NEW i \in 1..z PROVE Target(i) = NewPlace(i)
    OBVIOUS
  <2>1. DOMAIN changes \subseteq Nat /\ S(i) \in Int
    BY <1>1, <1>5, <1>7 DEF Entry
  <2>2. Target(i) = PosBehind(S(i))
    BY <2>1, PosAtExits DEF Target
  <2>3. PosBehind(S(i)) = NewPlace(i)
    BY <1>1, <1>5, CodePos
  <2> QED BY <2>2, <2>3
<1>10. \A k \in 1..e : q[k].of = 0 /\ q[k].op = "callback" /\ q[k].at = 0 /\ q[k].to = <<>>
  BY <1>2, <1>3
<1>11. \A k \in 1..e + z : k \notin 1..e => k - e \in 1..z /\ q[k].of = k - e /\ q[k].op \in Ops
  <2> SUFFICES ASSUME NEW k \in 1..e + z, k \notin 1..e
               PROVE  k - e \in 1..z /\ q[k].of = k - e /\ q[k].op \in Ops
    OBVIOUS
  <2>1. k - e \in Numbers /\ q[k] = s[k - e]
    BY <1>3 DEF Numbers
  <2>2. s[k - e].of = k - e /\ s[k - e].op = code[k - e].op /\ code[k - e].op \in Ops
    BY <2>1, MethodIs DEF RawItems
  <2> QED BY <2>1, <2>2 DEF Numbers
<1>12. ASSUME NEW i \in 1..z PROVE ItemOK(q, e + i, i)
  <2>1. /\ q[e + i] = s[i] /\ i \in Numbers
        /\ s[i].op = code[i].op /\ s[i].at = NewPlace(i) /\ s[i].size = NewSize(i)
        /\ DOMAIN s[i].to = DOMAIN code[i].to
        /\ \A b \in DOMAIN s[i].to : s[i].to[b] = S(code[i].to[b]) - S(i)
    BY <1>3, <1>8 DEF RawItems, Numbers
  <2>2. ASSUME NEW b \in DOMAIN s[i].to
        PROVE  s[i].to[b] = Target(code[i].to[b]) - NewPlace(i)
    <3>1. code[i].to[b] \in 1..z
      BY <2>1, <2>2, MethodIs, SMTT(30) DEF Numbers
    <3>2. Target(code[i].to[b]) = EntryBytes + S(code[i].to[b]) /\ NewPlace(i) = EntryBytes + S(i)
      BY <1>8, <1>9, <3>1
    <3>3. S(code[i].to[b]) \in Nat /\ S(i) \in Nat
      BY <1>1, <1>7, <3>1
    <3> QED BY <1>7, <2>1, <2>2, <3>2, <3>3
  <2>3. LeadsTo(q, e + i, e + i, i)
    <3>1. e + i..(e + i) - 1 = {}
      BY <1>2
    <3> QED BY <1>4, <1>9, <2>1, <3>1 DEF LeadsTo
  <2>4. e + i \in 1..e + i
    BY <1>2
  <2>5. Apart(q, e + i, i)
    <3> SUFFICES ASSUME NEW l \in 1..e + i, \A h \in l..(e + i) - 1 : q[h].of = 0, i # 1
                 PROVE  q[l].at >= Group(i)
      BY DEF Apart
    <3>1. l = e + i
      <4> SUFFICES ASSUME l # e + i PROVE FALSE
        OBVIOUS
      <4>1. i - 1 \in 1..z /\ e + (i - 1) \in l..(e + i) - 1
        BY <1>1, <1>2
      <4>2. q[e + (i - 1)].of = 0 /\ q[e + (i - 1)] = s[i - 1]
        BY <1>3, <4>1
      <4>3. s[i - 1].of = i - 1
        BY <4>1 DEF RawItems, Numbers
      <4> QED BY <4>1, <4>2, <4>3
    <3>2. q[l].at = EntryBytes + S(i)
      BY <1>8, <2>1, <3>1
    <3>3. Group(i) = S(i) + EntryBytes
      BY <1>6 DEF Group
    <3>4. S(i) \in Nat
      BY <1>1, <1>7
    <3> QED BY <1>7, <3>2, <3>3, <3>4
  <2> QED BY <2>1, <2>2, <2>3, <2>4, <2>5 DEF ItemOK
<1>13. OutOK(q, z)
  <2>1. \A k \in 1..Len(q) : q[k].of \in 0..z
    <3> SUFFICES ASSUME NEW k \in 1..e + z PROVE q[k].of \in 0..z
      BY <1>3
    <3>1. k \in 1..e => q[k].of = 0
      BY <1>10
    <3>2. k \notin 1..e => q[k].of \in 1..z
      BY <1>11
    <3> QED BY <1>1, <3>1, <3>2
  <2>2. \A i \in 1..z : \E k \in 1..Len(q) : q[k].of = i
    <3> SUFFICES ASSUME NEW i \in 1..z PROVE \E k \in 1..Len(q) : q[k].of = i
      OBVIOUS
    <3>1. e + i \in 1..Len(q) /\ e + i \notin 1..e /\ (e + i) - e = i
      BY <1>1, <1>2, <1>3
    <3>2. q[e + i].of = i
      BY <1>3, <1>11, <3>1
    <3> QED BY <3>1, <3>2
  <2>3. \A k, l \in 1..Len(q) : q[k].of = q[l].of /\ q[k].of # 0 => k = l
    <3> SUFFICES ASSUME NEW k \in 1..e + z, NEW l \in 1..e + z, q[k].of = q[l].of, q[k].of # 0
                 PROVE  k = l
      BY <1>3
    <3>1. k \notin 1..e /\ l \notin 1..e
      BY <1>10
    <3>2. k - e = l - e
      BY <1>11, <3>1
    <3> QED BY <1>2, <3>2
  <2>4. ASSUME NEW k \in 1..Len(q)
        PROVE  IF q[k].of = 0 THEN q[k].op \in {"callback", "keep"} /\ q[k].to = <<>>
             ELSE ItemOK(q, k, q[k].of)
    <3>1. CASE k \in 1..e
      BY <1>10, <3>1
    <3>2. CASE k \notin 1..e
      <4>1. k - e \in 1..z /\ q[k].of = k - e /\ e + (k - e) = k
        BY <1>2, <1>3, <1>11, <3>2
      <4>2. ItemOK(q, e + (k - e), k - e)
        BY <1>12, <4>1
      <4> QED BY <4>1, <4>2
    <3> QED BY <3>1, <3>2
  <2>5. Entry # {} => Len(q) # 0 /\ q[1].at = 0
    <3>1. Entry # {} => 1 \in 1..e
      <4>1. Entry # {} => e = 1
        BY <1>2, Zenon
      <4> HIDE DEF e
      <4> QED BY <4>1
    <3>2. Len(q) # 0
      BY <1>1, <1>2, <1>3
    <3> QED BY <1>10, <3>1, <3>2
  <2>6. Len(q) # 0 /\ q[Len(q)].of = z
    <3>1. e + z \in 1..e + z /\ e + z \notin 1..e /\ (e + z) - e = z /\ Len(q) = e + z
      BY <1>1, <1>2, <1>3
    <3> QED BY <1>1, <1>2, <1>11, <3>1
  <2> QED BY <2>1, <2>2, <2>3, <2>4, <2>5, <2>6 DEF OutOK
<1>14. EndOf(q) = S(z + 1) + Shift(changes, z + 1)
  <2>1. z \in 1..z /\ z \in Numbers /\ q[e + z] = s[z] /\ q # <<>> /\ Last(q) = q[e + z]
    BY <1>1, <1>2, <1>3 DEF Numbers, Last
  <2>2. EndOf(q) = (EntryBytes + S(z)) + (S(z + 1) - S(z))
    BY <2>1 DEF EndOf, RawItems
  <2>3. S(z) \in Nat /\ S(z + 1) \in Nat
    BY <1>1, <1>7
  <2> QED BY <1>6, <1>7, <2>2, <2>3
<1>15. ~Kept(z)
  BY DEF Kept
<1>16. ~\E k \in 1..Len(q) : q[k].op = "keep"
  BY <1>3, <1>10, <1>11 DEF Ops, Branches, Switches, Exits
<1>17. method.locals = method.locals + IF Kept(z) THEN Slots ELSE 0
  BY <1>1, <1>15
<1>18. CopyOK(q, method.locals, z)
  BY <1>5, <1>13, <1>14, <1>15, <1>16, <1>17 DEF CopyOK
<1> QED BY <1>18 DEF q

LEMMA CopyRawStep == IInv /\ CopyRaw => IInv'
<1> SUFFICES ASSUME IInv, CopyRaw PROVE IInv'
  OBVIOUS
<1> DEFINE s == [i \in DOMAIN method.code |->
                   Item(method.code[i].op, i, Written + Starts(method)[i],
                        Starts(method)[i + 1] - Starts(method)[i],
                        [b \in DOMAIN method.code[i].to |->
                           Starts(method)[method.code[i].to[b]] - Starts(method)[i]])]
           U == {s[i] : i \in Numbers} \cup {Callback(0)}
<1>1. /\ phase = "raw" /\ phase' = "done" /\ next' = Len(code) + 1 /\ out' = out \o s
      /\ method' = method /\ newPos' = newPos /\ pre' = pre /\ changes' = changes
      /\ added' = added /\ locals' = locals
  BY DEF CopyRaw, code
<1>2. /\ method \in Methods /\ Len(code) \in Nat \ {0} /\ DOMAIN code = Numbers
      /\ \A i \in Numbers : code[i].op \in Ops
  <2>1. method \in Methods
    BY Facts
  <2> QED BY <2>1, MethodIs
<1>3. /\ ChangesOK(changes, Len(code)) /\ (added <=> Kept(Len(code))) /\ NotYet /\ ~Found /\ TypeOK
  BY <1>1 DEF IInv, Typed
<1>4. /\ \A i : Kept(i)' <=> Kept(i)
      /\ \A f, i : ChangesOK(f, i)' <=> ChangesOK(f, i)
      /\ \A o, max, i : CopyOK(o, max, i)' <=> CopyOK(o, max, i)
      /\ code' = code
  BY <1>1, SameMethod, SameMap
<1>5. Written = EntryBytes /\ EntryBytes \in Nat /\ out = EntryOut
  BY <1>2, <1>3, EntryEnds DEF NotYet, Written, EndOf
<1>6. \A i \in Numbers :
        s[i] = Item(code[i].op, i, EntryBytes + S(i), S(i + 1) - S(i),
                    [b \in DOMAIN code[i].to |-> S(code[i].to[b]) - S(i)])
  BY <1>2, <1>5 DEF code, S
<1>7. s = [i \in 1..Len(code) |-> s[i]]
  BY <1>2 DEF code, Numbers
<1> HIDE DEF s
<1>8. s \in Seq(U) /\ Len(s) = Len(code) /\ DOMAIN s = Numbers
  BY <1>2, <1>7 DEF Numbers
<1>9. RawItems(s)
  BY <1>6, <1>8 DEF RawItems, Item
<1>10. EntryOut \in Seq(U)
  BY EntryOutIs
<1>11. EntryOut \o s \in Seq(U)
  BY <1>8, <1>10
<1>12. TypeOK'
  <2>1. next' \in 1..Len(code) + 1 /\ Len(method.code) = Len(code)
    BY <1>1, <1>2 DEF code
  <2>2. \A k \in DOMAIN out' : /\ out'[k].of \in 0..Len(code)
                               /\ out'[k].op \in Ops \cup {"callback", "keep"}
    <3>1. \A u \in U : u.of \in 0..Len(code) /\ u.op \in Ops \cup {"callback", "keep"}
      <4>1. \A i \in Numbers : s[i].of \in 0..Len(code) /\ s[i].op \in Ops
        BY <1>2, <1>9 DEF RawItems, Numbers
      <4>2. Callback(0).of = 0 /\ Callback(0).op = "callback"
        BY DEF Callback, Item
      <4> QED BY <1>2, <4>1, <4>2
    <3>2. \A k \in DOMAIN out' : out'[k] \in U
      <4> HIDE DEF U
      <4> QED BY <1>1, <1>5, <1>11
    <3> QED BY <3>1, <3>2
  <2> QED BY <1>1, <1>3, <2>1, <2>2 DEF TypeOK, End
<1>13. Typed'
  <2>1. out' \in Seq(U)
    BY <1>1, <1>5, <1>11
  <2> HIDE DEF U
  <2> QED BY <1>1, <1>2, <1>12, <2>1 DEF Typed
<1>14. (ChangesOK(changes, Len(code)) /\ (added <=> Kept(Len(code))))'
  BY <1>1, <1>3, <1>4
<1>15. ~Endless => CopyOK(out', locals', Len(code))
  <2> SUFFICES ASSUME ~Endless PROVE CopyOK(EntryOut \o s, method.locals, Len(code))
    BY <1>1, <1>3, <1>5 DEF NotYet
  <2>1. ~AtExits /\ ~Has(Switches)
    BY <1>3 DEF Endless, Found
  <2> HIDE DEF U
  <2> QED BY <1>2, <1>3, <1>8, <1>9, <1>10, <2>1, RawCopyOK
<1>16. Endless' <=> Endless
  BY <1>1 DEF Endless, AtExits, Has
<1>17. (~Endless => CopyOK(out, locals, Len(code)))'
  BY <1>1, <1>4, <1>15, <1>16
<1> QED BY <1>1, <1>13, <1>14, <1>17 DEF IInv

LEMMA InitOK == Init => IInv
<1> SUFFICES ASSUME Init PROVE IInv
  OBVIOUS
<1>1. /\ method \in Methods /\ Len(code) \in Nat \ {0} /\ method.locals \in Nat
  BY MethodIs DEF Init
<1>2. /\ DOMAIN changes = {} /\ DOMAIN out = {} /\ out \in Seq({})
  BY DEF Init
<1>3. TypeOK
  <2>1. /\ phase = "enter" /\ next = 1 /\ newPos = 0 /\ pre = "none" /\ added = FALSE
        /\ locals = method.locals /\ Len(method.code) \in Nat \ {0}
    BY <1>1 DEF Init, code
  <2>2. next \in 1..Len(method.code) + 1
    BY <2>1
  <2> QED BY <1>1, <1>2, <2>1, <2>2 DEF TypeOK
<1>4. Typed
  BY <1>1, <1>2, <1>3 DEF Typed
<1> QED BY <1>4 DEF Init, IInv

LEMMA StutterOK == IInv /\ UNCHANGED vars => IInv'
<1> SUFFICES ASSUME IInv, UNCHANGED vars PROVE IInv'
  OBVIOUS
<1>1. /\ method' = method /\ phase' = phase /\ next' = next /\ newPos' = newPos /\ pre' = pre
      /\ changes' = changes /\ added' = added /\ locals' = locals /\ out' = out
  BY DEF vars
<1>2. /\ code' = code /\ EntryOut' = EntryOut /\ EntryBytes' = EntryBytes
      /\ \A i : Kept(i)' <=> Kept(i)
      /\ \A f, i : ChangesOK(f, i)' <=> ChangesOK(f, i)
      /\ \A p, i : PreOK(p, i)' <=> PreOK(p, i)
      /\ \A o, max, i : CopyOK(o, max, i)' <=> CopyOK(o, max, i)
  BY <1>1, SameMethod, SameMap
<1>3. Typed'
  BY <1>1 DEF IInv, Typed, TypeOK, End
<1>4. /\ NotYet' <=> NotYet
      /\ Found' <=> Found
      /\ Endless' <=> Endless
      /\ Written' = Written
  BY <1>1, <1>2 DEF NotYet, Found, Endless, AtExits, Has, Written
<1> QED BY <1>1, <1>2, <1>3, <1>4 DEF IInv

\* The invariant: in the first pass the map is right for the instructions that
\* were looked at, in the second one the new code is right for those that were
\* copied, and what is written is longer than what was read by what the map
\* says (ClassFile::insertByteCodeToClass and the functions it calls).
THEOREM IInvHolds == Spec => []IInv
<1>1. ASSUME IInv, [Next]_vars PROVE IInv'
  <2>1. CASE Enter
    BY <1>1, <2>1, EnterStep
  <2>2. CASE FindExit
    BY <1>1, <2>2, FindExitStep
  <2>3. CASE FindSwitch
    BY <1>1, <2>3, FindSwitchStep
  <2>4. CASE Misread
    BY <1>1, <2>4, MisreadStep
  <2>5. CASE FindOther
    BY <1>1, <2>5, FindOtherStep
  <2>6. CASE FoundAll
    BY <1>1, <2>6, FoundAllStep
  <2>7. CASE CopyJump
    BY <1>1, <2>7, CopyJumpStep
  <2>8. CASE CopySwitch
    BY <1>1, <2>8, CopySwitchStep
  <2>9. CASE CopyExit
    BY <1>1, <2>9, CopyExitStep
  <2>10. CASE CopyOther
    BY <1>1, <2>10, CopyOtherStep
  <2>11. CASE CopiedAll
    BY <1>1, <2>11, CopiedAllStep
  <2>12. CASE CopyRaw
    BY <1>1, <2>12, CopyRawStep
  <2>13. CASE UNCHANGED vars
    BY <1>1, <2>13, StutterOK
  <2> QED BY <1>1, <2>1, <2>2, <2>3, <2>4, <2>5, <2>6, <2>7, <2>8, <2>9, <2>10, <2>11,
             <2>12, <2>13 DEF Next
<1> QED BY InitOK, <1>1, PTL DEF Spec

\* Every variable keeps its type: the map notes positions of the code only, and
\* every item of the new code is an instruction of the old one or inserted.
THEOREM TypesHold == Spec => []TypeOK
<1>1. IInv => TypeOK
  BY DEF IInv, Typed
<1> QED BY IInvHolds, <1>1, PTL

-----------------------------------------------------------------------------
(* What follows *)

\* The two passes agree about where the instructions stand (PassesAgree).
THEOREM PassesAgreeHolds == Spec => []PassesAgree
<1>1. ASSUME IInv, phase = "copy", next > 1, More
      PROVE  newPos = getCodePosAfterInsertCallbacks(nPos, TRUE)
  <2>1. /\ method \in Methods /\ next \in 1..Len(code) /\ nPos = S(next) /\ nPos \in Nat
        /\ ChangesOK(changes, Len(code))
        /\ (~Merged => newPos = Group(next)) /\ (Merged => next = 1)
    BY <1>1, CopyFacts
  <2>2. ~Merged /\ newPos = Group(next) /\ next # 1
    BY <1>1, <2>1
  <2>3. Len(code) \in 0..Len(code) /\ next \in 1..Len(code) + 1
    BY <2>1, MethodIs
  <2>4. DOMAIN changes \subseteq Nat
    <3>1. DOMAIN changes \subseteq 0..S(Past)
      BY <2>1, <2>3, MapInCode
    <3> QED BY <3>1
  <2>5. PosAhead(S(next)) = Group(next)
    <3>1. PosAhead(S(next)) = IF next = 1 THEN 0 ELSE Group(next)
      BY <2>1, <2>2, <2>3, CodePos
    <3> QED BY <2>2, <3>1
  <2>6. getCodePosAfterInsertCallbacks(nPos, TRUE) = PosAhead(nPos)
    <3>1. nPos \in Int
      BY <2>1
    <3> QED BY <2>4, <3>1, PosIs, Zenon
  <2> QED BY <2>1, <2>2, <2>5, <2>6
<1>2. IInv => PassesAgree
  BY <1>1 DEF IInv, PassesAgree
<1> QED BY IInvHolds, <1>2, PTL

LEMMA DoneFacts ==
  ASSUME IInv, Rewritten
  PROVE  /\ method \in Methods /\ Len(code) \in Nat \ {0} /\ Len(code) \in 0..Len(code)
         /\ DOMAIN code = Numbers /\ ChangesOK(changes, Len(code)) /\ DOMAIN changes \subseteq Nat
         /\ CopyOK(out, locals, Len(code)) /\ (added <=> Kept(Len(code))) /\ added \in BOOLEAN
         /\ Written = EndOf(out) /\ DOMAIN out = 1..Len(out) /\ Len(out) \in Nat
         /\ ~Merged => OutOK(out, Len(code)) /\ Written = Group(Past)
         /\ Merged => MergedOK(out, Len(code))
<1>1. /\ method \in Methods /\ Len(code) \in Nat \ {0} /\ Len(code) \in 0..Len(code)
      /\ S(Past) \in Nat
  BY Facts
<1>2. /\ ChangesOK(changes, Len(code)) /\ CopyOK(out, locals, Len(code))
      /\ (added <=> Kept(Len(code))) /\ added \in BOOLEAN
  BY DEF IInv, Rewritten, Typed, TypeOK
<1>3. DOMAIN changes \subseteq 0..S(Past)
  BY <1>1, <1>2, MapInCode
<1>4. DOMAIN out = 1..Len(out) /\ Len(out) \in Nat
  <2>1. PICK T : out \in Seq(T)
    BY DEF IInv, Typed
  <2> QED BY <2>1
<1>5. Written = EndOf(out)
  BY DEF Written, EndOf
<1>6. ~Merged => OutOK(out, Len(code)) /\ Written = Group(Past)
  BY <1>2, <1>5 DEF CopyOK, Group, Past
<1>7. Merged => MergedOK(out, Len(code))
  BY <1>2 DEF CopyOK
<1>8. DOMAIN code = Numbers /\ DOMAIN changes \subseteq Nat
  BY <1>1, <1>3, MethodIs
<1> QED BY <1>1, <1>2, <1>4, <1>5, <1>6, <1>7, <1>8

\* A local variable is used if, and only if, the method was given one more
\* (LocalsAgree).
THEOREM LocalsAgreeHolds == Spec => []LocalsAgree
<1>1. ASSUME IInv, Rewritten
      PROVE  /\ added = (locals > method.locals)
             /\ added = (\E k \in DOMAIN out : out[k].op = "keep")
  <2>1. /\ added \in BOOLEAN /\ (added <=> Kept(Len(code))) /\ DOMAIN out = 1..Len(out)
        /\ locals = method.locals + IF Kept(Len(code)) THEN Slots ELSE 0
        /\ Kept(Len(code)) <=> \E k \in 1..Len(out) : out[k].op = "keep"
    BY <1>1, DoneFacts DEF CopyOK
  <2>2. method.locals \in Nat /\ Slots \in {1, 2}
    BY <1>1, DoneFacts, MethodIs DEF Slots
  <2>3. added <=> locals > method.locals
    BY <2>1, <2>2
  <2>4. added <=> \E k \in DOMAIN out : out[k].op = "keep"
    BY <2>1
  <2>5. added = (locals > method.locals)
    <3> DEFINE more == locals > method.locals
    <3>1. more \in BOOLEAN /\ added \in BOOLEAN /\ (added <=> more)
      BY <2>1, <2>3
    <3> HIDE DEF more
    <3>2. added = more
      BY <3>1, Zenon
    <3> QED BY <3>2 DEF more
  <2>6. added = (\E k \in DOMAIN out : out[k].op = "keep")
    BY <2>1, <2>4, Zenon
  <2> QED BY <2>5, <2>6, Zenon
<1>2. IInv => LocalsAgree
  BY <1>1 DEF LocalsAgree
<1> QED BY IInvHolds, <1>2, PTL

LEMMA PlaceIs ==
  ASSUME IInv, Rewritten, ~Merged, NEW i \in Numbers
  PROVE  /\ Place(i) \in 1..Len(out) /\ out[Place(i)].of = i
         /\ ItemOK(out, Place(i), i)
<1>1. OutOK(out, Len(code)) /\ DOMAIN out = 1..Len(out)
  BY DoneFacts
<1>2. \E k \in DOMAIN out : out[k].of = i
  BY <1>1 DEF OutOK, Numbers
<1>3. Place(i) \in DOMAIN out /\ out[Place(i)].of = i
  BY <1>2 DEF Place
<1>4. i # 0
  BY DEF Numbers
<1> QED BY <1>1, <1>3, <1>4 DEF OutOK

\* A branch in the new code.
LEMMA BranchLeads ==
  ASSUME IInv, Rewritten, ~Merged, NEW k \in 1..Len(out), NEW b \in DOMAIN out[k].to,
         out[k].of # 0
  PROVE  LET t == code[out[k].of].to[b]
         IN  t \in Numbers /\ out[k].at + out[k].to[b] = Target(t) /\ Target(t) \in Int
<1> DEFINE i == out[k].of
           t == code[i].to[b]
<1>1. /\ method \in Methods /\ Len(code) \in Nat \ {0} /\ Len(code) \in 0..Len(code)
      /\ DOMAIN changes \subseteq Nat /\ ChangesOK(changes, Len(code))
      /\ OutOK(out, Len(code))
  BY DoneFacts
<1>2. i \in Numbers /\ ItemOK(out, k, i)
  <2>1. i \in 0..Len(code) /\ ItemOK(out, k, i)
    BY <1>1 DEF OutOK
  <2> QED BY <1>1, <2>1 DEF Numbers
<1>3. /\ out[k].at = NewPlace(i) /\ out[k].to[b] = Target(t) - NewPlace(i)
      /\ b \in DOMAIN code[i].to
  BY <1>2 DEF ItemOK
<1>4. t \in Numbers
  BY <1>1, <1>2, <1>3, MethodIs
<1>5. Target(t) \in Int /\ NewPlace(i) \in Int
  <2>1. i \in 1..Len(code) /\ t \in 1..Len(code) /\ t \in 1..Len(code) + 1 /\ t \in 1..Past
    BY <1>1, <1>2, <1>4 DEF Numbers, Past
  <2>2. NewPlace(i) \in Int /\ NewPlace(t) \in Int
    BY <1>1, <2>1, GroupIs
  <2>3. PosAhead(S(t)) = (IF t = 1 THEN 0 ELSE Group(t)) /\ PosBehind(S(t)) = NewPlace(t) /\ Group(t) \in Int
    BY <1>1, <2>1, CodePos
  <2>4. S(t) \in Int
    BY <1>1, <2>1, Positions
  <2>5. Target(t) = IF AtExits THEN PosAhead(S(t)) ELSE PosBehind(S(t))
    BY <1>1, <2>4, PosAtExits DEF Target
  <2> QED BY <2>2, <2>3, <2>5
<1> HIDE DEF t
<1>6. out[k].at + out[k].to[b] = Target(t)
  BY <1>3, <1>5
<1> QED BY <1>4, <1>5, <1>6 DEF t

\* The empty method: one byte, one entry of the map.
LEMMA MergedIs ==
  ASSUME method \in Methods, ChangesOK(changes, Len(code)), Merged
  PROVE  /\ Len(code) = 1 /\ End = 1 /\ method.where = 0 /\ DOMAIN changes = {0}
         /\ changes[0] = method.bytes
<1>1. Entry # {} /\ ExitAt(1) /\ AtExits
  BY DEF Merged, ExitAt
<1>2. Entry = {0} /\ method.where = 0
  BY <1>1, MethodIs DEF Entry, AtExits
<1>3. Len(code) = 1
  BY <1>1, MethodIs DEF ExitAt, Compiled
<1>4. S(1) = 0 /\ 1 \in Numbers
  BY <1>3, Positions DEF Numbers
<1>5. End = 1
  <2>1. S(1 + 1) = S(1) + Size(code[1], S(1))
    BY <1>4, Positions
  <2>2. Size(code[1], S(1)) = 1
    <3>1. S(1) \in Nat /\ code[1].op \in Exits
      BY <1>1, <1>4 DEF ExitAt
    <3> QED BY <1>4, <3>1, Sizes
  <2>3. S(1 + 1) = 1
    BY <1>4, <2>1, <2>2
  <2> QED BY <1>3, <2>3 DEF End, S, code
<1>6. DOMAIN changes = {0}
  <2>1. Spot(1) = 0
    BY <1>1, <1>4 DEF Spot
  <2>2. {j \in 1..1 : Marked(j)} = {1}
    BY <1>1 DEF Marked
  <2> QED BY <1>2, <1>3, <2>1, <2>2 DEF ChangesOK
<1> QED BY <1>1, <1>2, <1>3, <1>5, <1>6 DEF ChangesOK

\* Once something is inserted, the code has grown by four bytes at least: the
\* padding of a switch makes the growth a multiple of four.
LEMMA GrownByFour ==
  ASSUME method \in Methods, ChangesOK(changes, Len(code)), ~Merged, NEW t \in 1..Past
  PROVE  IF Entry # {} \/ \E i \in 1..t - 1 : ExitAt(i) THEN Shift(changes, t) >= 4
                                                        ELSE Shift(changes, t) = 0
<1> DEFINE z == Len(code)
           sh(i) == Shift(changes, i)
<1>1. z \in Nat \ {0} /\ z \in 0..z /\ method.bytes \in {5, 6}
  BY MethodIs
<1>2. /\ sh(1) = EntryBytes /\ EntryBytes \in Nat
      /\ \A i \in 1..z + 1 : sh(i) \in Int /\ S(i) \in Nat
      /\ \A i \in 1..z : sh(i + 1) = sh(i) + Growth(changes, i) /\ Growth(changes, i) \in Int
  BY <1>1, Shifts, Positions DEF Past
<1> HIDE DEF sh
<1>3. \A i \in 1..z : ExitAt(i) => Growth(changes, i) >= 5
  <2> SUFFICES ASSUME NEW i \in 1..z, ExitAt(i) PROVE Growth(changes, i) >= 5
    OBVIOUS
  <2>1. KeptBytes(i) \in Nat
    BY DEF KeptBytes, LocalBytes
  <2>2. Growth(changes, i) = method.bytes + KeptBytes(i)
    BY DEF Growth
  <2> QED BY <1>1, <2>1, <2>2
<1>4. ASSUME NEW i \in 1..z, ~ExitAt(i), sh(i) = 0 \/ sh(i) >= 4
      PROVE  (sh(i) = 0 => sh(i + 1) = 0) /\ (sh(i) >= 4 => sh(i + 1) >= 4)
  <2>1. sh(i) \in Int /\ S(i) \in Nat /\ i + 1 \in 1..z + 1
    BY <1>1, <1>2
  <2>2. CASE ~SwitchAt(i)
    <3>1. Growth(changes, i) = 0
      BY <1>4, <2>2 DEF Growth
    <3> QED BY <1>2, <2>1, <3>1
  <2>3. CASE SwitchAt(i)
    <3> DEFINE p == S(i) + 1
    <3>1. Growth(changes, i) = Padding(p + sh(i)) - Padding(p)
      BY <1>4, <2>3 DEF Growth, sh
    <3>2. p \in Int /\ p + sh(i) \in Int /\ p + 0 = p
      BY <2>1
    <3>3. sh(i + 1) = sh(i) + (Padding(p + sh(i)) - Padding(p))
      BY <1>2, <3>1
    <3>4. CASE sh(i) = 0
      <4>1. Padding(p + sh(i)) = Padding(p) /\ Padding(p) \in 0..3
        BY <3>2, <3>4, PaddingType
      <4> QED BY <3>3, <3>4, <4>1
    <3>5. CASE sh(i) >= 4
      <4>1. /\ (p + sh(i) + Padding(p + sh(i))) % 4 = 0 /\ (p + Padding(p)) % 4 = 0
        BY <3>2, PaddingAligns
      <4>2. Padding(p + sh(i)) \in 0..3 /\ Padding(p) \in 0..3
        BY <3>2, PaddingType
      <4>3. \A a, b, c, h \in Int : (a + h + b) % 4 = 0 /\ (a + c) % 4 = 0 => (h + (b - c)) % 4 = 0
        OBVIOUS
      <4>4. sh(i + 1) % 4 = 0
        <5> DEFINE b == Padding(p + sh(i))
                   c == Padding(p)
        <5>1. b \in 0..3 /\ c \in 0..3
          BY <4>2
        <5>2. (p + sh(i) + b) % 4 = 0 /\ (p + c) % 4 = 0
          BY <4>1
        <5>3. sh(i + 1) = sh(i) + (b - c)
          BY <3>3
        <5> HIDE DEF p, b, c
        <5>4. b \in Int /\ c \in Int /\ p \in Int /\ sh(i) \in Int
          BY <2>1, <3>2, <5>1
        <5>5. (sh(i) + (b - c)) % 4 = 0
          BY <4>3, <5>2, <5>4
        <5> QED BY <5>3, <5>5
      <4>5. sh(i + 1) \in Int /\ sh(i + 1) >= 1
        BY <2>1, <3>3, <3>5, <4>2
      <4> QED BY <3>5, <4>4, <4>5
    <3> QED BY <1>4, <3>4, <3>5
  <2> QED BY <2>2, <2>3
<1>5. ASSUME NEW i \in 1..z, sh(i) = 0 \/ sh(i) >= 4
      PROVE  IF sh(i) >= 4 \/ ExitAt(i) THEN sh(i + 1) >= 4 ELSE sh(i + 1) = 0
  <2>1. CASE ~ExitAt(i)
    BY <1>4, <1>5, <2>1
  <2>2. CASE ExitAt(i)
    <3>1. sh(i) \in Int /\ Growth(changes, i) >= 5 /\ Growth(changes, i) \in Int
          /\ sh(i + 1) = sh(i) + Growth(changes, i)
      BY <1>1, <1>2, <1>3, <2>2
    <3>2. sh(i + 1) >= 4
      BY <1>5, <3>1
    <3> QED BY <2>2, <3>2
  <2> QED BY <2>1, <2>2
<1> DEFINE Grown(k) == Entry # {} \/ \E i \in 1..k : ExitAt(i)
           G == {k \in Nat : IF Grown(k) THEN sh(k + 1) >= 4 ELSE sh(k + 1) = 0}
<1>6. 0 \in G
  BY <1>1, <1>2 DEF EntryBytes
<1>7. ASSUME NEW k \in 0..z - 1, k \in G PROVE k + 1 \in G
  <2>1. k + 1 \in 1..z /\ k + 1 \in Nat
    BY <1>1
  <2>2. Grown(k + 1) <=> Grown(k) \/ ExitAt(k + 1)
    <3>1. \A i \in 1..k + 1 : i \in 1..k \/ i = k + 1
      OBVIOUS
    <3>2. k + 1 \in 1..k + 1 /\ \A i \in 1..k : i \in 1..k + 1
      OBVIOUS
    <3> QED BY <3>1, <3>2
  <2> HIDE DEF Grown
  <2>3. IF Grown(k) THEN sh(k + 1) >= 4 ELSE sh(k + 1) = 0
    BY <1>7
  <2>4. IF sh(k + 1) >= 4 \/ ExitAt(k + 1) THEN sh((k + 1) + 1) >= 4 ELSE sh((k + 1) + 1) = 0
    BY <1>5, <2>1, <2>3
  <2> QED BY <2>1, <2>2, <2>3, <2>4
<1>8. 0..z \subseteq G
  <2> HIDE DEF G
  <2> QED BY <1>1, <1>6, <1>7, CountUp
<1>9. t - 1 \in 0..z /\ (t - 1) + 1 = t
  BY <1>1 DEF Past
<1>10. IF Grown(t - 1) THEN sh(t) >= 4 ELSE sh(t) = 0
  <2> HIDE DEF Grown
  <2> QED BY <1>8, <1>9
<1> QED BY <1>10 DEF sh

\* A branch out of the prefix of a constructor.
LEMMA EscapeLeads ==
  ASSUME IInv, Rewritten, NEW t \in method.escapes \ {1}
  PROVE  Reaches(EscapeTarget(t), t) <=> NothingAhead(t)
<1>1. /\ method \in Methods /\ Len(code) \in Nat \ {0} /\ Len(code) \in 0..Len(code)
      /\ DOMAIN code = Numbers /\ ChangesOK(changes, Len(code)) /\ DOMAIN changes \subseteq Nat
  BY DoneFacts
<1>2. t \in Numbers /\ t \in 1..Len(code) /\ t \in 1..Past /\ t # 1 /\ t \in 1..Len(code) + 1
  <2>1. method.escapes \subseteq DOMAIN code
    BY <1>1, MethodsAssumption DEF code
  <2> QED BY <1>1, <2>1 DEF Numbers, Past
<1>3. ~Merged
  BY <1>1, <1>2, MergedIs
<1>4. Place(t) \in 1..Len(out) /\ ItemOK(out, Place(t), t)
  BY <1>2, <1>3, PlaceIs
<1>5. /\ S(t) \in Nat /\ Shift(changes, t) \in Int /\ Group(t) = S(t) + Shift(changes, t)
      /\ method.instance \in Nat /\ EscapeTarget(t) = S(t) - method.instance
  <2>1. S(t) \in Nat /\ method.instance \in Nat
    BY <1>1, <1>2, Positions, MethodIs
  <2>2. Shift(changes, t) \in Int
    BY <1>1, <1>2, <1>3, Shifts
  <2> QED BY <2>1, <2>2 DEF Group, EscapeTarget, S
<1>6. NothingAhead(t) <=> method.instance = 0 /\ ~(Entry # {} \/ \E i \in 1..t - 1 : ExitAt(i))
  BY DEF NothingAhead, Entry, ExitAt, code
<1>7. IF Entry # {} \/ \E i \in 1..t - 1 : ExitAt(i) THEN Shift(changes, t) >= 4
                                                     ELSE Shift(changes, t) = 0
  BY <1>1, <1>2, <1>3, GrownByFour
<1>8. ASSUME NothingAhead(t) PROVE Reaches(EscapeTarget(t), t)
  <2>1. PICK first \in 1..Place(t) : LeadsTo(out, first, Place(t), t)
    BY <1>4 DEF ItemOK
  <2>2. out[Place(t)].op \in Exits /\ AtExits => ExitAt(t)
    BY <1>4 DEF ItemOK, ExitAt
  <2>3. EscapeTarget(t) = Group(t)
    BY <1>5, <1>6, <1>7, <1>8
  <2>4. Target(t) = Group(t)
    <3>1. /\ PosAhead(S(t)) = Group(t) /\ PosBehind(S(t)) = NewPlace(t)
      BY <1>1, <1>2, <1>3, CodePos
    <3>2. Target(t) = IF AtExits THEN PosAhead(S(t)) ELSE PosBehind(S(t))
      BY <1>1, <1>5, PosAtExits DEF Target
    <3>3. ~AtExits => NewPlace(t) = Group(t)
      BY <1>5 DEF NewPlace, ExitAt
    <3> QED BY <3>1, <3>2, <3>3
  <2> QED BY <2>1, <2>2, <2>3, <2>4 DEF LeadsTo, Reaches
<1>9. ASSUME Reaches(EscapeTarget(t), t) PROVE NothingAhead(t)
  <2>1. PICK k \in 1..Place(t) : /\ out[k].at = EscapeTarget(t)
                                /\ \A l \in k..Place(t) - 1 : out[l].of = 0
    BY <1>9 DEF Reaches
  <2>2. EscapeTarget(t) >= Group(t)
    BY <1>2, <1>4, <2>1 DEF ItemOK, Apart
  <2>3. S(t) - method.instance >= S(t) + Shift(changes, t)
    BY <1>5, <2>2
  <2>4. Shift(changes, t) + method.instance <= 0
    BY <1>5, <2>3
  <2> QED BY <1>5, <1>6, <1>7, <2>4
<1> QED BY <1>8, <1>9

\* Every branch leads to the instruction it led to, over inserted code only, and
\* over the call of Callbacks if that is a monitored exit; a branch out of the
\* prefix, if nothing is inserted ahead of its instruction (BranchesKept).
THEOREM BranchesKeptHolds == Spec => []BranchesKept
<1>1. ASSUME IInv, Rewritten, NEW k \in DOMAIN out, out[k].of # 0, NEW b \in DOMAIN out[k].to
      PROVE  Reaches(out[k].at + out[k].to[b], method.code[out[k].of].to[b])
  <2>1. ~Merged
    <3> SUFFICES ASSUME Merged PROVE FALSE
      OBVIOUS
    <3>1. out[k].to = <<>>
      BY <1>1, DoneFacts DEF MergedOK
    <3> QED BY <1>1, <3>1
  <2> DEFINE t == code[out[k].of].to[b]
             pos == out[k].at + out[k].to[b]
  <2>2. t \in Numbers /\ pos = Target(t)
    <3>1. k \in 1..Len(out)
      BY <1>1, DoneFacts
    <3> QED BY <1>1, <2>1, <3>1, BranchLeads
  <2> HIDE DEF t, pos
  <2>3. Place(t) \in 1..Len(out) /\ ItemOK(out, Place(t), t)
    BY <1>1, <2>1, <2>2, PlaceIs
  <2>4. PICK first \in 1..Place(t) : LeadsTo(out, first, Place(t), t)
    BY <2>3 DEF ItemOK
  <2>5. out[Place(t)].op \in Exits /\ AtExits => ExitAt(t)
    BY <2>3 DEF ItemOK, ExitAt
  <2>6. Reaches(pos, t)
    BY <2>2, <2>4, <2>5 DEF LeadsTo, Reaches
  <2> QED BY <2>6 DEF t, pos, code
<1>2. ASSUME IInv, Rewritten, NEW t \in method.escapes \ {1}
      PROVE  Reaches(EscapeTarget(t), t) <=> NothingAhead(t)
  BY <1>2, EscapeLeads
<1>3. IInv => BranchesKept
  BY <1>1, <1>2 DEF BranchesKept
<1> QED BY IInvHolds, <1>3, PTL

\* A loop to the first instruction of a method that is monitored at its start
\* does not lead to the call at the entry (EntryReportedOnce).
THEOREM EntryReportedOnceHolds == Spec => []EntryReportedOnce
<1>1. ASSUME IInv, Rewritten, method.hooked, method.where = 1,
             NEW k \in DOMAIN out, NEW b \in DOMAIN out[k].to
      PROVE  out[k].at + out[k].to[b] # 0
  <2>1. ~AtExits /\ ~Merged /\ Entry = {0}
    BY <1>1 DEF AtExits, Merged, ExitAt, Entry
  <2>2. /\ method \in Methods /\ Len(code) \in Nat \ {0} /\ Len(code) \in 0..Len(code)
        /\ DOMAIN changes \subseteq Nat /\ ChangesOK(changes, Len(code)) /\ k \in 1..Len(out)
        /\ OutOK(out, Len(code))
    BY <1>1, <2>1, DoneFacts
  <2>3. out[k].of # 0
    <3>1. out[k].of = 0 => out[k].to = <<>>
      BY <2>2 DEF OutOK
    <3> QED BY <1>1, <3>1
  <2> DEFINE t == code[out[k].of].to[b]
  <2>4. t \in Numbers /\ out[k].at + out[k].to[b] = Target(t)
    BY <1>1, <2>1, <2>2, <2>3, BranchLeads
  <2> HIDE DEF t
  <2>5. t \in 1..Len(code) /\ t \in 1..Len(code) + 1 /\ S(t) \in Int
    <3>1. t \in 1..Len(code) /\ t \in 1..Past
      BY <2>2, <2>4 DEF Numbers, Past
    <3> QED BY <2>2, <3>1, Positions DEF Past
  <2>6. Target(t) = NewPlace(t)
    <3>1. Target(t) = PosBehind(S(t))
      BY <2>1, <2>2, <2>5, PosAtExits DEF Target
    <3> QED BY <2>1, <2>2, <2>5, <3>1, CodePos
  <2>7. Group(t) <= NewPlace(t) /\ Group(t) \in Int /\ NewPlace(t) \in Int
    BY <2>1, <2>2, <2>5, GroupIs
  <2>8. Group(t) >= EntryBytes
    BY <2>1, <2>2, <2>5, GroupsGrow
  <2>9. EntryBytes \in {5, 6}
    BY <2>1, <2>2, MethodIs DEF EntryBytes
  <2> QED BY <2>4, <2>6, <2>7, <2>8, <2>9
<1>2. IInv => EntryReportedOnce
  BY <1>1 DEF EntryReportedOnce
<1> QED BY IInvHolds, <1>2, PTL

\* The operands of every switch of a method that is no constructor are aligned
\* (SwitchesAligned).
THEOREM SwitchesAlignedHolds == Spec => []SwitchesAligned
<1>1. ASSUME IInv, Rewritten, ~Constructor, NEW k \in DOMAIN out, out[k].op \in Switches
      PROVE  LET instr == method.code[out[k].of]
                 operands == Size(instr, 0) - 1 - Padding(1)
             IN  (method.prefix + method.instance + out[k].at + out[k].size - operands) % 4 = 0
  <2>1. /\ method \in Methods /\ Len(code) \in Nat \ {0} /\ Len(code) \in 0..Len(code)
        /\ ChangesOK(changes, Len(code)) /\ k \in 1..Len(out)
        /\ (~Merged => OutOK(out, Len(code))) /\ (Merged => MergedOK(out, Len(code)))
    BY <1>1, DoneFacts
  <2>2. ~Merged
    BY <1>1, <2>1 DEF MergedOK
  <2> DEFINE i == out[k].of
  <2>3. i \in 1..Len(code) /\ ItemOK(out, k, i)
    <3>1. i # 0
      BY <1>1, <2>1, <2>2 DEF OutOK, Switches
    <3> QED BY <2>1, <2>2, <3>1 DEF OutOK
  <2> HIDE DEF i
  <2>4. out[k].at = NewPlace(i) /\ out[k].size = NewSize(i) /\ SwitchAt(i)
    BY <1>1, <2>3 DEF ItemOK, SwitchAt
  <2>5. /\ NewPlace(i) = Group(i) /\ Group(i) \in Int
        /\ NewSize(i) = 1 + Padding(Group(i) + 1) + Operands(i)
    BY <2>1, <2>2, <2>3, <2>4, GroupIs
  <2>6. method.prefix = 0 /\ method.instance = 0
    BY <1>1, <2>1, MethodIs DEF Constructor
  <2>7. Operands(i) \in Nat /\ Padding(Group(i) + 1) \in Nat
    <3>1. i \in Numbers /\ 0 \in Nat
      BY <2>3 DEF Numbers
    <3>2. Operands(i) \in Nat
      BY <2>1, <2>4, <3>1, Sizes
    <3> QED BY <2>5, <3>2, PaddingType
  <2>8. method.prefix + method.instance + out[k].at + out[k].size - Operands(i)
          = (Group(i) + 1) + Padding(Group(i) + 1)
    BY <2>4, <2>5, <2>6, <2>7
  <2>9. ((Group(i) + 1) + Padding(Group(i) + 1)) % 4 = 0
    <3>1. Group(i) + 1 \in Int
      BY <2>5
    <3> QED BY <3>1, PaddingAligns
  <2> QED BY <2>8, <2>9 DEF Operands, code, i
<1>2. IInv => SwitchesAligned
  BY <1>1 DEF SwitchesAligned, OperandsAligned
<1> QED BY IInvHolds, <1>2, PTL

\* What the map holds is all added ahead of the end.
LEMMA AllAhead ==
  ASSUME method \in Methods, ChangesOK(changes, Len(code))
  PROVE  SumFunction(changes) = Shift(changes, Past)
<1>1. Len(code) \in 0..Len(code) /\ Past \in 1..Len(code) + 1 /\ Past \notin 1..Len(code)
  BY MethodIs DEF Past
<1>2. {p \in DOMAIN changes : p <= S(Past)} = Ahead(changes, Past)
  <2>1. {p \in DOMAIN changes : p <= S(Past)} =
          Ahead(changes, Past) \cup (IF Past \in 1..Len(code) /\ ExitAt(Past) THEN {S(Past)} ELSE {})
    BY <1>1, AheadIs
  <2> QED BY <1>1, <2>1
<1>3. DOMAIN changes \subseteq 0..S(Past)
  BY <1>1, MapInCode
<1>4. Ahead(changes, Past) = DOMAIN changes
  BY <1>2, <1>3
<1> QED BY <1>4 DEF Shift, SumFunction, SumFunctionOnSet, FoldFunction

\* The new code_length.
LEMMA NewLength ==
  ASSUME IInv, Rewritten, method.hooked
  PROVE  CodeLength = method.prefix + method.instance + Written
<1>1. /\ method \in Methods /\ Len(code) \in Nat \ {0} /\ Len(code) \in 0..Len(code)
      /\ DOMAIN code = Numbers /\ ChangesOK(changes, Len(code)) /\ Written = EndOf(out)
      /\ (~Merged => Written = Group(Past)) /\ (Merged => MergedOK(out, Len(code)))
  BY DoneFacts
<1>2. /\ method.prefix \in Nat /\ method.instance \in Nat /\ method.bytes \in {5, 6}
      /\ method.where \in 0..2
      /\ GrowthAtEntry(method) = method.instance + method.bytes
  BY <1>1, MethodIs DEF GrowthAtEntry, InsertedForMethod
<1>3. CASE Merged
  <2>1. /\ Len(code) = 1 /\ End = 1 /\ method.where = 0 /\ DOMAIN changes = {0}
        /\ changes[0] = method.bytes
    BY <1>1, <1>3, MergedIs
  <2>2. SumFunction(changes) = method.bytes
    <3>1. SumFunctionOnSet(changes, {0}) = changes[0]
      BY <1>2, <2>1, SumOne
    <3> QED BY <2>1, <3>1 DEF SumFunction, SumFunctionOnSet, FoldFunction
  <2>3. AddedSize = 2 * method.bytes
    BY <2>1, <2>2 DEF AddedSize
  <2>4. Written = method.bytes + 1 * (method.bytes + 1)
    BY <1>1, <1>3, <2>1 DEF MergedOK
  <2>5. CodeLength = method.prefix + 1 + (method.instance + method.bytes)
                     + (2 * method.bytes - method.bytes)
    BY <1>2, <2>1, <2>3 DEF CodeLength
  <2> QED BY <1>2, <2>4, <2>5
<1>4. CASE ~Merged
  <2> DEFINE sum == SumFunction(changes)
  <2>1. sum = Shift(changes, Past)
    BY <1>1, AllAhead
  <2>2. AtExits => \E i \in Numbers : ExitAt(i)
    BY <1>1 DEF Rewritten, Endless, Has, ExitAt, code
  <2>3. Entry # {} \/ \E i \in Numbers : ExitAt(i)
    BY <2>2 DEF Entry, AtExits
  <2>4. sum >= 4
    <3>1. Past \in 1..Past /\ Past - 1 = Len(code)
      BY <1>1 DEF Past
    <3>2. Entry # {} \/ \E i \in 1..Past - 1 : ExitAt(i)
      BY <2>3, <3>1 DEF Numbers
    <3> QED BY <1>1, <1>4, <2>1, <3>1, <3>2, GrownByFour
  <2>5. sum \in Int /\ S(Past) \in Nat /\ End = S(Past)
    <3>1. Past \in 1..Len(code) + 1 /\ Past \in 1..Past
      BY <1>1 DEF Past
    <3>2. Shift(changes, Past) \in Int
      BY <1>1, <1>4, <3>1, Shifts
    <3> QED BY <1>1, <2>1, <3>1, <3>2, Positions DEF End, S, Past, code
  <2>6. ~(End = 1 /\ method.where = 0)
    <3> SUFFICES ASSUME method.where = 0 PROVE S(Past) > 1
      BY <2>5
    <3>1. PICK i \in Numbers : ExitAt(i)
      BY <2>2 DEF AtExits
    <3>2. i # 1
      BY <1>4, <3>1 DEF Merged, Entry
    <3>3. 1 \in 1..Past /\ i \in 1..Past /\ Past \in 1..Past /\ 1 < i /\ i < Past
      BY <1>1, <3>2 DEF Numbers, Past
    <3>4. S(1) < S(i) /\ S(i) < S(Past) /\ S(1) \in Nat /\ S(i) \in Nat
      BY <1>1, <3>3, LaterIsBehind, Positions
    <3> QED BY <2>5, <3>4
  <2>7. AddedSize = sum
    BY <2>6 DEF AddedSize
  <2>8. Written = S(Past) + sum
    BY <1>1, <1>4, <2>1 DEF Group
  <2> HIDE DEF sum
  <2>9. CodeLength = method.prefix + S(Past) + (method.instance + method.bytes)
                     + (sum - method.bytes)
    BY <1>2, <2>4, <2>5, <2>7 DEF CodeLength
  <2> QED BY <1>2, <2>5, <2>8, <2>9
<1> QED BY <1>3, <1>4

\* The length that is written is the length of the code (LengthMatches).
THEOREM LengthMatchesHolds == Spec => []LengthMatches
<1>1. IInv => LengthMatches
  BY NewLength DEF LengthMatches
<1> QED BY IInvHolds, <1>1, PTL

-----------------------------------------------------------------------------
(* The tables *)

\* The methods whose tables are known to follow: see TablesFollow.
Simple == Constructor => ~AtExits /\ ~Has(Switches)

\* In a constructor only the call at its start may be noted.
LEMMA SimpleMap ==
  ASSUME method \in Methods, ChangesOK(changes, Len(code)), Constructor, Simple
  PROVE  /\ DOMAIN changes = Entry /\ (Entry # {} <=> method.hooked)
         /\ \A i : Shift(changes, i) = EntryBytes
<1>1. \A i \in 1..Len(code) : ~Marked(i)
  BY MethodIs DEF Marked, ExitAt, SwitchAt, Has, code, Numbers, Simple
<1>2. DOMAIN changes = Entry
  <2>1. {j \in 1..Len(code) : Marked(j)} = {}
    BY <1>1
  <2> QED BY <2>1 DEF ChangesOK
<1>3. Entry # {} <=> method.hooked
  BY DEF Entry, AtExits, Simple
<1>4. ~Merged /\ Len(code) \in 0..Len(code)
  BY MethodIs DEF Merged, ExitAt, Simple
<1>5. \A i : Ahead(changes, i) = Entry
  BY <1>2 DEF Ahead
<1>6. Shift(changes, 1) = EntryBytes
  BY <1>4, Shifts
<1>7. \A i : Shift(changes, i) = EntryBytes
  BY <1>5, <1>6 DEF Shift
<1> QED BY <1>2, <1>3, <1>7

\* Something is noted about a method that is no constructor.
LEMMA SomethingNoted ==
  ASSUME IInv, Rewritten, ~Constructor
  PROVE  changes # <<>> /\ method.hooked /\ method.instance = 0 /\ method.prefix = 0
<1>1. /\ method \in Methods /\ DOMAIN code = Numbers /\ ChangesOK(changes, Len(code))
  BY DoneFacts
<1>2. method.prefix = 0 /\ method.hooked /\ method.instance = 0
  BY <1>1, MethodIs DEF Constructor
<1>3. CASE AtExits
  <2>1. PICK i \in Numbers : ExitAt(i)
    BY <1>1, <1>3 DEF Rewritten, Endless, Has, ExitAt, code
  <2>2. Spot(i) \in DOMAIN changes
    BY <1>1, <2>1 DEF ChangesOK, Marked, Numbers
  <2> QED BY <1>2, <2>2
<1>4. CASE ~AtExits
  <2>1. 0 \in DOMAIN changes
    BY <1>1, <1>2, <1>4 DEF ChangesOK, Entry, AtExits
  <2> QED BY <1>2, <2>1
<1> QED BY <1>3, <1>4

\* In a constructor every position is moved by what is inserted at the entry.
LEMMA ConstructorTable ==
  ASSUME method \in Methods, ChangesOK(changes, Len(code)), Constructor, Simple
  PROVE  \A pos \in Nat : getTablePosAfterInsertCallbacks(pos) = method.instance + EntryBytes + pos
<1>0. /\ method.instance \in Nat /\ method.bytes \in Nat /\ method.hooked \in BOOLEAN
  BY MethodIs
<1>1. /\ DOMAIN changes = Entry /\ (Entry # {} <=> method.hooked) /\ DOMAIN changes \subseteq Nat
      /\ Shift(changes, 1) = EntryBytes
  BY SimpleMap DEF Entry
<1>2. EntryBytes = InsertedForMethod(method) /\ EntryBytes \in Nat
  BY <1>0, <1>1 DEF EntryBytes, InsertedForMethod
<1>3. \A pos \in Nat : PosBehind(pos) = pos + EntryBytes
  <2> SUFFICES ASSUME NEW pos \in Nat PROVE PosBehind(pos) = pos + EntryBytes
    OBVIOUS
  <2>1. {p \in DOMAIN changes : p <= pos} = Entry
    BY <1>1 DEF Entry
  <2>2. SumFunctionOnSet(changes, Entry) = EntryBytes
    <3>1. \A k : Ahead(changes, k) = Entry
      BY <1>1 DEF Ahead
    <3> QED BY <1>1, <3>1 DEF Shift
  <2> QED BY <2>1, <2>2 DEF PosBehind
<1>4. \A pos \in Nat : getTablePosAfterInsertCallbacks(pos) = method.instance + EntryBytes + pos
  <2> SUFFICES ASSUME NEW pos \in Nat
               PROVE  getTablePosAfterInsertCallbacks(pos) = method.instance + EntryBytes + pos
    OBVIOUS
  <2>1. CASE Entry = {}
    <3>1. changes = <<>>
      BY <1>1, <2>1 DEF ChangesOK
    <3> QED BY <1>2, <3>1 DEF getTablePosAfterInsertCallbacks, GrowthAtEntry
  <2>2. CASE Entry # {}
    <3>1. changes # <<>> /\ EntryBytes = method.bytes
      BY <1>1, <2>2 DEF EntryBytes
    <3>2. getCodePosAfterInsertCallbacks(pos, FALSE) = pos + EntryBytes
      <4>1. pos \in Int
        OBVIOUS
      <4>2. getCodePosAfterInsertCallbacks(pos, FALSE) = PosBehind(pos)
        BY <1>1, <4>1, PosIs, Zenon
      <4>3. PosBehind(pos) = pos + EntryBytes
        BY <1>3
      <4> QED BY <4>2, <4>3, Zenon
    <3>3. getTablePosAfterInsertCallbacks(pos) =
            (method.instance + EntryBytes) + ((pos + EntryBytes) - method.bytes)
      BY <1>2, <3>1, <3>2 DEF getTablePosAfterInsertCallbacks, GrowthAtEntry
    <3> QED BY <1>0, <1>2, <3>1, <3>3
  <2> QED BY <2>1, <2>2
<1> QED BY <1>4

\* What the table is corrected to, at the start of an instruction and at the
\* last byte of the one ahead of it.
LEMMA TablePos ==
  ASSUME IInv, Rewritten, ~Merged, Simple, NEW i \in 1..Past
  PROVE  LET base == method.prefix + method.instance
             old  == method.prefix + S(i)
         IN  /\ getTablePosAfterInsertCallbacks(old) = base + PosBehind(S(i))
             /\ i # 1 => getTablePosAfterInsertCallbacks(old - 1) + 1 = base + Group(i)
<1> DEFINE base == method.prefix + method.instance
           old  == method.prefix + S(i)
<1>1. /\ method \in Methods /\ Len(code) \in Nat \ {0} /\ Len(code) \in 0..Len(code)
      /\ ChangesOK(changes, Len(code)) /\ DOMAIN changes \subseteq Nat
  BY DoneFacts
<1>2. /\ S(i) \in Nat /\ S(1) = 0 /\ (i # 1 => S(i) >= 1) /\ i \in 1..Len(code) + 1
  <2>1. S(i) \in Nat /\ S(1) = 0 /\ 1 \in 1..Past
    BY <1>1, Positions DEF Past
  <2>2. i # 1 => S(1) < S(i)
    BY <1>1, <2>1, LaterIsBehind
  <2> QED BY <2>1, <2>2 DEF Past
<1>3. /\ method.prefix \in Nat /\ method.instance \in Nat /\ method.bytes \in Nat
      /\ method.hooked \in BOOLEAN
  BY <1>1, MethodIs
<1>4. /\ Group(i) \in Int /\ (i # 1 => PosAhead(S(i)) = Group(i))
      /\ PosBehind(S(i)) \in Int
  <2>1. /\ PosAhead(S(i)) = IF i = 1 THEN 0 ELSE Group(i)
        /\ (i \in 1..Len(code) => PosBehind(S(i)) = NewPlace(i))
        /\ (i = Len(code) + 1 => PosBehind(S(i)) = Group(i))
        /\ Group(i) \in Int
    BY <1>1, <1>2, CodePos
  <2>2. i \in 1..Len(code) => NewPlace(i) \in Int
    BY <1>1, GroupIs
  <2> QED BY <1>1, <1>2, <2>1, <2>2
<1>5. CASE ~Constructor
  <2>1. changes # <<>> /\ method.hooked /\ method.instance = 0 /\ method.prefix = 0
    BY <1>5, SomethingNoted
  <2>2. \A pos \in Int : getTablePosAfterInsertCallbacks(pos)
                           = method.bytes + (PosBehind(pos) - method.bytes)
    <3> SUFFICES ASSUME NEW pos \in Int
                 PROVE  getTablePosAfterInsertCallbacks(pos)
                          = method.bytes + (PosBehind(pos) - method.bytes)
      OBVIOUS
    <3>1. GrowthAtEntry(method) = method.bytes
      BY <1>3, <2>1 DEF GrowthAtEntry, InsertedForMethod
    <3>2. getCodePosAfterInsertCallbacks(pos, FALSE) = PosBehind(pos)
      BY <1>1, PosIs, Zenon
    <3>3. getTablePosAfterInsertCallbacks(pos)
            = GrowthAtEntry(method) + (getCodePosAfterInsertCallbacks(pos, FALSE) - method.bytes)
      BY <2>1 DEF getTablePosAfterInsertCallbacks
    <3> QED BY <3>1, <3>2, <3>3, Zenon
  <2>3. i # 1 => PosBehind(S(i) - 1) = S(i) - 1 + (Group(i) - S(i))
    <3> SUFFICES ASSUME i # 1 PROVE PosBehind(S(i) - 1) = S(i) - 1 + (Group(i) - S(i))
      OBVIOUS
    <3>1. {p \in DOMAIN changes : p <= S(i) - 1} = {p \in DOMAIN changes : p < S(i)}
      BY <1>1, <1>2
    <3>2. PosBehind(S(i) - 1) = S(i) - 1 + Shift(changes, i)
      <4>1. {p \in DOMAIN changes : p < S(i)} = Ahead(changes, i)
        <5>1. {p \in DOMAIN changes : p < S(i)} = IF i = 1 THEN {} ELSE Ahead(changes, i)
          BY <1>1, <1>2, AheadIs
        <5> QED BY <5>1
      <4> QED BY <3>1, <4>1 DEF PosBehind, Shift
    <3>3. Shift(changes, i) \in Int
      BY <1>1, <1>2, Shifts
    <3> QED BY <1>2, <3>2, <3>3 DEF Group
  <2>4. getTablePosAfterInsertCallbacks(old) = base + PosBehind(S(i))
    <3>1. old = S(i) /\ base = 0
      BY <1>2, <2>1
    <3>2. getTablePosAfterInsertCallbacks(S(i)) = method.bytes + (PosBehind(S(i)) - method.bytes)
      BY <1>2, <2>2
    <3> QED BY <1>3, <1>4, <3>1, <3>2
  <2>5. i # 1 => getTablePosAfterInsertCallbacks(old - 1) + 1 = base + Group(i)
    <3>1. old - 1 = S(i) - 1 /\ base = 0 /\ S(i) - 1 \in Int
      BY <1>2, <2>1
    <3>2. getTablePosAfterInsertCallbacks(S(i) - 1)
            = method.bytes + (PosBehind(S(i) - 1) - method.bytes)
      BY <2>2, <3>1
    <3> SUFFICES ASSUME i # 1 PROVE getTablePosAfterInsertCallbacks(old - 1) + 1 = base + Group(i)
      OBVIOUS
    <3>3. PosBehind(S(i) - 1) = Group(i) - 1
      BY <1>2, <1>4, <2>3
    <3>4. getTablePosAfterInsertCallbacks(S(i) - 1) = Group(i) - 1
      BY <1>3, <1>4, <3>2, <3>3
    <3>5. getTablePosAfterInsertCallbacks(old - 1) = Group(i) - 1
      BY <3>1, <3>4, Zenon
    <3> QED BY <1>4, <3>1, <3>5
  <2> QED BY <2>4, <2>5
<1>6. CASE Constructor
  <2>1. /\ DOMAIN changes = Entry /\ (Entry # {} <=> method.hooked)
        /\ Shift(changes, i) = EntryBytes
    BY <1>1, <1>6, SimpleMap
  <2>2. EntryBytes = InsertedForMethod(method) /\ EntryBytes \in Nat
    BY <1>3, <2>1 DEF EntryBytes, InsertedForMethod
  <2>3. \A pos \in Nat : PosBehind(pos) = pos + EntryBytes
    <3> SUFFICES ASSUME NEW pos \in Nat PROVE PosBehind(pos) = pos + EntryBytes
      OBVIOUS
    <3>1. {p \in DOMAIN changes : p <= pos} = Entry
      BY <2>1 DEF Entry
    <3>2. SumFunctionOnSet(changes, Entry) = EntryBytes
      <4>1. \A k : Ahead(changes, k) = Entry
        BY <2>1 DEF Ahead
      <4> QED BY <2>1, <4>1 DEF Shift
    <3> QED BY <3>1, <3>2 DEF PosBehind
  <2>4. \A pos \in Nat : getTablePosAfterInsertCallbacks(pos) = method.instance + EntryBytes + pos
    BY <1>1, <1>6, ConstructorTable
  <2>5. Group(i) = S(i) + EntryBytes
    BY <2>1 DEF Group
  <2>6. old \in Nat /\ (i # 1 => old - 1 \in Nat)
    BY <1>2, <1>3
  <2>7. getTablePosAfterInsertCallbacks(old) = base + PosBehind(S(i))
    <3>1. /\ getTablePosAfterInsertCallbacks(old) = method.instance + EntryBytes + old
          /\ PosBehind(S(i)) = S(i) + EntryBytes
      BY <1>2, <2>3, <2>4, <2>6
    <3> QED BY <1>2, <1>3, <2>2, <3>1
  <2>8. i # 1 => getTablePosAfterInsertCallbacks(old - 1) + 1 = base + Group(i)
    <3>1. i # 1 => getTablePosAfterInsertCallbacks(old - 1) = method.instance + EntryBytes + (old - 1)
      BY <2>4, <2>6
    <3> QED BY <1>2, <1>3, <2>2, <2>5, <3>1, SMTT(30)
  <2> QED BY <2>7, <2>8
<1> QED BY <1>5, <1>6

LEMMA StartsDomain == ASSUME NEW m, Len(m.code) \in Nat PROVE DOMAIN Starts(m) = 1..Len(m.code) + 1
<1>1. Starts(m) = CHOOSE start : StartsUpto(start, m, Len(m.code) + 1)
  BY DEF Starts, StartsUpto
<1>2. StartsUpto(Starts(m), m, Len(m.code) + 1)
  BY <1>1, StartsExist
<1> QED BY <1>2 DEF StartsUpto

\* An instruction stands in its group, and the groups follow each other.
LEMMA InOrder ==
  ASSUME method \in Methods, ChangesOK(changes, Len(code)), ~Merged,
         NEW i \in 1..Past, NEW j \in 1..Past
  PROVE  /\ PosBehind(S(i)) \in Int /\ Group(i) \in Int /\ Group(i) <= PosBehind(S(i))
         /\ i < j => PosBehind(S(i)) < Group(j)
<1>1. /\ Len(code) \in Nat \ {0} /\ Len(code) \in 0..Len(code)
      /\ i \in 1..Len(code) + 1 /\ j \in 1..Len(code) + 1
  BY MethodIs DEF Past
<1>2. /\ i \in 1..Len(code) => PosBehind(S(i)) = NewPlace(i)
      /\ i = Len(code) + 1 => PosBehind(S(i)) = Group(i)
      /\ Group(i) \in Int
  BY <1>1, CodePos
<1>3. i \in 1..Len(code) => /\ Group(i) <= NewPlace(i) /\ NewPlace(i) \in Int
                           /\ NewSize(i) \in Nat \ {0}
                           /\ Group(i + 1) = NewPlace(i) + NewSize(i)
  BY <1>1, GroupIs
<1>4. PosBehind(S(i)) \in Int /\ Group(i) <= PosBehind(S(i))
  BY <1>1, <1>2, <1>3
<1>5. ASSUME i < j PROVE PosBehind(S(i)) < Group(j)
  <2>1. i \in 1..Len(code) /\ i + 1 \in 1..Len(code) + 1
    BY <1>1, <1>5
  <2>2. PosBehind(S(i)) < Group(i + 1) /\ Group(i + 1) \in Int
    BY <1>2, <1>3, <2>1
  <2>3. i + 1 < j => Group(i + 1) < Group(j)
    BY <1>1, <2>1, GroupsGrow
  <2>4. Group(j) \in Int
    BY <1>1, CodePos
  <2>5. CASE i + 1 = j
    BY <2>2, <2>5
  <2>6. CASE i + 1 < j
    BY <2>2, <2>3, <2>4, <2>6, <1>4
  <2> QED BY <1>1, <1>5, <2>5, <2>6
<1> QED BY <1>2, <1>4, <1>5

\* The tables follow the code: what a position of a table is corrected to is
\* where its instruction stands, and the ranges of the variables keep their
\* instructions (TablesFollow).
THEOREM TablesFollowHolds == Spec => []TablesFollow
<1> DEFINE base == method.prefix + method.instance
           Old(i) == method.prefix + Starts(method)[i]
           New(i) == IF i > Len(method.code) THEN base + Written ELSE base + out[Place(i)].at
           LiveFrom(i) == VariableStart(IF i = 1 THEN 0 ELSE Old(i))
           Live(i, j, l) ==
             (i <= l /\ l < j) <=> (LiveFrom(i) <= New(l) /\ New(l) < VariableEnd(Old(j)))
<1>1. ASSUME IInv, Rewritten, End > 1, Constructor => ~AtExits /\ ~Has(Switches)
      PROVE  /\ \A i \in DOMAIN Starts(method) : getTablePosAfterInsertCallbacks(Old(i)) = New(i)
             /\ \A i, l \in DOMAIN method.code, j \in DOMAIN Starts(method) :
                  i < j => Live(i, j, l)
             /\ added /\ method.followed =>
                  AddedVariable = <<[from |-> 0, length |-> base + Written, slot |-> method.locals]>>
             /\ Constructor => \A pos \in method.lines \cup {0} : LineStart(pos) = pos <=> pos = 0
  <2>1. /\ method \in Methods /\ Len(code) \in Nat \ {0} /\ Len(code) \in 0..Len(code)
        /\ DOMAIN code = Numbers /\ ChangesOK(changes, Len(code))
    BY <1>1, DoneFacts
  <2>2. ~Merged
    BY <1>1, <2>1, MergedIs
  <2>3. Simple /\ base \in Nat
    BY <1>1, <2>1, MethodIs DEF Simple
  <2>4. DOMAIN Starts(method) = 1..Past
    BY <2>1, StartsDomain DEF code, Past
  <2>5. ASSUME NEW i \in 1..Past PROVE New(i) = base + PosBehind(S(i))
    <3>1. i \in 1..Len(code) + 1
      BY <2>1 DEF Past
    <3>2. CASE i \in 1..Len(code)
      <4>1. i \in Numbers /\ ~(i > Len(code))
        BY <2>1, <3>2 DEF Numbers
      <4>2. out[Place(i)].at = NewPlace(i)
        BY <1>1, <2>2, <4>1, PlaceIs DEF ItemOK
      <4>3. PosBehind(S(i)) = NewPlace(i)
        BY <2>1, <2>2, <3>1, <3>2, CodePos
      <4> QED BY <4>1, <4>2, <4>3 DEF code
    <3>3. CASE i = Len(code) + 1
      <4>1. i > Len(code) /\ i = Past
        BY <2>1, <3>3 DEF Past
      <4>2. Written = Group(Past)
        BY <1>1, <2>2, DoneFacts
      <4>3. PosBehind(S(i)) = Group(i)
        BY <2>1, <2>2, <3>1, <3>3, CodePos
      <4> QED BY <4>1, <4>2, <4>3 DEF code
    <3> QED BY <2>1, <3>1, <3>2, <3>3
  <2>6. ASSUME NEW i \in 1..Past
        PROVE  /\ getTablePosAfterInsertCallbacks(Old(i)) = base + PosBehind(S(i))
               /\ LiveFrom(i) = IF i = 1 THEN 0 ELSE base + Group(i)
               /\ VariableEnd(Old(i)) = base + PosBehind(S(i))
    <3>1. /\ getTablePosAfterInsertCallbacks(Old(i)) = base + PosBehind(S(i))
          /\ i # 1 => getTablePosAfterInsertCallbacks(Old(i) - 1) + 1 = base + Group(i)
      BY <1>1, <2>2, <2>3, TablePos DEF S
    <3>2. i # 1 => Old(i) # 0
      <4>1. i # 1 => S(1) < S(i) /\ S(1) \in Nat /\ S(i) \in Nat
        <5>1. 1 \in 1..Past /\ (i # 1 => 1 < i)
          BY <2>1 DEF Past
        <5> QED BY <2>1, <5>1, LaterIsBehind, Positions
      <4>2. method.prefix \in Nat /\ Old(i) = method.prefix + S(i)
        BY <2>1, MethodIs DEF S
      <4> HIDE DEF Old
      <4> QED BY <4>1, <4>2
    <3>3. VariableEnd(Old(i)) = base + PosBehind(S(i))
      BY <3>1 DEF VariableEnd
    <3>4. LiveFrom(i) = IF i = 1 THEN 0 ELSE base + Group(i)
      BY <3>1, <3>2 DEF VariableStart
    <3> QED BY <3>1, <3>3, <3>4
  <2> HIDE DEF New, Old, base, LiveFrom
  <2>7. ASSUME NEW i \in 1..Len(code), NEW j \in 1..Past, NEW l \in 1..Len(code), i < j
        PROVE  Live(i, j, l)
    <3>1. i \in 1..Past /\ l \in 1..Past
      BY <2>1 DEF Past
    <3>2. /\ LiveFrom(i) = IF i = 1 THEN 0 ELSE base + Group(i)
          /\ VariableEnd(Old(j)) = base + PosBehind(S(j))
          /\ New(l) = base + PosBehind(S(l))
      BY <2>5, <2>6, <3>1
    <3>3. /\ PosBehind(S(l)) \in Int /\ Group(l) \in Int /\ Group(l) <= PosBehind(S(l))
          /\ (l < i => PosBehind(S(l)) < Group(i)) /\ (l < j => PosBehind(S(l)) < Group(j))
      BY <2>1, <2>2, <3>1, InOrder
    <3>4. /\ PosBehind(S(i)) \in Int /\ Group(i) \in Int /\ Group(i) <= PosBehind(S(i))
          /\ (i < l => PosBehind(S(i)) < Group(l))
      BY <2>1, <2>2, <3>1, InOrder
    <3>5. /\ PosBehind(S(j)) \in Int /\ Group(j) \in Int /\ Group(j) <= PosBehind(S(j))
          /\ (j < l => PosBehind(S(j)) < Group(l))
      BY <2>1, <2>2, <3>1, InOrder
    <3>6. i <= l <=> Group(i) <= PosBehind(S(l))
      <4>1. CASE l < i
        BY <3>1, <3>3, <3>4, <4>1
      <4>2. CASE l = i
        BY <3>3, <4>2
      <4>3. CASE i < l
        BY <3>1, <3>3, <3>4, <4>3
      <4> QED BY <3>1, <4>1, <4>2, <4>3 DEF Past
    <3>7. l < j <=> PosBehind(S(l)) < PosBehind(S(j))
      <4>1. CASE l < j
        BY <3>3, <3>5, <4>1
      <4>2. CASE l = j
        BY <3>3, <4>2
      <4>3. CASE j < l
        BY <3>1, <3>3, <3>5, <4>3
      <4> QED BY <2>1, <3>1, <4>1, <4>2, <4>3 DEF Past
    <3>8. base + Group(i) <= base + PosBehind(S(l)) <=> Group(i) <= PosBehind(S(l))
      BY <2>3, <3>3, <3>4
    <3>9. base + PosBehind(S(l)) < base + PosBehind(S(j)) <=> PosBehind(S(l)) < PosBehind(S(j))
      BY <2>3, <3>3, <3>5
    <3>10. i = 1 => i <= l /\ 0 <= base + PosBehind(S(l))
      <4>1. Group(1) = EntryBytes /\ EntryBytes \in Nat /\ (l # 1 => Group(1) < Group(l))
        <5>1. Len(code) \in 0..Len(code) /\ 1 \in 1..Len(code) + 1 /\ l \in 1..Len(code) + 1
              /\ (l # 1 => 1 < l)
          BY <2>1
        <5>2. Group(1) = EntryBytes
          BY <2>1, <2>2, GroupsGrow
        <5>3. EntryBytes \in Nat
          BY <2>1, EntryEnds
        <5> QED BY <2>1, <2>2, <5>1, <5>2, <5>3, GroupsGrow
      <4>2. PosBehind(S(l)) >= 0
        BY <3>3, <4>1
      <4> QED BY <2>3, <3>3, <4>2
    <3>11. CASE i = 1
      BY <3>2, <3>7, <3>9, <3>10, <3>11
    <3>12. CASE i # 1
      BY <3>2, <3>6, <3>7, <3>8, <3>9, <3>12
    <3> QED BY <3>11, <3>12
  <2>8. \A i \in DOMAIN Starts(method) : getTablePosAfterInsertCallbacks(Old(i)) = New(i)
    BY <2>4, <2>5, <2>6
  <2> HIDE DEF Live
  <2>9. \A i, l \in DOMAIN method.code, j \in DOMAIN Starts(method) : i < j => Live(i, j, l)
    BY <2>1, <2>4, <2>7 DEF code, Numbers
  <2>10. ASSUME added, method.followed
         PROVE  AddedVariable = <<[from |-> 0, length |-> base + Written, slot |-> method.locals]>>
    <3>1. Kept(Len(code)) /\ locals = method.locals + IF Kept(Len(code)) THEN Slots ELSE 0
      BY <1>1, <2>10, DoneFacts DEF CopyOK
    <3>2. locals - Slots = method.locals
      <4>1. method.locals \in Nat /\ Slots \in {1, 2}
        BY <2>1, MethodIs DEF Slots
      <4> QED BY <3>1, <4>1
    <3>3. method.hooked
      <4>1. AtExits
        BY <3>1 DEF Kept
      <4> QED BY <1>1, <2>1, <4>1, MethodIs DEF Constructor
    <3>4. CodeLength = base + Written
      BY <1>1, <3>3, NewLength DEF base
    <3> QED BY <2>10, <3>2, <3>4 DEF AddedVariable
  <2>11. ASSUME Constructor, NEW pos \in method.lines \cup {0} PROVE LineStart(pos) = pos <=> pos = 0
    <3>1. CASE pos = 0
      BY <2>11, <3>1 DEF LineStart
    <3>2. CASE pos # 0
      <4>1. /\ pos \in Nat /\ method.instance \in Nat /\ method.hooked \in BOOLEAN
            /\ method.bytes \in {5, 6} /\ (method.hooked \/ method.instance # 0)
        BY <2>1, <3>2, MethodsAssumption
      <4>2. LineStart(pos) = method.instance + EntryBytes + pos
        BY <2>1, <2>2, <2>3, <2>11, <3>2, <4>1, ConstructorTable DEF LineStart
      <4>3. EntryBytes = IF method.hooked THEN method.bytes ELSE 0
        BY <2>1, <2>3, <2>11, SimpleMap DEF EntryBytes
      <4> QED BY <3>2, <4>1, <4>2, <4>3
    <3> QED BY <3>1, <3>2
  <2> QED BY <2>8, <2>9, <2>10, <2>11
<1>2. IInv => TablesFollow
  BY <1>1 DEF TablesFollow
<1> QED BY IInvHolds, <1>2, PTL
=============================================================================
