-------------------------- MODULE ObjectPoolProofs --------------------------
(***************************************************************************)
(* Proofs about ObjectPool, for every heap, nest depth and limit, and for  *)
(* dumps of any number of objects: a search that goes depth first, expands *)
(* an object again when it meets it at a lesser depth, and takes entries   *)
(* out of the pool again still shows every object at its least depth and   *)
(* names each by its number, if the pool can tell the objects apart.  The  *)
(* types, and the count of the depth, are right whether it can or not.     *)
(*                                                                         *)
(* What is said of a pool is said of any pool p and calls c, so that the   *)
(* steps of the search can be put together: Show adds an entry, notes that *)
(* the innermost call has come to it, and expands it.  Where the pool can  *)
(* tell the objects apart, the invariant has three layers.  Fits: entries, *)
(* calls and the filter fit together, whoever owns the parts of values.    *)
(* Sound: the references are right and no object is noted as nearer than   *)
(* it is, if values own their parts.  Thorough: what entries that stay     *)
(* refer to is found one level down at most, if the search started at the  *)
(* depth 0.  TypeInv is what is left of Fits where the pool cannot.        *)
(***************************************************************************)
EXTENDS ObjectPool, FiniteSetTheorems, FunctionTheorems, WellFoundedInduction, TLAPS

\* Induction over the natural numbers up to a bound.
LEMMA CountUp ==
  ASSUME NEW n \in Nat, NEW G, 0 \in G, \A i \in 0..n - 1 : i \in G => i + 1 \in G
  PROVE  0..n \subseteq G
<1> DEFINE Bad == {i \in Nat : i \in 0..n /\ i \notin G}
<1> SUFFICES ASSUME Bad # {} PROVE FALSE
  OBVIOUS
<1>1. PICK i \in Bad : \A j \in Bad : ~(<<j, i>> \in OpToRel(<, Nat))
  <2>1. Bad \subseteq Nat
    OBVIOUS
  <2> HIDE DEF Bad
  <2> QED BY <2>1, NatLessThanWellFounded, WFMin
<1>2. i - 1 \in Nat /\ i - 1 \in 0..n - 1
  OBVIOUS
<1>3. i - 1 \in G
  <2> SUFFICES ASSUME i - 1 \in Bad PROVE FALSE
    BY <1>2
  <2>1. Bad \subseteq Nat /\ i \in Nat
    OBVIOUS
  <2> HIDE DEF Bad
  <2>2. <<i - 1, i>> \in OpToRel(<, Nat)
    BY <1>2, <2>1 DEF OpToRel
  <2> QED BY <1>1, <2>2
<1>4. i \in G
  BY <1>2, <1>3
<1> QED BY <1>4

-----------------------------------------------------------------------------
(* The heap *)

HeapTyped ==
  /\ graph.hash \in [Objects -> HashCodes]
  /\ graph.kind \in [Objects -> Kinds]
  /\ graph.field \in [Objects -> Seq(Objects \cup {NoObject})]
  /\ setting.nest \in Nat /\ setting.limit \in Nat /\ setting.byTag \in BOOLEAN
  /\ setting.byTag => ~HasValues(graph)

\* The pool can tell the objects apart.
HeapFits == HeapTyped /\ Distinct

Closed(T, kinds) == T \subseteq Objects /\ Targets(T \cap Of(kinds)) \subseteq T

\* What objects refer to
LEMMA TargetsIs ==
  ASSUME NEW S, NEW o
  PROVE  o \in Targets(S) <=>
           o # NoObject /\ \E s \in S : \E i \in DOMAIN graph.field[s] : o = graph.field[s][i]
BY DEF Targets, ToSet

\* What objects refer to are objects.
LEMMA TargetsAreObjects ==
  ASSUME HeapFits, NEW S \in SUBSET Objects
  PROVE  Targets(S) \subseteq Objects
<1> SUFFICES ASSUME NEW o \in Targets(S) PROVE o \in Objects
  OBVIOUS
<1>1. PICK s \in S : o # NoObject /\ \E i \in DOMAIN graph.field[s] : o = graph.field[s][i]
  BY TargetsIs
<1>2. graph.field[s] \in Seq(Objects \cup {NoObject})
  BY DEF HeapFits, HeapTyped
<1> QED BY <1>1, <1>2

\* Reach is the least set that holds the objects it starts from and is closed.
LEMMA ReachIs ==
  ASSUME HeapFits, NEW S \in SUBSET Objects, NEW kinds
  PROVE  /\ S \subseteq Reach(S, kinds) /\ Closed(Reach(S, kinds), kinds)
         /\ \A T : S \subseteq T /\ Closed(T, kinds) => Reach(S, kinds) \subseteq T
<1>1. S \subseteq Reach(S, kinds) /\ Reach(S, kinds) \subseteq Objects
  BY DEF Reach
<1>2. ASSUME NEW T, S \subseteq T, Closed(T, kinds)
      PROVE  Reach(S, kinds) \subseteq T
  BY <1>2 DEF Reach, Closed
<1>3. ASSUME NEW o \in Targets(Reach(S, kinds) \cap Of(kinds))
      PROVE  o \in Reach(S, kinds)
  <2>1. PICK s \in Reach(S, kinds) \cap Of(kinds) :
          o # NoObject /\ \E i \in DOMAIN graph.field[s] : o = graph.field[s][i]
    BY TargetsIs
  <2>2. o \in Objects
    BY <1>1, <1>3, TargetsAreObjects, Reach(S, kinds) \cap Of(kinds) \subseteq Objects
  <2>3. ASSUME NEW T \in SUBSET Objects, S \subseteq T, Targets(T \cap Of(kinds)) \subseteq T
        PROVE  o \in T
    <3>1. s \in T
      BY <2>3 DEF Reach
    <3> QED BY <2>1, <2>3, <3>1, TargetsIs
  <2> QED BY <2>2, <2>3 DEF Reach
<1> QED BY <1>1, <1>2, <1>3 DEF Closed

-----------------------------------------------------------------------------
(* What is at most d fields away *)

Farther(T) == Reach(T \cup Targets(T \cap Of({"plain"})), {"array"})

\* f is Around(S) up to the depth n.
Measures(f, S, n) ==
  f = [d \in 0..n |-> IF d = 0 THEN Reach(S, {"array"}) ELSE Farther(f[d - 1])]

\* Around is the function that its recursive definition describes.
LEMMA AroundIs ==
  ASSUME HeapFits, NEW S
  PROVE  Measures(Around(S), S, setting.nest)
<1> DEFINE G == {n \in Nat : \E f : Measures(f, S, n)}
<1>1. 0 \in G
  <2>1. Measures([d \in 0..0 |-> Reach(S, {"array"})], S, 0)
    BY DEF Measures
  <2> QED BY <2>1
<1>2. ASSUME NEW n \in 0..setting.nest - 1, n \in G PROVE n + 1 \in G
  <2>0. n \in Nat /\ n + 1 \in Nat
    BY DEF HeapFits, HeapTyped
  <2>1. PICK f : Measures(f, S, n)
    BY <1>2
  <2> DEFINE g == [d \in 0..n + 1 |-> IF d = 0 THEN Reach(S, {"array"}) ELSE Farther(f[d - 1])]
  <2>2. \A d \in 0..n : g[d] = f[d]
    BY <2>0, <2>1 DEF Measures
  <2>3. \A d \in 0..n + 1 : d # 0 => g[d - 1] = f[d - 1]
    <3> HIDE DEF g
    <3>1. \A d \in 0..n + 1 : d # 0 => d - 1 \in 0..n
      BY <2>0
    <3> QED BY <2>2, <3>1
  <2>4. Measures(g, S, n + 1)
    BY <2>0, <2>3 DEF Measures
  <2> QED BY <2>0, <2>4
<1>3. setting.nest \in G
  <2>1. setting.nest \in Nat
    BY DEF HeapFits, HeapTyped
  <2> HIDE DEF G
  <2>2. 0..setting.nest \subseteq G
    BY <1>1, <1>2, <2>1, CountUp
  <2> QED BY <2>1, <2>2
<1>4. PICK f : Measures(f, S, setting.nest)
  BY <1>3
<1>5. Around(S) = CHOOSE A : Measures(A, S, setting.nest)
  BY DEF Around, Measures, Farther
<1> QED BY <1>4, <1>5

\* Around(S) grows with the depth, from S on, along the elements of arrays, and along
\* the fields of objects to the next depth.
LEMMA AroundGrows ==
  ASSUME HeapFits, NEW S \in SUBSET Objects, NEW d \in 0..setting.nest
  PROVE  /\ S \subseteq Around(S)[d] /\ Closed(Around(S)[d], {"array"})
         /\ \A e \in 0..d : Around(S)[e] \subseteq Around(S)[d]
         /\ d < setting.nest => Targets(Around(S)[d] \cap Of({"plain"})) \subseteq Around(S)[d + 1]
<1> DEFINE A == Around(S)
           G == {n \in 0..setting.nest : /\ S \subseteq A[n] /\ Closed(A[n], {"array"})
                                         /\ \A e \in 0..n : A[e] \subseteq A[n]}
<1>0. setting.nest \in Nat
  BY DEF HeapFits, HeapTyped
<1>1. A[0] = Reach(S, {"array"}) /\ \A n \in 1..setting.nest : A[n] = Farther(A[n - 1])
  BY <1>0, AroundIs DEF Measures
<1> HIDE DEF A
<1>2. 0 \in G
  BY <1>0, <1>1, ReachIs
<1>3. ASSUME NEW n \in 0..setting.nest - 1, Closed(A[n], {"array"})
      PROVE  /\ A[n] \cup Targets(A[n] \cap Of({"plain"})) \subseteq A[n + 1]
             /\ Closed(A[n + 1], {"array"})
  <2>1. Targets(A[n] \cap Of({"plain"})) \subseteq Objects
    BY <1>3, TargetsAreObjects, A[n] \cap Of({"plain"}) \in SUBSET Objects DEF Closed
  <2>2. A[n + 1] = Farther(A[n])
    BY <1>0, <1>1
  <2> DEFINE T == A[n] \cup Targets(A[n] \cap Of({"plain"}))
  <2>3. T \in SUBSET Objects
    BY <1>3, <2>1 DEF Closed
  <2>4. A[n + 1] = Reach(T, {"array"})
    BY <2>2 DEF Farther
  <2> HIDE DEF T
  <2>5. T \subseteq A[n + 1] /\ Closed(A[n + 1], {"array"})
    BY <2>3, <2>4, ReachIs
  <2> QED BY <2>5 DEF T
<1>4. ASSUME NEW n \in 0..setting.nest - 1, n \in G PROVE n + 1 \in G
  <2>1. \A e \in 0..n + 1 : e \in 0..n \/ e = n + 1
    BY <1>0
  <2>2. n + 1 \in 0..setting.nest
    BY <1>0
  <2> QED BY <1>3, <1>4, <2>1, <2>2
<1>5. 0..setting.nest \subseteq G
  <2> HIDE DEF G
  <2> QED BY <1>0, <1>2, <1>4, CountUp
<1>6. S \subseteq A[d] /\ Closed(A[d], {"array"}) /\ \A e \in 0..d : A[e] \subseteq A[d]
  BY <1>5
<1>7. d < setting.nest => Targets(A[d] \cap Of({"plain"})) \subseteq A[d + 1]
  BY <1>0, <1>3, <1>6
<1> QED BY <1>6, <1>7 DEF A

\* It is the least function that does.
LEMMA AroundLeast ==
  ASSUME HeapFits, NEW S \in SUBSET Objects, NEW Y,
         S \subseteq Y[0],
         \A d \in 0..setting.nest : Closed(Y[d], {"array"}),
         \A d \in 0..setting.nest - 1 : Y[d] \cup Targets(Y[d] \cap Of({"plain"})) \subseteq Y[d + 1],
         NEW d \in 0..setting.nest
  PROVE  Around(S)[d] \subseteq Y[d]
<1> DEFINE A == Around(S)
           G == {n \in 0..setting.nest : A[n] \subseteq Y[n]}
<1>0. setting.nest \in Nat
  BY DEF HeapFits, HeapTyped
<1>1. A[0] = Reach(S, {"array"}) /\ \A n \in 1..setting.nest : A[n] = Farther(A[n - 1])
  BY <1>0, AroundIs DEF Measures
<1>a. \A n \in 0..setting.nest : A[n] \subseteq Objects
  BY AroundGrows DEF Closed
<1> HIDE DEF A
<1>2. 0 \in G
  BY <1>0, <1>1, ReachIs
<1>3. ASSUME NEW n \in 0..setting.nest - 1, n \in G PROVE n + 1 \in G
  <2>1. Targets(A[n] \cap Of({"plain"})) \subseteq Targets(Y[n] \cap Of({"plain"}))
    <3> SUFFICES ASSUME NEW o \in Targets(A[n] \cap Of({"plain"}))
                 PROVE  o \in Targets(Y[n] \cap Of({"plain"}))
      OBVIOUS
    <3>1. PICK s \in A[n] \cap Of({"plain"}) :
            o # NoObject /\ \E i \in DOMAIN graph.field[s] : o = graph.field[s][i]
      BY TargetsIs
    <3>2. s \in Y[n] \cap Of({"plain"})
      BY <1>3
    <3> QED BY <3>1, <3>2, TargetsIs
  <2>2. A[n] \cup Targets(A[n] \cap Of({"plain"})) \subseteq Y[n + 1]
    BY <1>3, <2>1
  <2>3. A[n + 1] = Farther(A[n]) /\ n + 1 \in 0..setting.nest /\ n \in 0..setting.nest
    BY <1>0, <1>1
  <2>4. Targets(A[n] \cap Of({"plain"})) \subseteq Objects
    BY <1>a, <2>3, TargetsAreObjects, A[n] \cap Of({"plain"}) \in SUBSET Objects
  <2> DEFINE T == A[n] \cup Targets(A[n] \cap Of({"plain"}))
  <2>5. T \in SUBSET Objects /\ T \subseteq Y[n + 1]
    BY <1>a, <2>2, <2>3, <2>4
  <2>6. A[n + 1] = Reach(T, {"array"})
    BY <2>3 DEF Farther
  <2> HIDE DEF T
  <2>7. Closed(Y[n + 1], {"array"})
    BY <2>3
  <2>8. Reach(T, {"array"}) \subseteq Y[n + 1]
    BY <2>5, <2>7, ReachIs
  <2> QED BY <2>3, <2>6, <2>8
<1>4. 0..setting.nest \subseteq G
  <2> HIDE DEF G
  <2> QED BY <1>0, <1>2, <1>3, CountUp
<1> QED BY <1>4 DEF A

\* More is around more objects.
LEMMA AroundMonotone ==
  ASSUME HeapFits, NEW S \in SUBSET Objects, NEW T \in SUBSET Objects, S \subseteq T,
         NEW d \in 0..setting.nest
  PROVE  Around(S)[d] \subseteq Around(T)[d]
<1>0. setting.nest \in Nat
  BY DEF HeapFits, HeapTyped
<1>1. \A e \in 0..setting.nest : T \subseteq Around(T)[e] /\ Closed(Around(T)[e], {"array"})
  BY AroundGrows
<1>2. \A e \in 0..setting.nest - 1 :
        Around(T)[e] \cup Targets(Around(T)[e] \cap Of({"plain"})) \subseteq Around(T)[e + 1]
  <2> TAKE e \in 0..setting.nest - 1
  <2>1. e \in 0..setting.nest /\ e + 1 \in 0..setting.nest /\ e < setting.nest
    BY <1>0
  <2>2. e \in 0..e + 1
    BY <1>0
  <2>3. Around(T)[e] \subseteq Around(T)[e + 1]
    BY <2>1, <2>2, AroundGrows
  <2>4. Targets(Around(T)[e] \cap Of({"plain"})) \subseteq Around(T)[e + 1]
    BY <2>1, AroundGrows
  <2> QED BY <2>3, <2>4
<1>3. S \subseteq Around(T)[0]
  BY <1>0, <1>1
<1> QED BY <1>0, <1>1, <1>2, <1>3, AroundLeast

-----------------------------------------------------------------------------
(* The pool: its entries, and the map that finds them *)

Obj(p, id) == Entry(p, id).obj
IdsOf(p) == 0..(Len(p.objs) - 1)
Present(p) == {Obj(p, id) : id \in IdsOf(p)}
FieldOf(p, id) == graph.field[Obj(p, id)]

EntryType ==
  [obj : Objects, refs : Seq(Int), layer : Int, once : BOOLEAN, expanded : BOOLEAN]

PoolType(map) ==
  [objs : Seq(EntryType), number : Nat, map : {map}, filtering : BOOLEAN, owner : Int,
   size : Nat, thrown : BOOLEAN, tag : [Objects -> Nat], depth : Nat]

PoolTyped(p) == p \in PoolType(p.map)

\* The map knows each entry by the key of its object.
Numbered(p) ==
  /\ p.number = Len(p.objs)
  /\ DOMAIN p.map = {Key(p, Obj(p, id)) : id \in IdsOf(p)}
  /\ \A id \in IdsOf(p) : p.map[Key(p, Obj(p, id))] = id

\* The tags are those that this pool gave.
Tagged(p) ==
  /\ setting.byTag => \A id \in IdsOf(p) : p.tag[Obj(p, id)] = id + 1
  /\ \A o \in Objects : ~setting.byTag \/ o \notin Present(p) => p.tag[o] = 0

Indexed(p) == PoolTyped(p) /\ Numbered(p) /\ Tagged(p)

\* An entry of the pool is one, and is for an object.
LEMMA EntryTyped ==
  ASSUME NEW p, PoolTyped(p), NEW id \in IdsOf(p)
  PROVE  /\ Entry(p, id) \in EntryType /\ id \in Nat
         /\ Obj(p, id) \in Objects /\ Obj(p, id) \in Present(p)
<1>1. p.objs \in Seq(EntryType)
  BY DEF PoolTyped, PoolType
<1>2. id + 1 \in DOMAIN p.objs /\ id \in Nat
  BY <1>1 DEF IdsOf
<1>3. Entry(p, id) \in EntryType
  BY <1>1, <1>2 DEF Entry
<1> QED BY <1>2, <1>3 DEF EntryType, Obj, Present

\* getObjectId finds an entry if there is one for the key.
LEMMA IdIs ==
  ASSUME NEW p, Indexed(p), NEW o
  PROVE  /\ Key(p, o) \in DOMAIN p.map => getObjectId(p, o) \in IdsOf(p)
         /\ getObjectId(p, o) < 0 <=> Key(p, o) \notin DOMAIN p.map
<1>1. ASSUME Key(p, o) \in DOMAIN p.map
      PROVE  getObjectId(p, o) \in IdsOf(p)
  BY <1>1 DEF getObjectId, Indexed, Numbered
<1>2. ASSUME Key(p, o) \notin DOMAIN p.map
      PROVE  getObjectId(p, o) = -1
  BY <1>2 DEF getObjectId
<1>3. \A id \in IdsOf(p) : ~(id < 0)
  BY DEF IdsOf
<1> QED BY <1>1, <1>2, <1>3

\* If objects can be told apart, it finds the entry of an object that has one, and no
\* other.
LEMMA IdFound ==
  ASSUME HeapFits, NEW p, Indexed(p), NEW o \in Objects
  PROVE  /\ \A id \in IdsOf(p) : Obj(p, id) = o => getObjectId(p, o) = id
         /\ o \notin Present(p) => getObjectId(p, o) = -1 /\ Key(p, o) \notin DOMAIN p.map
<1>1. ASSUME NEW id \in IdsOf(p), Obj(p, id) = o
      PROVE  getObjectId(p, o) = id
  BY <1>1 DEF getObjectId, Indexed, Numbered
<1>2. ASSUME o \notin Present(p)
      PROVE  Key(p, o) \notin DOMAIN p.map
  <2>1. SUFFICES ASSUME Key(p, o) \in DOMAIN p.map PROVE FALSE
    OBVIOUS
  <2>2. PICK id \in IdsOf(p) : Key(p, o) = Key(p, Obj(p, id))
    BY <2>1 DEF Indexed, Numbered
  <2>3. Obj(p, id) # o /\ Obj(p, id) \in Objects
    BY <1>2, EntryTyped DEF Present, Indexed
  <2>4. setting.byTag => p.tag[o] = 0 /\ p.tag[Obj(p, id)] = id + 1
    BY <1>2 DEF Indexed, Tagged
  <2>5. id \in Nat
    BY EntryTyped DEF Indexed
  <2>6. ~setting.byTag => graph.hash[o] # graph.hash[Obj(p, id)]
    BY <2>3 DEF HeapFits, Distinct, HashesDiffer
  <2> QED BY <2>2, <2>4, <2>5, <2>6 DEF Key
<1> QED BY <1>1, <1>2 DEF getObjectId

\* An object has one entry.
LEMMA OneEntry ==
  ASSUME NEW p, Indexed(p), NEW i \in IdsOf(p), NEW j \in IdsOf(p), Obj(p, i) = Obj(p, j)
  PROVE  i = j
BY DEF Indexed, Numbered

\* The map has as many keys as there are entries.
LEMMA KeysCounted ==
  ASSUME NEW p, Indexed(p)
  PROVE  Cardinality(DOMAIN p.map) = Len(p.objs) /\ Len(p.objs) \in Nat
<1>1. Len(p.objs) \in Nat
  BY DEF Indexed, PoolTyped, PoolType
<1> DEFINE f == [id \in IdsOf(p) |-> Key(p, Obj(p, id))]
<1>2. f \in Bijection(IdsOf(p), DOMAIN p.map)
  <2>1. f \in [IdsOf(p) -> DOMAIN p.map]
    BY DEF Indexed, Numbered
  <2>2. \A i, j \in IdsOf(p) : f[i] = f[j] => i = j
    BY DEF Indexed, Numbered
  <2>3. \A k \in DOMAIN p.map : \E i \in IdsOf(p) : f[i] = k
    BY DEF Indexed, Numbered
  <2> HIDE DEF f
  <2> QED BY <2>1, <2>2, <2>3, Fun_IsBij
<1>3. IsFiniteSet(IdsOf(p)) /\ Cardinality(IdsOf(p)) = Len(p.objs)
  <2>1. 0 \in Int /\ Len(p.objs) - 1 \in Int
    BY <1>1
  <2>2. /\ IsFiniteSet(0..(Len(p.objs) - 1))
        /\ Cardinality(0..(Len(p.objs) - 1)) =
             IF 0 > Len(p.objs) - 1 THEN 0 ELSE Len(p.objs) - 1 - 0 + 1
    BY <2>1, FS_Interval
  <2> QED BY <1>1, <2>2 DEF IdsOf
<1>4. ExistsBijection(IdsOf(p), DOMAIN p.map)
  BY <1>2 DEF ExistsBijection
<1> QED BY <1>1, <1>3, <1>4, FS_Bijection

-----------------------------------------------------------------------------
(* Adding an object *)

NoMembers(o) == Kind(o) = "string" \/ (Kind(o) \in Arrays /\ graph.field[o] = <<>>)

NewEntry(o) ==
  [obj |-> o, refs |-> <<>>, layer |-> -1, once |-> FALSE, expanded |-> NoMembers(o)]

\* q is p with an entry for o at the end.
Grown(p, q, o) ==
  /\ Len(q.objs) = Len(p.objs) + 1
  /\ \A id \in IdsOf(p) : Entry(q, id) = Entry(p, id)
  /\ Entry(q, Len(p.objs)) = NewEntry(o)
  /\ q.depth = p.depth /\ q.filtering = p.filtering /\ q.owner = p.owner

\* The ids and objects after an entry was added
LEMMA GrownIds ==
  ASSUME NEW p, NEW q, NEW o, Grown(p, q, o), PoolTyped(p)
  PROVE  /\ IdsOf(q) = IdsOf(p) \cup {Len(p.objs)} /\ Len(p.objs) \notin IdsOf(p)
         /\ Len(p.objs) \in Nat
         /\ \A id \in IdsOf(p) : Obj(q, id) = Obj(p, id)
         /\ Obj(q, Len(p.objs)) = o
         /\ Present(q) = Present(p) \cup {o}
<1>1. Len(p.objs) \in Nat
  BY DEF PoolTyped, PoolType
<1>2. IdsOf(q) = IdsOf(p) \cup {Len(p.objs)} /\ Len(p.objs) \notin IdsOf(p)
  BY <1>1 DEF Grown, IdsOf
<1>3. \A id \in IdsOf(p) : Obj(q, id) = Obj(p, id)
  BY DEF Grown, Obj
<1>4. Obj(q, Len(p.objs)) = o
  BY DEF Grown, Obj, NewEntry
<1> QED BY <1>1, <1>2, <1>3, <1>4 DEF Present

\* addDumpDataSize changes the size and whether the limit was exceeded.
LEMMA SpendIs ==
  ASSUME HeapTyped, NEW map, NEW r \in PoolType(map)
  PROVE  /\ Spend(r) \in PoolType(map)
         /\ Spend(r).objs = r.objs /\ Spend(r).number = r.number /\ Spend(r).map = r.map
         /\ Spend(r).filtering = r.filtering /\ Spend(r).owner = r.owner
         /\ Spend(r).tag = r.tag /\ Spend(r).depth = r.depth
<1> DEFINE size == r.size + 1
           thrown == size > setting.limit
<1>1. size \in Nat
  BY DEF PoolType
<1>2. thrown \in BOOLEAN
  OBVIOUS
<1>3. Spend(r) = [r EXCEPT !.size = size, !.thrown = thrown]
  BY DEF Spend
<1> HIDE DEF size, thrown
<1> QED BY <1>1, <1>2, <1>3 DEF PoolType

\* addObject adds an entry at the end, and the map finds it.
LEMMA AddIs ==
  ASSUME HeapTyped, NEW p, Indexed(p), NEW o \in Objects, Key(p, o) \notin DOMAIN p.map
  PROVE  Grown(p, addObject(p, o), o) /\ Indexed(addObject(p, o))
<1> DEFINE q0 == IF setting.byTag /\ p.tag[o] = 0 THEN [p EXCEPT !.tag[o] = p.number + 1] ELSE p
           k == Key(q0, o)
           map == [j \in DOMAIN q0.map \cup {k} |-> IF j \in DOMAIN q0.map THEN q0.map[j] ELSE p.number]
           q == addObject(p, o)
<1>0. /\ p.objs \in Seq(EntryType) /\ p.tag \in [Objects -> Nat] /\ p.number \in Nat
      /\ p.number = Len(p.objs) /\ p.size \in Nat /\ p.depth \in Nat
      /\ p.filtering \in BOOLEAN /\ p.owner \in Int /\ p.thrown \in BOOLEAN
  BY DEF Indexed, PoolTyped, PoolType, Numbered
<1>a. o \notin Present(p)
  BY DEF Present, Indexed, Numbered
<1>1. p.tag[o] = 0
  BY <1>a DEF Indexed, Tagged
<1>2. /\ q0.tag = IF setting.byTag THEN [p.tag EXCEPT ![o] = Len(p.objs) + 1] ELSE p.tag
      /\ q0 = [p EXCEPT !.tag = q0.tag]
  BY <1>0, <1>1 DEF Indexed, PoolTyped, PoolType
<1>3. q0.tag \in [Objects -> Nat]
  BY <1>0, <1>2
<1>4. NewEntry(o) \in EntryType
  BY DEF NewEntry, EntryType, NoMembers
<1>5. /\ q \in PoolType(map)
      /\ q.objs = Append(p.objs, NewEntry(o)) /\ q.number = p.number + 1 /\ q.map = map
      /\ q.filtering = p.filtering /\ q.owner = p.owner /\ q.tag = q0.tag /\ q.depth = p.depth
  <2>1. /\ q0 \in PoolType(p.map) /\ q0.number = p.number /\ q0.objs = p.objs
        /\ q0.filtering = p.filtering /\ q0.owner = p.owner /\ q0.depth = p.depth
    <3> HIDE DEF q0
    <3> QED BY <1>2, <1>3 DEF Indexed, PoolTyped, PoolType
  <2> DEFINE r == [q0 EXCEPT !.number = @ + 1, !.map = map, !.objs = Append(@, NewEntry(o))]
  <2>2. q = Spend(r)
    BY <2>1 DEF addObject, NewEntry, NoMembers
  <2>3. Append(p.objs, NewEntry(o)) \in Seq(EntryType) /\ p.number + 1 \in Nat
    BY <1>0, <1>4
  <2> HIDE DEF q0, q, map
  <2>4. /\ r \in PoolType(map)
        /\ r.objs = Append(p.objs, NewEntry(o)) /\ r.number = p.number + 1 /\ r.map = map
        /\ r.filtering = p.filtering /\ r.owner = p.owner /\ r.tag = q0.tag /\ r.depth = p.depth
    BY <2>1, <2>3 DEF PoolType
  <2> HIDE DEF r
  <2> QED BY <2>2, <2>4, SpendIs
<1> HIDE DEF q0, q
<1>6. PoolTyped(q)
  BY <1>5 DEF PoolTyped
<1>7. Grown(p, q, o)
  <2>1. q.objs = Append(p.objs, NewEntry(o)) /\ q.depth = p.depth /\ q.filtering = p.filtering
        /\ q.owner = p.owner
    BY <1>5
  <2> QED BY <1>0, <2>1 DEF Grown, IdsOf, Entry
<1>8. Tagged(q)
  <2>1. q.tag = q0.tag
    BY <1>5
  <2>2. setting.byTag => \A id \in IdsOf(q) : q.tag[Obj(q, id)] = id + 1
    <3> SUFFICES ASSUME setting.byTag, NEW id \in IdsOf(q) PROVE q.tag[Obj(q, id)] = id + 1
      OBVIOUS
    <3>1. CASE id = Len(p.objs)
      BY <1>0, <1>2, <1>7, <2>1, <3>1, GrownIds DEF Indexed
    <3>2. CASE id \in IdsOf(p)
      <4>1. Obj(q, id) = Obj(p, id) /\ Obj(p, id) # o /\ Obj(p, id) \in Objects
        BY <1>7, <1>a, <3>2, GrownIds, EntryTyped DEF Present, Indexed
      <4> QED BY <1>0, <1>2, <2>1, <3>2, <4>1 DEF Indexed, Tagged
    <3> QED BY <1>7, <3>1, <3>2, GrownIds DEF Indexed
  <2>3. ASSUME NEW x \in Objects, ~setting.byTag \/ x \notin Present(q) PROVE q.tag[x] = 0
    <3>1. x \notin Present(q) => x \notin Present(p) /\ x # o
      BY <1>7, GrownIds DEF Indexed
    <3>2. p.tag[x] = 0
      BY <2>3, <3>1 DEF Indexed, Tagged
    <3> QED BY <1>0, <1>2, <2>1, <2>3, <3>1, <3>2
  <2> QED BY <2>2, <2>3 DEF Tagged
<1>9. Numbered(q)
  <2>1. q.map = map /\ q0.map = p.map /\ q.tag = q0.tag
    <3>1. q.map = map /\ q.tag = q0.tag
      BY <1>5
    <3>2. q0.map = p.map
      BY DEF q0
    <3> QED BY <3>1, <3>2
  <2>2. ASSUME NEW id \in IdsOf(p)
        PROVE  Key(q, Obj(q, id)) = Key(p, Obj(p, id)) /\ Key(p, Obj(p, id)) # k
    <3>1. Obj(q, id) = Obj(p, id) /\ Obj(p, id) # o /\ Obj(p, id) \in Objects
      BY <1>7, <1>a, GrownIds, EntryTyped DEF Present, Indexed
    <3>2. setting.byTag => p.tag[Obj(p, id)] = id + 1 /\ id < Len(p.objs)
      BY <1>0 DEF Indexed, Tagged, IdsOf
    <3>3. id \in Nat
      BY EntryTyped DEF Indexed
    <3>4. CASE setting.byTag
      BY <1>0, <1>2, <2>1, <3>1, <3>2, <3>3, <3>4 DEF Key
    <3>5. CASE ~setting.byTag
      <4>1. Key(q, Obj(q, id)) = Key(p, Obj(p, id)) /\ k = Key(p, o)
        BY <3>1, <3>5 DEF Key
      <4>2. Key(p, Obj(p, id)) \in DOMAIN p.map
        BY DEF Indexed, Numbered
      <4> QED BY <4>1, <4>2
    <3> QED BY <3>4, <3>5
  <2>3. Key(q, Obj(q, Len(p.objs))) = k
    BY <1>7, <2>1, GrownIds DEF Key, Indexed
  <2>4. DOMAIN q.map = DOMAIN p.map \cup {k} /\ k \notin DOMAIN p.map
    BY <2>1, <2>2 DEF Indexed, Numbered
  <2>5. IdsOf(q) = IdsOf(p) \cup {Len(p.objs)}
    BY <1>7, GrownIds DEF Indexed
  <2> HIDE DEF k, map
  <2>6. DOMAIN q.map = {Key(q, Obj(q, id)) : id \in IdsOf(q)}
    BY <2>2, <2>3, <2>4, <2>5 DEF Indexed, Numbered
  <2>7. ASSUME NEW id \in IdsOf(q) PROVE q.map[Key(q, Obj(q, id))] = id
    <3>1. CASE id = Len(p.objs)
      BY <1>0, <2>1, <2>3, <2>4, <3>1 DEF map
    <3>2. CASE id \in IdsOf(p)
      BY <2>1, <2>2, <2>4, <3>2 DEF map, Indexed, Numbered
    <3> QED BY <2>5, <3>1, <3>2
  <2>8. q.number = Len(q.objs)
    BY <1>0, <1>5
  <2> QED BY <2>6, <2>7, <2>8 DEF Numbered
<1> QED BY <1>6, <1>7, <1>8, <1>9 DEF Indexed, q

-----------------------------------------------------------------------------
(* The invariant, of a pool p and the calls c of expandObject.  First what holds of *)
(* any heap: entries, calls and the filter fit together.                            *)

CallType ==
  [id : Nat, obj : Objects, next : Nat, shown : BOOLEAN, once : BOOLEAN,
   nPos : Nat, nObjNumberBak : Nat]

EntryFits(e) ==
  /\ e.expanded <=> NoMembers(e.obj)
  /\ e.expanded => e.layer = -1 /\ ~e.once /\ e.refs = <<>>
  /\ e.layer \in -1..setting.nest

EntriesFit(p) == p.depth <= setting.nest /\ \A id \in IdsOf(p) : EntryFits(Entry(p, id))

CallFits(p, call) ==
  LET e == Entry(p, call.id)
      field == graph.field[e.obj]
  IN /\ call.id \in IdsOf(p) /\ call.obj = e.obj
     /\ ~e.expanded /\ e.layer >= 0
     /\ call.next \in 1..(Len(field) + 1)
     /\ call.shown => /\ call.next <= Len(field)
                      /\ field[call.next] \in Present(p) \cup {NoObject}
     /\ call.once = e.once
     /\ call.nPos = call.nObjNumberBak /\ call.nPos \in (call.id + 1)..Len(p.objs)

CallsFit(p, c) == c \in Seq(CallType) /\ \A k \in DOMAIN c : CallFits(p, c[k])

LayerOf(p, call) == Entry(p, call.id).layer
LevelsOf(p, call) == Levels(Obj(p, call.id))

\* A call is for the member that the one before it has come to.
Stacked(p, c) ==
  /\ \A j, k \in DOMAIN c : j < k => /\ c[j].id # c[k].id
                                     /\ c[j].nPos <= c[k].nPos
                                     /\ LayerOf(p, c[j]) <= LayerOf(p, c[k])
  /\ \A k \in DOMAIN c : k < Len(c) =>
       c[k].shown /\ FieldOf(p, c[k].id)[c[k].next] = Obj(p, c[k + 1].id)

\* The depth at which the members of call k are shown
Inner(p, c, k) == IF k = Len(c) THEN p.depth ELSE LayerOf(p, c[k + 1])

Depths(p, c) ==
  \A k \in DOMAIN c :
    /\ LayerOf(p, c[k]) + LevelsOf(p, c[k]) <= Inner(p, c, k)
    /\ IF k = 1 THEN LayerOf(p, c[k]) = 0
       ELSE LayerOf(p, c[k]) + LevelsOf(p, c[k]) = Inner(p, c, k)

\* The first value among the calls owns the filter.
FilterFits(p, c) ==
  IF p.filtering THEN \A k \in DOMAIN c : ~IsFiltered(p, c[k].id)
  ELSE \E v \in DOMAIN c : /\ c[v].id = p.owner /\ IsFiltered(p, c[v].id)
                           /\ \A k \in DOMAIN c : k < v => ~IsFiltered(p, c[k].id)

OnStack(c, id) == \E k \in DOMAIN c : c[k].id = id

\* The references noted: those that the call has passed, or all, or none
RefsCounted(p, c) ==
  /\ \A k \in DOMAIN c : Kind(Obj(p, c[k].id)) # "values" =>
       Len(Entry(p, c[k].id).refs) =
         IF c[k].once THEN Len(FieldOf(p, c[k].id)) ELSE c[k].next - 1
  /\ \A id \in IdsOf(p) : Kind(Obj(p, id)) # "values" /\ ~OnStack(c, id) =>
       Len(Entry(p, id).refs) = IF Entry(p, id).once THEN Len(FieldOf(p, id)) ELSE 0
  /\ \A id \in IdsOf(p) : Entry(p, id).once => Entry(p, id).layer >= 0
  /\ \A id \in IdsOf(p) :
       Entry(p, id).once /\ Kind(Obj(p, id)) = "plain" => Entry(p, id).layer < setting.nest

-----------------------------------------------------------------------------
(* Then what holds if values own their parts.  Entries are kept unless the value that *)
(* owns the filter has brought them.                                                  *)

Kept(p, c, id) == p.filtering \/ \A v \in DOMAIN c : c[v].id = p.owner => id < c[v].nPos

Parts == Reach(Targets(Of(Filtered)), Kinds)

PartsOwned(S) == Parts \cap Around(S)[setting.nest] \subseteq Of({"string"})

RefRight(p, id, ref) ==
  ref # -1 => /\ ref \in IdsOf(p)
              /\ \E j \in DOMAIN FieldOf(p, id) : Obj(p, ref) = FieldOf(p, id)[j]

RefsRight(p) ==
  \A id \in IdsOf(p) : \A i \in DOMAIN Entry(p, id).refs : RefRight(p, id, Entry(p, id).refs[i])

\* Entries that are kept, but that of the owner, refer to entries that are.
RefsKept(p, c) ==
  \A id \in IdsOf(p) : Kept(p, c, id) /\ (p.filtering \/ id # p.owner) =>
     \A i \in DOMAIN Entry(p, id).refs :
       Entry(p, id).refs[i] # -1 => Kept(p, c, Entry(p, id).refs[i])

\* No object is noted as being nearer than it is.
Near(p, c, S) ==
  \A id \in IdsOf(p) : Kept(p, c, id) =>
     /\ Obj(p, id) \in Around(S)[setting.nest]
     /\ Entry(p, id).layer >= 0 => Obj(p, id) \in Around(S)[Entry(p, id).layer]

\* The calls below the owner are for its parts.
Inside(p, c) ==
  ~p.filtering => \A v, k \in DOMAIN c : v < k /\ c[v].id = p.owner => Obj(p, c[k].id) \in Parts

ValuesBare(p, c) ==
  \A id \in IdsOf(p) :
    Kept(p, c, id) /\ ~OnStack(c, id) /\ Kind(Obj(p, id)) = "value" => ~Entry(p, id).once

\* o has an entry that stays, which needs no expansion or has one at this layer or a
\* lesser one.
Leads(p, c, layer, o) ==
  \E j \in IdsOf(p) : /\ Kept(p, c, j) /\ Obj(p, j) = o
                      /\ Entry(p, j).expanded \/ Entry(p, j).layer \in 0..layer

SourcesShown(p, c, S) == \A s \in S : Leads(p, c, 0, s)

Shows(e) == Kind(e.obj) = "array" \/ (Kind(e.obj) = "plain" /\ e.layer < setting.nest)

\* Has the search come to the i-th member since it came to the entry?
Met(c, id, i) ==
  \A k \in DOMAIN c : c[k].id = id => i < c[k].next \/ (i = c[k].next /\ c[k].shown)

FollowedFrom(p, c, id) ==
  LET e == Entry(p, id) IN
  Kept(p, c, id) /\ e.layer >= 0 /\ Shows(e) =>
    \A i \in DOMAIN graph.field[e.obj] :
      Met(c, id, i) => \/ graph.field[e.obj][i] = NoObject
                       \/ Leads(p, c, e.layer + Levels(e.obj), graph.field[e.obj][i])

Followed(p, c) == \A id \in IdsOf(p) : FollowedFrom(p, c, id)

ShownOnce(p, c) ==
  \A id \in IdsOf(p) :
    Kept(p, c, id) /\ ~OnStack(c, id) /\ Entry(p, id).layer >= 0 /\ Shows(Entry(p, id)) =>
      Entry(p, id).once

\* The search started at the depth 0.
FromZero(p, c) == IF c = <<>> THEN p.depth = 0 ELSE Inner(p, c, 1) = LevelsOf(p, c[1])

-----------------------------------------------------------------------------
(* What the invariants are made of *)

Fits(p, c) ==
  /\ Indexed(p) /\ EntriesFit(p)
  /\ CallsFit(p, c) /\ Stacked(p, c) /\ Depths(p, c) /\ FilterFits(p, c) /\ RefsCounted(p, c)

\* Of sources S
Good(p, c, S) ==
  RefsKept(p, c) /\ Near(p, c, S) /\ Inside(p, c) /\ ValuesBare(p, c)

-----------------------------------------------------------------------------
(* Changing an entry *)

\* q has the first n entries of p, with e for entry id.
Rewritten(p, q, n, id, e) ==
  /\ PoolTyped(q) /\ q.number = n /\ Len(q.objs) = n /\ n \in 1..Len(p.objs)
  /\ id \in 0..(n - 1)
  /\ \A j \in 0..(n - 1) : Entry(q, j) = IF j = id THEN e ELSE Entry(p, j)
  /\ e.obj = Obj(p, id) /\ e.expanded = Entry(p, id).expanded
  /\ q.tag = p.tag
  /\ DOMAIN q.map = {k \in DOMAIN p.map : p.map[k] < n}
  /\ \A k \in DOMAIN q.map : q.map[k] = p.map[k]

\* The map still finds the entries that are left.
LEMMA RewrittenIs ==
  ASSUME NEW p, Indexed(p), NEW q, NEW n, NEW id, NEW e, Rewritten(p, q, n, id, e),
         setting.byTag => n = Len(p.objs)
  PROVE  /\ Indexed(q) /\ n \in Nat /\ Len(p.objs) \in Nat
         /\ IdsOf(q) = 0..(n - 1) /\ IdsOf(q) \subseteq IdsOf(p) /\ id \in IdsOf(q) /\ id \in IdsOf(p)
         /\ Entry(q, id) = e
         /\ \A j \in IdsOf(q) : Obj(q, j) = Obj(p, j)
         /\ \A j \in IdsOf(q) : j # id => Entry(q, j) = Entry(p, j)
         /\ n = Len(p.objs) => IdsOf(q) = IdsOf(p) /\ Present(q) = Present(p)
<1>1. Len(p.objs) \in Nat /\ n \in Nat
  BY DEF Indexed, PoolTyped, PoolType, Rewritten
<1>2. IdsOf(q) = 0..(n - 1) /\ IdsOf(q) \subseteq IdsOf(p) /\ id \in IdsOf(q) /\ id \in IdsOf(p)
  BY <1>1 DEF Rewritten, IdsOf
<1>3. Entry(q, id) = e /\ \A j \in IdsOf(q) : j # id => Entry(q, j) = Entry(p, j)
  BY <1>2 DEF Rewritten
<1>4. \A j \in IdsOf(q) : Obj(q, j) = Obj(p, j)
  BY <1>3 DEF Rewritten, Obj
<1>5. n = Len(p.objs) => IdsOf(q) = IdsOf(p) /\ Present(q) = Present(p)
  BY <1>1, <1>2, <1>4 DEF IdsOf, Present
<1>6. \A o : Key(q, o) = Key(p, o)
  BY DEF Key, Rewritten
<1>7. Numbered(q)
  <2>1. \A j \in IdsOf(p) : /\ Key(p, Obj(p, j)) \in DOMAIN p.map
                            /\ p.map[Key(p, Obj(p, j))] = j
                            /\ j < n <=> j \in IdsOf(q)
    BY <1>1, <1>2 DEF Indexed, Numbered, IdsOf
  <2>2. ASSUME NEW j \in IdsOf(q)
        PROVE  /\ Key(q, Obj(q, j)) = Key(p, Obj(p, j)) /\ Key(p, Obj(p, j)) \in DOMAIN q.map
               /\ q.map[Key(q, Obj(q, j))] = j
    BY <1>2, <1>4, <1>6, <2>1 DEF Rewritten
  <2>3. ASSUME NEW k \in DOMAIN q.map PROVE \E j \in IdsOf(q) : k = Key(q, Obj(q, j))
    <3>1. k \in DOMAIN p.map /\ p.map[k] < n
      BY DEF Rewritten
    <3>2. PICK j \in IdsOf(p) : k = Key(p, Obj(p, j))
      BY <3>1 DEF Indexed, Numbered
    <3> QED BY <2>1, <2>2, <3>1, <3>2
  <2> QED BY <2>2, <2>3 DEF Numbered, Rewritten
<1>8. Tagged(q)
  <2>1. CASE setting.byTag
    BY <1>4, <1>5, <2>1 DEF Tagged, Indexed, Rewritten
  <2>2. CASE ~setting.byTag
    BY <2>2 DEF Tagged, Indexed, Rewritten
  <2> QED BY <2>1, <2>2
<1> QED BY <1>1, <1>2, <1>3, <1>4, <1>5, <1>7, <1>8 DEF Indexed, Rewritten

\* If the entries and the map stay, but for entry id:
LEMMA RewriteIs ==
  ASSUME NEW p, Indexed(p), NEW id \in IdsOf(p), NEW e \in EntryType,
         e.obj = Obj(p, id), e.expanded = Entry(p, id).expanded,
         NEW q \in PoolType(p.map), q.map = p.map, q.tag = p.tag, q.number = p.number,
         q.objs = [p.objs EXCEPT ![id + 1] = e]
  PROVE  Rewritten(p, q, Len(p.objs), id, e)
<1>1. p.objs \in Seq(EntryType) /\ p.number = Len(p.objs) /\ Len(p.objs) \in Nat
  BY DEF Indexed, PoolTyped, PoolType, Numbered
<1>2. id \in 0..(Len(p.objs) - 1) /\ Len(p.objs) \in 1..Len(p.objs) /\ Len(q.objs) = Len(p.objs)
  BY <1>1 DEF IdsOf
<1>3. \A j \in 0..(Len(p.objs) - 1) : Entry(q, j) = IF j = id THEN e ELSE Entry(p, j)
  BY <1>1, <1>2 DEF Entry
<1>4. \A k \in DOMAIN p.map : p.map[k] < Len(p.objs)
  BY <1>1 DEF Indexed, Numbered, IdsOf
<1> QED BY <1>1, <1>2, <1>3, <1>4 DEF Rewritten, PoolTyped

Owns(p, id) == p.filtering /\ IsFiltered(p, id)

\* The entry with the layer that it is expanded in
Layered(p, id, layer) == [Entry(p, id) EXCEPT !.layer = layer]

Enters(p, q, id, layer) ==
  /\ Rewritten(p, q, Len(p.objs), id, Layered(p, id, layer))
  /\ q.map = p.map /\ q \in PoolType(p.map)
  /\ q.filtering = (p.filtering /\ ~Owns(p, id))
  /\ q.owner = IF Owns(p, id) THEN id ELSE p.owner

\* EnterObject changes the layer of the entry, and perhaps who owns the filter.
LEMMA EnterIs ==
  ASSUME NEW p, Indexed(p), NEW id \in IdsOf(p), NEW layer \in Nat
  PROVE  /\ Enters(p, EnterObject(p, id, layer), id, layer)
         /\ EnterObject(p, id, layer).depth = p.depth
         /\ \A depth \in Nat :
              /\ Enters(p, [EnterObject(p, id, layer) EXCEPT !.depth = depth], id, layer)
              /\ [EnterObject(p, id, layer) EXCEPT !.depth = depth].depth = depth
<1> DEFINE r == EnterObject(p, id, layer)
           owns == p.filtering /\ IsFiltered(p, id)
           owner == IF owns THEN id ELSE p.owner
           objs == [p.objs EXCEPT ![id + 1] = Layered(p, id, layer)]
           filtering == p.filtering /\ ~owns
<1>1. /\ p \in PoolType(p.map) /\ p.objs \in Seq(EntryType) /\ p.owner \in Int
      /\ p.filtering \in BOOLEAN /\ p.depth \in Nat
  BY DEF Indexed, PoolTyped, PoolType
<1>2. Entry(p, id) \in EntryType /\ id \in Nat /\ id + 1 \in DOMAIN p.objs
  <2>1. id + 1 \in DOMAIN p.objs
    BY <1>1 DEF IdsOf
  <2> QED BY <2>1, EntryTyped DEF Indexed
<1>3. Layered(p, id, layer) \in EntryType /\ Layered(p, id, layer).obj = Obj(p, id)
      /\ Layered(p, id, layer).expanded = Entry(p, id).expanded
  BY <1>2 DEF Layered, EntryType, Obj
<1>4. objs \in Seq(EntryType) /\ owner \in Int /\ filtering \in BOOLEAN
  BY <1>1, <1>2, <1>3
<1>5. r = [p EXCEPT !.objs = objs, !.filtering = filtering, !.owner = owner]
  BY DEF EnterObject, Layered, Entry
<1>6. filtering = (p.filtering /\ ~Owns(p, id)) /\ owner = IF Owns(p, id) THEN id ELSE p.owner
  BY DEF filtering, owner, Owns
<1> HIDE DEF objs, owner, filtering, r
<1>7. r \in PoolType(p.map) /\ r.objs = objs /\ r.filtering = filtering /\ r.owner = owner
      /\ r.map = p.map /\ r.tag = p.tag /\ r.number = p.number /\ r.depth = p.depth
  BY <1>1, <1>4, <1>5 DEF PoolType
<1>8. ASSUME NEW q \in PoolType(p.map), q.objs = objs, q.filtering = filtering, q.owner = owner,
             q.map = p.map, q.tag = p.tag, q.number = p.number
      PROVE  Enters(p, q, id, layer)
  <2>1. Rewritten(p, q, Len(p.objs), id, Layered(p, id, layer))
    BY <1>3, <1>8, RewriteIs DEF objs
  <2> QED BY <1>6, <1>8, <2>1 DEF Enters
<1>9. Enters(p, r, id, layer)
  BY <1>7, <1>8
<1>10. ASSUME NEW depth \in Nat
       PROVE  Enters(p, [r EXCEPT !.depth = depth], id, layer) /\ [r EXCEPT !.depth = depth].depth = depth
  <2> DEFINE q == [r EXCEPT !.depth = depth]
  <2>1. q \in PoolType(p.map) /\ q.objs = objs /\ q.filtering = filtering /\ q.owner = owner
        /\ q.map = p.map /\ q.tag = p.tag /\ q.number = p.number /\ q.depth = depth
    BY <1>7 DEF PoolType
  <2> HIDE DEF q
  <2> QED BY <1>8, <2>1 DEF q
<1> QED BY <1>7, <1>9, <1>10 DEF r

\* The entry with a reference more
Noted(p, id, ref) == [Entry(p, id) EXCEPT !.refs = Append(@, ref)]

WithRef(p, id, ref) == Spend([p EXCEPT !.objs[id + 1].refs = Append(@, ref)])

\* Noting a reference changes the entry.
LEMMA NoteIs ==
  ASSUME HeapTyped, NEW p, Indexed(p), NEW id \in IdsOf(p), NEW ref \in Int,
         NEW q, q = WithRef(p, id, ref)
  PROVE  /\ Rewritten(p, q, Len(p.objs), id, Noted(p, id, ref))
         /\ q.filtering = p.filtering /\ q.owner = p.owner /\ q.depth = p.depth
<1> DEFINE objs == [p.objs EXCEPT ![id + 1] = Noted(p, id, ref)]
           r == [p EXCEPT !.objs = objs]
<1>1. p \in PoolType(p.map) /\ p.objs \in Seq(EntryType)
  BY DEF Indexed, PoolTyped, PoolType
<1>2. Entry(p, id) \in EntryType /\ id + 1 \in DOMAIN p.objs
  <2>1. id + 1 \in DOMAIN p.objs
    BY <1>1 DEF IdsOf
  <2> QED BY <2>1, EntryTyped DEF Indexed
<1>3. Noted(p, id, ref) \in EntryType /\ Noted(p, id, ref).obj = Obj(p, id)
      /\ Noted(p, id, ref).expanded = Entry(p, id).expanded
  <2>1. Append(Entry(p, id).refs, ref) \in Seq(Int)
    BY <1>2 DEF EntryType
  <2> QED BY <1>2, <2>1 DEF Noted, EntryType, Obj
<1>4. objs \in Seq(EntryType)
  BY <1>1, <1>2, <1>3
<1>5. q = Spend(r)
  BY DEF WithRef, Noted, Entry
<1> HIDE DEF objs
<1>6. r \in PoolType(p.map) /\ r.objs = objs /\ r.filtering = p.filtering /\ r.owner = p.owner
      /\ r.map = p.map /\ r.tag = p.tag /\ r.number = p.number /\ r.depth = p.depth
  BY <1>1, <1>4 DEF PoolType
<1> HIDE DEF r
<1>7. q \in PoolType(p.map) /\ q.objs = objs /\ q.filtering = p.filtering /\ q.owner = p.owner
      /\ q.map = p.map /\ q.tag = p.tag /\ q.number = p.number /\ q.depth = p.depth
  BY <1>5, <1>6, SpendIs
<1> QED BY <1>3, <1>7, RewriteIs DEF objs

Completed(p, id) == [Entry(p, id) EXCEPT !.once = TRUE]

\* Complete changes the entry and the depth.
LEMMA CompleteIs ==
  ASSUME NEW p, Indexed(p), NEW id \in IdsOf(p), NEW o, Levels(o) <= p.depth
  PROVE  LET q == Complete(p, id, o) IN
         /\ Rewritten(p, q, Len(p.objs), id, Completed(p, id)) /\ q \in PoolType(p.map)
         /\ q.filtering = p.filtering /\ q.owner = p.owner /\ q.map = p.map
         /\ q.depth = p.depth - Levels(o)
<1> DEFINE q == Complete(p, id, o)
           objs == [p.objs EXCEPT ![id + 1] = Completed(p, id)]
           depth == p.depth - Levels(o)
<1>1. p \in PoolType(p.map) /\ p.objs \in Seq(EntryType) /\ p.depth \in Nat
  BY DEF Indexed, PoolTyped, PoolType
<1>2. Entry(p, id) \in EntryType /\ id + 1 \in DOMAIN p.objs
  <2>1. id + 1 \in DOMAIN p.objs
    BY <1>1 DEF IdsOf
  <2> QED BY <2>1, EntryTyped DEF Indexed
<1>3. Completed(p, id) \in EntryType /\ Completed(p, id).obj = Obj(p, id)
      /\ Completed(p, id).expanded = Entry(p, id).expanded
  BY <1>2 DEF Completed, EntryType, Obj
<1>4. objs \in Seq(EntryType) /\ depth \in Nat
  BY <1>1, <1>2, <1>3 DEF Levels
<1>5. q = [p EXCEPT !.objs = objs, !.depth = depth]
  BY DEF Complete, Completed, Entry, Obj
<1> HIDE DEF objs, depth, q
<1>6. q \in PoolType(p.map) /\ q.objs = objs /\ q.filtering = p.filtering /\ q.owner = p.owner
      /\ q.map = p.map /\ q.tag = p.tag /\ q.number = p.number /\ q.depth = depth
  BY <1>1, <1>4, <1>5 DEF PoolType
<1>7. Rewritten(p, q, Len(p.objs), id, Completed(p, id))
  BY <1>3, <1>6, RewriteIs DEF objs
<1> QED BY <1>6, <1>7 DEF q, depth

BareRefs(e, b) ==
  /\ Kind(e.obj) \notin Arrays => b.refs = <<>>
  /\ DOMAIN b.refs \subseteq DOMAIN e.refs
  /\ \A i \in DOMAIN b.refs : b.refs[i] = -1 \/ (b.refs[i] = e.refs[i] /\ e.refs[i] <= 0)

\* setDumpObjValue leaves no references but those to nothing and the texts.
LEMMA BareIs ==
  ASSUME NEW e \in EntryType, NEW o
  PROVE  LET b == setDumpObjValue(e, o) IN
         /\ b \in EntryType /\ b.obj = e.obj /\ b.expanded = e.expanded /\ b.layer = e.layer
         /\ ~b.once
         /\ o = e.obj => BareRefs(e, b)
<1> DEFINE s == e.refs
           t == [i \in DOMAIN s |-> IF s[i] > 0 THEN -1 ELSE s[i]]
           refs == IF Kind(o) \notin Arrays THEN <<>>
                   ELSE IF Kind(e.obj) \notin Arrays THEN s ELSE t
<1>1. s \in Seq(Int)
  BY DEF EntryType
<1>2. setDumpObjValue(e, o) = [e EXCEPT !.once = FALSE, !.refs = refs]
  BY DEF setDumpObjValue
<1> HIDE DEF s
<1>3. DOMAIN s = 1..Len(s) /\ Len(s) \in Nat /\ \A i \in DOMAIN s : s[i] \in Int
  BY <1>1
<1>4. t \in [1..Len(s) -> Int]
  BY <1>3
<1>5. /\ DOMAIN t = DOMAIN s
      /\ \A i \in DOMAIN s : t[i] = -1 \/ (t[i] = s[i] /\ s[i] <= 0)
  BY <1>3
<1> HIDE DEF t
<1>6. t \in Seq(Int)
  BY <1>3, <1>4
<1>7. <<>> \in Seq(Int) /\ DOMAIN <<>> = {}
  OBVIOUS
<1>8. /\ refs \in Seq(Int) /\ DOMAIN refs \subseteq DOMAIN s
      /\ o = e.obj =>
           /\ \A i \in DOMAIN refs : refs[i] = -1 \/ (refs[i] = s[i] /\ s[i] <= 0)
           /\ Kind(e.obj) \notin Arrays => refs = <<>>
  <2>1. CASE Kind(o) \in Arrays /\ Kind(e.obj) \in Arrays
    BY <1>5, <1>6, <2>1
  <2>2. CASE Kind(o) \notin Arrays
    BY <1>7, <2>2
  <2>3. CASE Kind(o) \in Arrays /\ Kind(e.obj) \notin Arrays
    BY <1>1, <2>3
  <2> QED BY <2>1, <2>2, <2>3
<1> HIDE DEF refs
<1>9. LET b == [e EXCEPT !.once = FALSE, !.refs = refs] IN
      /\ b \in EntryType /\ b.obj = e.obj /\ b.expanded = e.expanded /\ b.layer = e.layer
      /\ ~b.once /\ b.refs = refs
  BY <1>8 DEF EntryType
<1> QED BY <1>2, <1>8, <1>9 DEF s, BareRefs

Bare(p, id, o) == setDumpObjValue(Entry(p, id), o)

Filters(p, id) == (p.filtering \/ p.owner = id) /\ IsFiltered(p, id)

\* LeaveObject changes the entry and removes others if the filter is free then.
LEMMA LeaveIs ==
  ASSUME NEW p, Indexed(p), NEW id \in IdsOf(p), NEW o, NEW n \in (id + 1)..Len(p.objs)
  PROVE  LET q == LeaveObject(p, id, o, n, n) IN
         /\ Rewritten(p, q, IF Filters(p, id) THEN n ELSE Len(p.objs), id,
                      IF Filters(p, id) THEN Bare(p, id, o) ELSE Entry(p, id))
         /\ q.filtering = (p.filtering \/ p.owner = id)
         /\ q.owner = p.owner /\ q.depth = p.depth
<1> DEFINE q == LeaveObject(p, id, o, n, n)
           filtering == p.filtering \/ p.owner = id
           r == [p EXCEPT !.filtering = filtering]
<1>1. /\ p \in PoolType(p.map) /\ p.objs \in Seq(EntryType) /\ Len(p.objs) \in Nat
      /\ p.filtering \in BOOLEAN
  BY DEF Indexed, PoolTyped, PoolType
<1>2. Entry(p, id) \in EntryType /\ id + 1 \in DOMAIN p.objs /\ id \in Nat /\ n \in Nat
      /\ id \in 0..(n - 1)
  <2>1. id + 1 \in DOMAIN p.objs /\ id \in Nat
    BY <1>1 DEF IdsOf
  <2> QED BY <1>1, <2>1, EntryTyped DEF Indexed
<1>3. filtering \in BOOLEAN
  BY <1>1
<1>4. q = IF r.filtering /\ IsFiltered(p, id) THEN filterUselessObject(r, id, o, n, n) ELSE r
  BY DEF LeaveObject
<1> HIDE DEF filtering, q
<1>5. r \in PoolType(p.map) /\ r.objs = p.objs /\ r.filtering = filtering /\ r.owner = p.owner
      /\ r.map = p.map /\ r.tag = p.tag /\ r.number = p.number /\ r.depth = p.depth
  BY <1>1, <1>3 DEF PoolType
<1> HIDE DEF r
<1>6. Entry(r, id) = Entry(p, id)
  BY <1>5 DEF Entry
<1>7. Filters(p, id) <=> r.filtering /\ IsFiltered(p, id)
  BY <1>5 DEF Filters, filtering
<1>8. CASE ~Filters(p, id)
  <2>1. q = r
    BY <1>4, <1>7, <1>8
  <2>2. Entry(p, id).obj = Obj(p, id)
    BY DEF Obj
  <2>3. q.objs = [p.objs EXCEPT ![id + 1] = Entry(p, id)]
    BY <1>1, <1>2, <1>5, <2>1 DEF Entry
  <2>4. Rewritten(p, q, Len(p.objs), id, Entry(p, id))
    BY <1>2, <1>5, <2>1, <2>2, <2>3, RewriteIs
  <2> QED BY <1>5, <1>8, <2>1, <2>4 DEF q, filtering
<1>9. CASE Filters(p, id)
  <2> DEFINE map == [k \in {i \in DOMAIN p.map : p.map[i] < n} |-> p.map[k]]
             objs == [SubSeq(p.objs, 1, n) EXCEPT ![id + 1] = Bare(p, id, o)]
  <2>1. q = [r EXCEPT !.map = map, !.objs = objs, !.number = n]
    <3>1. q = filterUselessObject(r, id, o, n, n)
      BY <1>4, <1>7, <1>9
    <3> QED BY <1>5, <1>6, <3>1 DEF filterUselessObject, Bare
  <2>2. Bare(p, id, o) \in EntryType /\ Bare(p, id, o).obj = Obj(p, id)
        /\ Bare(p, id, o).expanded = Entry(p, id).expanded
    BY <1>2, BareIs DEF Bare, Obj
  <2>3. SubSeq(p.objs, 1, n) \in Seq(EntryType) /\ Len(SubSeq(p.objs, 1, n)) = n
    BY <1>1, <1>2
  <2>4. objs \in Seq(EntryType) /\ Len(objs) = n
    BY <1>2, <2>2, <2>3
  <2>5. \A j \in 0..(n - 1) : objs[j + 1] = IF j = id THEN Bare(p, id, o) ELSE p.objs[j + 1]
    <3>1. \A j \in 0..(n - 1) :
            j + 1 \in DOMAIN SubSeq(p.objs, 1, n) /\ SubSeq(p.objs, 1, n)[j + 1] = p.objs[j + 1]
      BY <1>1, <1>2
    <3> DEFINE s == SubSeq(p.objs, 1, n)
    <3>2. \A j \in 0..(n - 1) : j + 1 = id + 1 <=> j = id
      BY <1>2
    <3>3. \A i \in DOMAIN s : objs[i] = IF i = id + 1 THEN Bare(p, id, o) ELSE s[i]
      OBVIOUS
    <3> HIDE DEF objs
    <3> QED BY <3>1, <3>2, <3>3
  <2>6. DOMAIN map = {k \in DOMAIN p.map : p.map[k] < n} /\ \A k \in DOMAIN map : map[k] = p.map[k]
    OBVIOUS
  <2> HIDE DEF map, objs
  <2>7. q \in PoolType(map) /\ q.objs = objs /\ q.filtering = filtering /\ q.owner = p.owner
        /\ q.map = map /\ q.tag = p.tag /\ q.number = n /\ q.depth = p.depth
    BY <1>2, <1>5, <2>1, <2>4 DEF PoolType
  <2>8. Rewritten(p, q, n, id, Bare(p, id, o))
    BY <1>1, <1>2, <2>2, <2>4, <2>5, <2>6, <2>7 DEF Rewritten, PoolTyped, Entry
  <2> QED BY <1>9, <2>7, <2>8 DEF q, filtering
<1> QED BY <1>8, <1>9

\* An entry is changed again.
LEMMA RewrittenTwice ==
  ASSUME NEW p, Indexed(p), NEW q, NEW r, NEW n, NEW id, NEW d, NEW e,
         Rewritten(p, q, Len(p.objs), id, d), Rewritten(q, r, n, id, e)
  PROVE  Rewritten(p, r, n, id, e)
<1>1. Len(p.objs) \in Nat /\ n \in Nat /\ n <= Len(p.objs) /\ Len(q.objs) = Len(p.objs)
  BY DEF Rewritten, Indexed, PoolTyped, PoolType
<1>2. \A j \in 0..(n - 1) : j \in 0..(Len(p.objs) - 1)
  BY <1>1
<1>3. id \in 0..(Len(p.objs) - 1) /\ id \in 0..(n - 1)
  BY DEF Rewritten
<1>4. \A j \in 0..(n - 1) : Entry(r, j) = IF j = id THEN e ELSE Entry(p, j)
  BY <1>2 DEF Rewritten
<1>5. Entry(q, id) = d /\ Obj(q, id) = Obj(p, id) /\ Entry(q, id).expanded = Entry(p, id).expanded
  BY <1>3 DEF Rewritten, Obj
<1>6. \A k \in DOMAIN p.map : p.map[k] < Len(p.objs)
  BY <1>1 DEF Indexed, Numbered, IdsOf
<1>7. DOMAIN q.map = DOMAIN p.map /\ \A k \in DOMAIN p.map : q.map[k] = p.map[k]
  BY <1>6 DEF Rewritten
<1>8. DOMAIN r.map = {k \in DOMAIN p.map : p.map[k] < n} /\ \A k \in DOMAIN r.map : r.map[k] = p.map[k]
  BY <1>7 DEF Rewritten
<1> QED BY <1>1, <1>3, <1>4, <1>5, <1>8 DEF Rewritten

-----------------------------------------------------------------------------
(* What a step leaves of the entries other than that of id, which it may put in a *)
(* lesser layer.                                                                  *)

Changed(p, c, q, d, id) ==
  /\ id \in IdsOf(q) /\ IdsOf(q) \subseteq IdsOf(p)
  /\ \A j \in IdsOf(q) : Obj(q, j) = Obj(p, j) /\ (j # id => Entry(q, j) = Entry(p, j))
  /\ Entry(q, id).expanded = Entry(p, id).expanded
  /\ Entry(p, id).layer >= 0 => Entry(q, id).layer \in 0..Entry(p, id).layer
  /\ \A j \in IdsOf(q) : Kept(q, d, j) <=> Kept(p, c, j)
  /\ \A j \in IdsOf(p) : Kept(p, c, j) => j \in IdsOf(q)

\* An object that was found at a layer still is.
LEMMA LeadsStays ==
  ASSUME NEW p, NEW q, PoolTyped(p), NEW c, NEW d, NEW id, Changed(p, c, q, d, id),
         NEW layer \in Int, NEW o, Leads(p, c, layer, o)
  PROVE  Leads(q, d, layer, o)
<1>1. PICK j \in IdsOf(p) : /\ Kept(p, c, j) /\ Obj(p, j) = o
                            /\ Entry(p, j).expanded \/ Entry(p, j).layer \in 0..layer
  BY DEF Leads
<1>2. j \in IdsOf(q) /\ Kept(q, d, j) /\ Obj(q, j) = o
  BY <1>1 DEF Changed
<1>3. Entry(q, j).expanded \/ Entry(q, j).layer \in 0..layer
  <2>1. CASE j # id
    BY <1>1, <1>2, <2>1 DEF Changed
  <2>2. CASE j = id
    <3>1. Entry(p, j).layer \in Int
      BY <1>1, EntryTyped DEF EntryType
    <3> QED BY <1>1, <2>2, <3>1 DEF Changed
  <2> QED BY <2>1, <2>2
<1> QED BY <1>2, <1>3 DEF Leads

\* No object is noted as nearer than it is, if the changed one is not.
LEMMA NearStays ==
  ASSUME NEW p, NEW q, NEW c, NEW d, NEW id, Changed(p, c, q, d, id), NEW S, Near(p, c, S),
         Kept(q, d, id) /\ Entry(q, id).layer >= 0 => Obj(q, id) \in Around(S)[Entry(q, id).layer]
  PROVE  Near(q, d, S)
<1> SUFFICES ASSUME NEW j \in IdsOf(q), Kept(q, d, j)
             PROVE  /\ Obj(q, j) \in Around(S)[setting.nest]
                    /\ Entry(q, j).layer >= 0 => Obj(q, j) \in Around(S)[Entry(q, j).layer]
  BY DEF Near
<1>1. j \in IdsOf(p) /\ Kept(p, c, j) /\ Obj(q, j) = Obj(p, j)
  BY DEF Changed
<1>2. j # id => Entry(q, j) = Entry(p, j)
  BY DEF Changed
<1> QED BY <1>1, <1>2 DEF Near

\* The members that entries have come to lead on, if those of the changed one do.
LEMMA FollowedStays ==
  ASSUME NEW p, NEW q, PoolTyped(p), NEW c, NEW d, NEW id, Changed(p, c, q, d, id), Followed(p, c),
         \A j \in IdsOf(q) :
           \/ FollowedFrom(q, d, j)
           \/ /\ Entry(q, j) = Entry(p, j)
              /\ \A i \in DOMAIN FieldOf(q, j) :
                   Kept(q, d, j) /\ Entry(q, j).layer >= 0 /\ Shows(Entry(q, j)) /\ Met(d, j, i) =>
                     \/ Met(c, j, i) \/ FieldOf(q, j)[i] = NoObject
                     \/ Leads(q, d, Entry(q, j).layer + Levels(Obj(q, j)), FieldOf(q, j)[i])
  PROVE  Followed(q, d)
<1> SUFFICES ASSUME NEW j \in IdsOf(q), ~FollowedFrom(q, d, j) PROVE FALSE
  BY DEF Followed
<1> DEFINE e == Entry(p, j)
<1>1. j \in IdsOf(p) /\ Entry(q, j) = e /\ Obj(q, j) = e.obj /\ FieldOf(q, j) = graph.field[e.obj]
  BY DEF Changed, Obj, FieldOf
<1>2. PICK i \in DOMAIN graph.field[e.obj] :
        /\ Kept(q, d, j) /\ e.layer >= 0 /\ Shows(e) /\ Met(d, j, i)
        /\ graph.field[e.obj][i] # NoObject
        /\ ~Leads(q, d, e.layer + Levels(e.obj), graph.field[e.obj][i])
  BY <1>1 DEF FollowedFrom
<1>3. Kept(p, c, j) /\ Met(c, j, i)
  BY <1>1, <1>2 DEF Changed
<1>4. FollowedFrom(p, c, j)
  BY <1>1 DEF Followed
<1>5. Leads(p, c, e.layer + Levels(e.obj), graph.field[e.obj][i])
  BY <1>2, <1>3, <1>4 DEF FollowedFrom
<1>6. e.layer + Levels(e.obj) \in Int
  BY <1>1, EntryTyped DEF EntryType, Levels
<1> QED BY <1>2, <1>5, <1>6, LeadsStays

\* What was left is complete, if the changed entry is.
LEMMA ShownOnceStays ==
  ASSUME NEW p, NEW q, NEW c, NEW d, NEW id, Changed(p, c, q, d, id), ShownOnce(p, c),
         \A j \in IdsOf(q) : j # id /\ OnStack(c, j) => OnStack(d, j),
         Kept(q, d, id) /\ ~OnStack(d, id) /\ Entry(q, id).layer >= 0 /\ Shows(Entry(q, id)) =>
           Entry(q, id).once
  PROVE  ShownOnce(q, d)
<1> SUFFICES ASSUME NEW j \in IdsOf(q), j # id, Kept(q, d, j), ~OnStack(d, j),
                    Entry(q, j).layer >= 0, Shows(Entry(q, j))
             PROVE  Entry(q, j).once
  BY DEF ShownOnce
<1>1. j \in IdsOf(p) /\ Kept(p, c, j) /\ Entry(q, j) = Entry(p, j) /\ ~OnStack(c, j)
  BY DEF Changed
<1> QED BY <1>1 DEF ShownOnce

\* Values that were left have no members, if the changed one has none.
LEMMA ValuesBareStays ==
  ASSUME NEW p, NEW q, NEW c, NEW d, NEW id, Changed(p, c, q, d, id), ValuesBare(p, c),
         \A j \in IdsOf(q) : j # id /\ OnStack(c, j) => OnStack(d, j),
         Kept(q, d, id) /\ ~OnStack(d, id) /\ Kind(Obj(q, id)) = "value" => ~Entry(q, id).once
  PROVE  ValuesBare(q, d)
<1> SUFFICES ASSUME NEW j \in IdsOf(q), j # id, Kept(q, d, j), ~OnStack(d, j),
                    Kind(Obj(q, j)) = "value"
             PROVE  ~Entry(q, j).once
  BY DEF ValuesBare
<1>1. j \in IdsOf(p) /\ Kept(p, c, j) /\ Entry(q, j) = Entry(p, j) /\ Obj(q, j) = Obj(p, j)
      /\ ~OnStack(c, j)
  BY DEF Changed
<1> QED BY <1>1 DEF ValuesBare

\* Either no entry goes, or those that stay refer to none that do.
LEMMA RefsRightStays ==
  ASSUME NEW p, NEW q, NEW c, NEW d, NEW id, Changed(p, c, q, d, id), RefsRight(p),
         \/ IdsOf(q) = IdsOf(p)
         \/ RefsKept(p, c) /\ \A j \in IdsOf(q) : Kept(q, d, j) /\ (p.filtering \/ j = id \/ j # p.owner),
         \A i \in DOMAIN Entry(q, id).refs : RefRight(q, id, Entry(q, id).refs[i])
  PROVE  RefsRight(q)
<1> SUFFICES ASSUME NEW j \in IdsOf(q), j # id, NEW i \in DOMAIN Entry(q, j).refs
             PROVE  RefRight(q, j, Entry(q, j).refs[i])
  BY DEF RefsRight
<1> DEFINE ref == Entry(p, j).refs[i]
<1>1. j \in IdsOf(p) /\ Entry(q, j) = Entry(p, j) /\ Obj(q, j) = Obj(p, j)
  BY DEF Changed
<1> SUFFICES ASSUME ref # -1
             PROVE  ref \in IdsOf(q) /\ \E k \in DOMAIN FieldOf(q, j) : Obj(q, ref) = FieldOf(q, j)[k]
  BY <1>1 DEF RefRight
<1>2. RefRight(p, j, ref)
  BY <1>1 DEF RefsRight
<1>3. ref \in IdsOf(p) /\ \E k \in DOMAIN FieldOf(p, j) : Obj(p, ref) = FieldOf(p, j)[k]
  BY <1>2 DEF RefRight
<1>4. ref \in IdsOf(q)
  <2>1. CASE IdsOf(q) = IdsOf(p)
    BY <1>3, <2>1
  <2>2. CASE RefsKept(p, c) /\ \A x \in IdsOf(q) : Kept(q, d, x) /\ (p.filtering \/ x = id \/ x # p.owner)
    <3>1. Kept(p, c, j) /\ (p.filtering \/ j # p.owner)
      BY <2>2 DEF Changed
    <3>2. Kept(p, c, ref)
      BY <1>1, <2>2, <3>1 DEF RefsKept
    <3> QED BY <1>3, <3>2 DEF Changed
  <2> QED BY <2>1, <2>2
<1>5. FieldOf(q, j) = FieldOf(p, j) /\ Obj(q, ref) = Obj(p, ref)
  BY <1>1, <1>4 DEF FieldOf, Changed
<1> QED BY <1>3, <1>4, <1>5

\* Kept entries refer to kept entries, if the changed one does.
LEMMA RefsKeptStays ==
  ASSUME NEW p, NEW q, NEW c, NEW d, NEW id, Changed(p, c, q, d, id), RefsKept(p, c), RefsRight(p),
         \A j \in IdsOf(q) : j # id /\ (q.filtering \/ j # q.owner) => (p.filtering \/ j # p.owner),
         Kept(q, d, id) /\ (q.filtering \/ id # q.owner) =>
           \A i \in DOMAIN Entry(q, id).refs :
             Entry(q, id).refs[i] # -1 => Kept(q, d, Entry(q, id).refs[i])
  PROVE  RefsKept(q, d)
<1> SUFFICES ASSUME NEW j \in IdsOf(q), j # id, Kept(q, d, j), q.filtering \/ j # q.owner,
                    NEW i \in DOMAIN Entry(q, j).refs, Entry(q, j).refs[i] # -1
             PROVE  Kept(q, d, Entry(q, j).refs[i])
  BY DEF RefsKept
<1>1. j \in IdsOf(p) /\ Entry(q, j) = Entry(p, j) /\ Kept(p, c, j) /\ (p.filtering \/ j # p.owner)
  BY DEF Changed
<1> DEFINE ref == Entry(p, j).refs[i]
<1>2. Kept(p, c, ref)
  BY <1>1 DEF RefsKept
<1>3. RefRight(p, j, ref)
  BY <1>1 DEF RefsRight
<1>4. ref \in IdsOf(p)
  BY <1>1, <1>3 DEF RefRight
<1> QED BY <1>1, <1>2, <1>4 DEF Changed

-----------------------------------------------------------------------------
(* Steps of the search on entries and calls *)

\* A call is one, and its id is that of an entry.
LEMMA CallsTyped ==
  ASSUME NEW p, NEW c, CallsFit(p, c), NEW k \in DOMAIN c
  PROVE  /\ c[k] \in CallType /\ c[k].id \in IdsOf(p) /\ CallFits(p, c[k])
         /\ k \in Nat /\ k >= 1 /\ k <= Len(c) /\ Len(c) \in Nat /\ DOMAIN c = 1..Len(c)
BY DEF CallsFit, CallFits

\* An entry is added.
LEMMA GrowFits ==
  ASSUME HeapFits, NEW p, NEW q, NEW c, NEW o \in Objects, Fits(p, c), Indexed(q), Grown(p, q, o)
  PROVE  Fits(q, c)
<1>0. /\ Indexed(p) /\ PoolTyped(p) /\ EntriesFit(p) /\ CallsFit(p, c) /\ Stacked(p, c) /\ Depths(p, c)
      /\ FilterFits(p, c) /\ RefsCounted(p, c)
  BY DEF Fits, Indexed
<1>1. /\ IdsOf(q) = IdsOf(p) \cup {Len(p.objs)} /\ Len(p.objs) \notin IdsOf(p)
      /\ Len(p.objs) \in Nat
      /\ \A id \in IdsOf(p) : Obj(q, id) = Obj(p, id) /\ Entry(q, id) = Entry(p, id)
      /\ Obj(q, Len(p.objs)) = o /\ Entry(q, Len(p.objs)) = NewEntry(o)
      /\ Present(q) = Present(p) \cup {o}
      /\ Len(q.objs) = Len(p.objs) + 1
  BY <1>0, GrownIds DEF Grown
<1>2. q.depth = p.depth /\ q.filtering = p.filtering /\ q.owner = p.owner
  BY DEF Grown
<1>3. EntriesFit(q)
  <2>1. EntryFits(NewEntry(o))
    BY DEF EntryFits, NewEntry, HeapFits, HeapTyped
  <2> QED BY <1>0, <1>1, <1>2, <2>1 DEF EntriesFit
<1>4. \A k \in DOMAIN c : /\ c[k].id \in IdsOf(p) /\ Entry(q, c[k].id) = Entry(p, c[k].id)
                          /\ Obj(q, c[k].id) = Obj(p, c[k].id)
                          /\ LayerOf(q, c[k]) = LayerOf(p, c[k])
                          /\ LevelsOf(q, c[k]) = LevelsOf(p, c[k])
                          /\ FieldOf(q, c[k].id) = FieldOf(p, c[k].id)
  BY <1>0, <1>1, CallsTyped DEF LayerOf, LevelsOf, FieldOf
<1>5. CallsFit(q, c)
  <2> SUFFICES ASSUME NEW k \in DOMAIN c PROVE CallFits(q, c[k])
    BY <1>0 DEF CallsFit
  <2>1. CallFits(p, c[k]) /\ c[k] \in CallType
    BY <1>0, CallsTyped
  <2>2. Entry(q, c[k].id) = Entry(p, c[k].id) /\ c[k].id \in IdsOf(q)
    BY <1>1, <1>4
  <2>3. c[k].nPos \in (c[k].id + 1)..Len(p.objs) /\ c[k].nPos \in Nat /\ c[k].id \in Nat
    BY <2>1 DEF CallFits, CallType
  <2>4. c[k].nPos \in (c[k].id + 1)..Len(q.objs)
    BY <1>1, <2>3
  <2>5. Present(p) \subseteq Present(q)
    BY <1>1
  <2> QED BY <2>1, <2>2, <2>4, <2>5 DEF CallFits
<1>6. Stacked(q, c)
  <2>1. \A k \in DOMAIN c : k < Len(c) => k + 1 \in DOMAIN c
    BY <1>0 DEF CallsFit
  <2> QED BY <1>0, <1>4, <2>1 DEF Stacked
<1>7. Depths(q, c)
  <2>1. \A k \in DOMAIN c : k # Len(c) => k + 1 \in DOMAIN c
    BY <1>0 DEF CallsFit
  <2>2. \A k \in DOMAIN c : Inner(q, c, k) = Inner(p, c, k)
    BY <1>2, <1>4, <2>1 DEF Inner
  <2> QED BY <1>0, <1>4, <2>2 DEF Depths
<1>8. FilterFits(q, c)
  <2>1. \A k \in DOMAIN c : IsFiltered(q, c[k].id) = IsFiltered(p, c[k].id)
    BY <1>4 DEF IsFiltered
  <2> QED BY <1>0, <1>2, <2>1 DEF FilterFits
<1>9. RefsCounted(q, c)
  <2>1. ~OnStack(c, Len(p.objs))
    BY <1>1, <1>4 DEF OnStack
  <2>2. NewEntry(o).refs = <<>> /\ ~NewEntry(o).once
    BY DEF NewEntry
  <2>3. \A k \in DOMAIN c : Kind(Obj(q, c[k].id)) # "values" =>
          Len(Entry(q, c[k].id).refs) =
            IF c[k].once THEN Len(FieldOf(q, c[k].id)) ELSE c[k].next - 1
    BY <1>0, <1>4 DEF RefsCounted
  <2>4. \A id \in IdsOf(q) : id \in IdsOf(p) \/ id = Len(p.objs)
    BY <1>1
  <2>5. ASSUME NEW id \in IdsOf(q), Kind(Obj(q, id)) # "values", ~OnStack(c, id)
        PROVE  Len(Entry(q, id).refs) = IF Entry(q, id).once THEN Len(FieldOf(q, id)) ELSE 0
    <3>1. CASE id \in IdsOf(p)
      BY <1>0, <1>1, <2>5, <3>1 DEF RefsCounted, FieldOf
    <3>2. CASE id = Len(p.objs)
      BY <1>1, <2>2, <3>2
    <3> QED BY <2>4, <3>1, <3>2
  <2>6. \A id \in IdsOf(q) : Entry(q, id).once => Entry(q, id).layer >= 0
    BY <1>0, <1>1, <2>2, <2>4 DEF RefsCounted
  <2>7. \A id \in IdsOf(q) :
          Entry(q, id).once /\ Kind(Obj(q, id)) = "plain" => Entry(q, id).layer < setting.nest
    BY <1>0, <1>1, <2>2, <2>4 DEF RefsCounted
  <2> QED BY <2>3, <2>5, <2>6, <2>7 DEF RefsCounted
<1> QED BY <1>3, <1>5, <1>6, <1>7, <1>8, <1>9 DEF Fits

\* The innermost call comes to a member, which has an entry now.
Marked(c) == [c EXCEPT ![Len(c)].shown = TRUE]

\* What Marked changes
LEMMA MarkedIs ==
  ASSUME NEW c \in Seq(CallType), c # <<>>
  PROVE  /\ Marked(c) \in Seq(CallType) /\ Len(Marked(c)) = Len(c) /\ DOMAIN Marked(c) = DOMAIN c
         /\ Len(c) \in DOMAIN c /\ Marked(c)[Len(c)].shown
         /\ \A k \in DOMAIN c :
              /\ Marked(c)[k].id = c[k].id /\ Marked(c)[k].obj = c[k].obj
              /\ Marked(c)[k].next = c[k].next
              /\ Marked(c)[k].once = c[k].once /\ Marked(c)[k].nPos = c[k].nPos
              /\ Marked(c)[k].nObjNumberBak = c[k].nObjNumberBak
              /\ k # Len(c) => Marked(c)[k].shown = c[k].shown
<1>1. Len(c) \in DOMAIN c /\ DOMAIN c = 1..Len(c) /\ Len(c) \in Nat
  OBVIOUS
<1>2. \A k \in DOMAIN c : c[k] \in CallType
  OBVIOUS
<1>3. \A k \in DOMAIN c : Marked(c)[k] = IF k = Len(c) THEN [c[k] EXCEPT !.shown = TRUE] ELSE c[k]
  BY <1>1 DEF Marked
<1>4. [c[Len(c)] EXCEPT !.shown = TRUE] \in CallType
  BY <1>1, <1>2 DEF CallType
<1>5. Marked(c) \in Seq(CallType) /\ Len(Marked(c)) = Len(c) /\ DOMAIN Marked(c) = DOMAIN c
  BY <1>1, <1>4 DEF Marked
<1> QED BY <1>1, <1>2, <1>3, <1>5 DEF CallType

\* Coming to a member leaves entries and calls fitting.
LEMMA MarkFits ==
  ASSUME HeapFits, NEW p, NEW c, Fits(p, c), c # <<>>,
         c[Len(c)].next <= Len(FieldOf(p, c[Len(c)].id)),
         FieldOf(p, c[Len(c)].id)[c[Len(c)].next] \in Present(p) \cup {NoObject}
  PROVE  /\ Fits(p, Marked(c))
         /\ \A id : OnStack(Marked(c), id) <=> OnStack(c, id)
         /\ \A id : Kept(p, Marked(c), id) <=> Kept(p, c, id)
<1> DEFINE d == Marked(c)
<1>0. /\ CallsFit(p, c) /\ Stacked(p, c) /\ Depths(p, c) /\ FilterFits(p, c) /\ RefsCounted(p, c)
      /\ c \in Seq(CallType)
  BY DEF Fits, CallsFit
<1>1. /\ d \in Seq(CallType) /\ Len(d) = Len(c) /\ DOMAIN d = DOMAIN c
      /\ Len(c) \in DOMAIN c /\ d[Len(c)].shown
      /\ \A k \in DOMAIN c :
              /\ d[k].id = c[k].id /\ d[k].obj = c[k].obj /\ d[k].next = c[k].next
              /\ d[k].once = c[k].once /\ d[k].nPos = c[k].nPos
              /\ d[k].nObjNumberBak = c[k].nObjNumberBak
              /\ k # Len(c) => d[k].shown = c[k].shown
  BY <1>0, MarkedIs
<1> HIDE DEF d
<1>2. CallsFit(p, d)
  <2> SUFFICES ASSUME NEW k \in DOMAIN c PROVE CallFits(p, d[k])
    BY <1>1 DEF CallsFit
  <2>1. CallFits(p, c[k])
    BY <1>0, CallsTyped
  <2>2. CASE k # Len(c)
    BY <1>1, <2>1, <2>2 DEF CallFits
  <2>3. CASE k = Len(c)
    BY <1>1, <2>1, <2>3 DEF CallFits, FieldOf, Obj
  <2> QED BY <2>2, <2>3
<1>3. \A k \in DOMAIN c : LayerOf(p, d[k]) = LayerOf(p, c[k]) /\ LevelsOf(p, d[k]) = LevelsOf(p, c[k])
  BY <1>1 DEF LayerOf, LevelsOf
<1>4. \A k \in DOMAIN c : k < Len(c) => k + 1 \in DOMAIN c /\ k # Len(c)
  BY <1>0
<1>5. Stacked(p, d)
  <2>1. \A j, k \in DOMAIN c : j < k => /\ d[j].id # d[k].id
                                        /\ d[j].nPos <= d[k].nPos
                                        /\ LayerOf(p, d[j]) <= LayerOf(p, d[k])
    BY <1>0, <1>1, <1>3 DEF Stacked
  <2>2. ASSUME NEW k \in DOMAIN c, k < Len(c)
        PROVE  d[k].shown /\ FieldOf(p, d[k].id)[d[k].next] = Obj(p, d[k + 1].id)
    <3>1. c[k].shown /\ FieldOf(p, c[k].id)[c[k].next] = Obj(p, c[k + 1].id)
      BY <1>0, <2>2 DEF Stacked
    <3> QED BY <1>1, <1>4, <2>2, <3>1
  <2> QED BY <1>1, <2>1, <2>2 DEF Stacked
<1>6. Depths(p, d)
  <2>1. \A k \in DOMAIN c : k # Len(c) => k + 1 \in DOMAIN c
    BY <1>0
  <2>2. \A k \in DOMAIN c : Inner(p, d, k) = Inner(p, c, k)
    BY <1>1, <1>3, <2>1 DEF Inner
  <2> QED BY <1>0, <1>1, <1>3, <2>2 DEF Depths
<1>7. FilterFits(p, d)
  BY <1>0, <1>1 DEF FilterFits
<1>8. \A id : OnStack(d, id) <=> OnStack(c, id)
  BY <1>1 DEF OnStack
<1>9. RefsCounted(p, d)
  <2>1. \A k \in DOMAIN c : Kind(Obj(p, d[k].id)) # "values" =>
          Len(Entry(p, d[k].id).refs) =
            IF d[k].once THEN Len(FieldOf(p, d[k].id)) ELSE d[k].next - 1
    BY <1>0, <1>1 DEF RefsCounted
  <2>2. \A id \in IdsOf(p) : Kind(Obj(p, id)) # "values" /\ ~OnStack(d, id) =>
          Len(Entry(p, id).refs) = IF Entry(p, id).once THEN Len(FieldOf(p, id)) ELSE 0
    BY <1>0, <1>8 DEF RefsCounted
  <2> QED BY <1>0, <1>1, <2>1, <2>2 DEF RefsCounted
<1>10. \A id : Kept(p, d, id) <=> Kept(p, c, id)
  BY <1>1 DEF Kept
<1> QED BY <1>2, <1>5, <1>6, <1>7, <1>8, <1>9, <1>10 DEF Fits, d

\* The layers of calls are depths up to the present one.
LEMMA StackLayers ==
  ASSUME NEW p, NEW c, Fits(p, c), NEW k \in DOMAIN c
  PROVE  /\ LayerOf(p, c[k]) \in Nat /\ p.depth \in Nat /\ LayerOf(p, c[k]) <= p.depth
         /\ LevelsOf(p, c[k]) \in 0..1
<1>0. CallsFit(p, c) /\ Stacked(p, c) /\ Depths(p, c) /\ Indexed(p) /\ PoolTyped(p)
  BY DEF Fits, Indexed
<1>1. Len(c) \in DOMAIN c /\ k <= Len(c) /\ k \in Nat /\ Len(c) \in Nat
  BY <1>0, CallsTyped
<1>2. \A j \in DOMAIN c : LayerOf(p, c[j]) \in Nat /\ LevelsOf(p, c[j]) \in 0..1
  <2> TAKE j \in DOMAIN c
  <2>1. CallFits(p, c[j]) /\ c[j].id \in IdsOf(p)
    BY <1>0, CallsTyped
  <2>2. Entry(p, c[j].id).layer \in Int
    BY <1>0, <2>1, EntryTyped DEF EntryType
  <2> QED BY <2>1, <2>2 DEF CallFits, LayerOf, LevelsOf, Levels
<1>3. p.depth \in Nat
  BY <1>0 DEF PoolTyped, PoolType
<1>4. LayerOf(p, c[Len(c)]) + LevelsOf(p, c[Len(c)]) <= p.depth
  BY <1>0, <1>1 DEF Depths, Inner
<1>5. LayerOf(p, c[k]) <= LayerOf(p, c[Len(c)])
  <2>1. CASE k = Len(c)
    BY <1>1, <1>2, <2>1
  <2>2. CASE k < Len(c)
    BY <1>0, <1>1, <2>2 DEF Stacked
  <2> QED BY <1>1, <2>1, <2>2
<1> QED BY <1>1, <1>2, <1>3, <1>4, <1>5

\* An entry is expanded at a layer: that of the first call, or the depth.
Expands(p, c, id, layer) ==
  /\ id \in IdsOf(p) /\ ~Entry(p, id).expanded
  /\ Entry(p, id).layer < 0 \/ layer < Entry(p, id).layer
  /\ layer = IF c = <<>> THEN 0 ELSE p.depth

\* An entry that is to be expanded has no call, as calls are at lesser layers.
LEMMA ExpandsIs ==
  ASSUME HeapFits, NEW p, NEW c, Fits(p, c), NEW id, NEW layer, Expands(p, c, id, layer)
  PROVE  /\ layer \in Nat /\ layer <= setting.nest /\ ~OnStack(c, id) /\ p.depth \in Nat
         /\ Levels(Obj(p, id)) \in 0..1 /\ Entry(p, id).layer \in Int
         /\ EntryFits(Layered(p, id, layer))
         /\ Layered(p, id, layer).obj = Obj(p, id)
         /\ Layered(p, id, layer).layer = layer
         /\ Layered(p, id, layer).once = Entry(p, id).once
         /\ Layered(p, id, layer).refs = Entry(p, id).refs
         /\ Layered(p, id, layer).expanded = Entry(p, id).expanded
<1>0. Indexed(p) /\ PoolTyped(p) /\ EntriesFit(p) /\ id \in IdsOf(p)
  BY DEF Fits, Indexed, Expands
<1>1. p.depth \in Nat /\ p.depth <= setting.nest /\ setting.nest \in Nat
  BY <1>0 DEF PoolTyped, PoolType, EntriesFit, HeapFits, HeapTyped
<1>2. layer \in Nat /\ layer <= setting.nest
  BY <1>1 DEF Expands
<1>3. Entry(p, id) \in EntryType
  BY <1>0, EntryTyped
<1>4. ~OnStack(c, id)
  <2> SUFFICES ASSUME NEW k \in DOMAIN c, c[k].id = id PROVE FALSE
    BY DEF OnStack
  <2>1. Entry(p, id).layer \in Nat /\ Entry(p, id).layer <= p.depth
    BY StackLayers DEF LayerOf
  <2>2. c # <<>>
    OBVIOUS
  <2> QED BY <1>1, <2>1, <2>2 DEF Expands
<1>5. /\ Layered(p, id, layer).obj = Obj(p, id) /\ Layered(p, id, layer).layer = layer
      /\ Layered(p, id, layer).once = Entry(p, id).once
      /\ Layered(p, id, layer).refs = Entry(p, id).refs
      /\ Layered(p, id, layer).expanded = Entry(p, id).expanded
  BY <1>3 DEF Layered, EntryType, Obj
<1>6. EntryFits(Layered(p, id, layer))
  <2>1. EntryFits(Entry(p, id)) /\ ~Entry(p, id).expanded
    BY <1>0 DEF EntriesFit, Expands
  <2> QED BY <1>1, <1>2, <1>5, <2>1 DEF EntryFits, Obj
<1> QED BY <1>1, <1>2, <1>3, <1>4, <1>5, <1>6 DEF Levels, EntryType

\* An object is expanded: there is a call more.
Entered(p, c, q, d, id, layer) ==
  /\ WithinDepth(p, Obj(p, id))
  /\ q = [EnterObject(p, id, layer) EXCEPT !.depth = @ + Levels(Obj(p, id))]
  /\ d = Append(c, NewCall(p, id, Obj(p, id)))
  /\ c # <<>> => /\ c[Len(c)].shown
                 /\ FieldOf(p, c[Len(c)].id)[c[Len(c)].next] = Obj(p, id)

\* What that amounts to
Pushed(p, c, q, d, id, layer) ==
  /\ Rewritten(p, q, Len(p.objs), id, Layered(p, id, layer))
  /\ q.filtering <=> p.filtering /\ ~Owns(p, id)
  /\ q.owner = IF Owns(p, id) THEN id ELSE p.owner
  /\ q.depth = p.depth + Levels(Obj(p, id)) /\ q.depth <= setting.nest
  /\ d \in Seq(CallType) /\ Len(d) = Len(c) + 1 /\ c \in Seq(CallType) /\ Len(c) \in Nat
  /\ DOMAIN d = DOMAIN c \cup {Len(c) + 1} /\ Len(c) + 1 \notin DOMAIN c
  /\ \A k \in DOMAIN c : d[k] = c[k]
  /\ d[Len(c) + 1] = NewCall(p, id, Obj(p, id))
  /\ LET call == NewCall(p, id, Obj(p, id)) IN
     /\ call.id = id /\ call.obj = Obj(p, id) /\ call.next = 1 /\ ~call.shown
     /\ call.once = Entry(p, id).once
     /\ call.nPos = Len(p.objs) /\ call.nObjNumberBak = Len(p.objs)

\* A new call has met no member, and knows the size of the pool.
LEMMA NewCallIs ==
  ASSUME NEW p, Indexed(p), NEW id \in IdsOf(p), NEW o \in Objects
  PROVE  LET call == NewCall(p, id, o) IN
         /\ call \in CallType
         /\ call.id = id /\ call.obj = o /\ call.next = 1 /\ ~call.shown
         /\ call.once = Entry(p, id).once
         /\ call.nPos = Len(p.objs) /\ call.nObjNumberBak = Len(p.objs)
<1>1. NewCall(p, id, o) = [id |-> id, obj |-> o, next |-> 1, shown |-> FALSE,
                           once |-> Entry(p, id).once,
                           nPos |-> Len(p.objs), nObjNumberBak |-> Len(p.objs)]
  <2>1. Cardinality(DOMAIN p.map) = Len(p.objs) /\ p.number = Len(p.objs)
    BY KeysCounted DEF Indexed, Numbered
  <2> QED BY <2>1 DEF NewCall
<1>2. Len(p.objs) \in Nat /\ id \in Nat /\ Entry(p, id).once \in BOOLEAN
  BY KeysCounted, EntryTyped DEF EntryType, Indexed
<1> QED BY <1>1, <1>2 DEF CallType

\* The new pool and calls are those of Pushed.
LEMMA EnteredIs ==
  ASSUME HeapFits, NEW p, NEW c, Fits(p, c), NEW id, NEW layer, Expands(p, c, id, layer),
         NEW q, NEW d, Entered(p, c, q, d, id, layer)
  PROVE  Pushed(p, c, q, d, id, layer)
<1>0. Indexed(p) /\ PoolTyped(p) /\ EntriesFit(p) /\ CallsFit(p, c) /\ id \in IdsOf(p)
  BY DEF Fits, Indexed, Expands
<1>1. layer \in Nat /\ p.depth \in Nat /\ Levels(Obj(p, id)) \in 0..1
  BY ExpandsIs
<1> DEFINE r == EnterObject(p, id, layer)
           depth == p.depth + Levels(Obj(p, id))
<1>2. r.depth = p.depth
  BY <1>0, <1>1, EnterIs
<1>3. q = [r EXCEPT !.depth = depth]
  BY <1>2 DEF Entered
<1>4. depth \in Nat
  BY <1>1
<1>5. Enters(p, q, id, layer) /\ q.depth = depth
  <2> HIDE DEF depth, r
  <2> QED BY <1>0, <1>1, <1>3, <1>4, EnterIs DEF r
<1>7. depth <= setting.nest
  BY DEF Entered, WithinDepth
<1>8. Obj(p, id) \in Objects
  BY <1>0, EntryTyped
<1>9. NewCall(p, id, Obj(p, id)) \in CallType
  BY <1>0, <1>8, NewCallIs
<1>10. c \in Seq(CallType) /\ d = Append(c, NewCall(p, id, Obj(p, id)))
  BY <1>0 DEF CallsFit, Entered
<1>11. /\ d \in Seq(CallType) /\ Len(d) = Len(c) + 1 /\ c \in Seq(CallType) /\ Len(c) \in Nat
       /\ DOMAIN d = DOMAIN c \cup {Len(c) + 1} /\ Len(c) + 1 \notin DOMAIN c
       /\ \A k \in DOMAIN c : d[k] = c[k]
       /\ d[Len(c) + 1] = NewCall(p, id, Obj(p, id))
  <2> HIDE DEF NewCall
  <2> QED BY <1>9, <1>10
<1>12. LET call == NewCall(p, id, Obj(p, id)) IN
       /\ call.id = id /\ call.obj = Obj(p, id) /\ call.next = 1 /\ ~call.shown
       /\ call.once = Entry(p, id).once
       /\ call.nPos = Len(p.objs) /\ call.nObjNumberBak = Len(p.objs)
  BY <1>0, <1>8, NewCallIs
<1> HIDE DEF NewCall
<1> QED BY <1>5, <1>7, <1>11, <1>12 DEF Enters, Pushed

\* Expanding an object leaves entries and calls fitting.
LEMMA EnterFits ==
  ASSUME HeapFits, NEW p, NEW c, Fits(p, c), NEW id, NEW layer, Expands(p, c, id, layer),
         NEW q, NEW d, Entered(p, c, q, d, id, layer)
  PROVE  Fits(q, d) /\ Changed(p, c, q, d, id)
<1> DEFINE e == Layered(p, id, layer)
           n == Len(c) + 1
           new == NewCall(p, id, Obj(p, id))
<1>0. /\ Indexed(p) /\ PoolTyped(p) /\ EntriesFit(p) /\ CallsFit(p, c) /\ Stacked(p, c) /\ Depths(p, c)
      /\ FilterFits(p, c) /\ RefsCounted(p, c) /\ id \in IdsOf(p)
  BY DEF Fits, Indexed, Expands
<1>1. /\ Rewritten(p, q, Len(p.objs), id, e)
      /\ q.filtering <=> p.filtering /\ ~Owns(p, id)
      /\ q.owner = IF Owns(p, id) THEN id ELSE p.owner
      /\ q.depth = p.depth + Levels(Obj(p, id)) /\ q.depth <= setting.nest
      /\ d \in Seq(CallType) /\ Len(d) = n /\ Len(c) \in Nat
      /\ DOMAIN d = DOMAIN c \cup {n} /\ n \notin DOMAIN c
      /\ \A k \in DOMAIN c : d[k] = c[k]
      /\ d[n] = new
      /\ new.id = id /\ new.obj = Obj(p, id) /\ new.next = 1 /\ ~new.shown
      /\ new.once = Entry(p, id).once
      /\ new.nPos = Len(p.objs) /\ new.nObjNumberBak = Len(p.objs)
  <2>1. e = Layered(p, id, layer) /\ n = Len(c) + 1 /\ new = NewCall(p, id, Obj(p, id))
    OBVIOUS
  <2> HIDE DEF e, n, new
  <2>2. Pushed(p, c, q, d, id, layer)
    BY EnteredIs
  <2> QED BY <2>1, <2>2 DEF Pushed
<1>2. /\ layer \in Nat /\ layer <= setting.nest /\ ~OnStack(c, id) /\ p.depth \in Nat
      /\ Levels(Obj(p, id)) \in 0..1 /\ Entry(p, id).layer \in Int
      /\ EntryFits(e) /\ e.obj = Obj(p, id) /\ e.layer = layer /\ e.once = Entry(p, id).once
      /\ e.refs = Entry(p, id).refs /\ e.expanded = Entry(p, id).expanded
  BY ExpandsIs
<1> HIDE DEF e
<1>3. /\ Indexed(q) /\ Len(p.objs) \in Nat
      /\ IdsOf(q) = IdsOf(p) /\ Present(q) = Present(p)
      /\ Entry(q, id) = e
      /\ \A j \in IdsOf(q) : Obj(q, j) = Obj(p, j)
      /\ \A j \in IdsOf(q) : j # id => Entry(q, j) = Entry(p, j)
      /\ Len(q.objs) = Len(p.objs)
  <2>1. Len(q.objs) = Len(p.objs)
    BY <1>1 DEF Rewritten
  <2> QED BY <1>0, <1>1, <2>1, RewrittenIs
<1>4. \A k \in DOMAIN c : /\ c[k].id \in IdsOf(p) /\ c[k].id # id /\ CallFits(p, c[k])
                          /\ c[k] \in CallType
  BY <1>0, <1>2, CallsTyped DEF OnStack
<1>5. \A k \in DOMAIN c : /\ Entry(q, d[k].id) = Entry(p, c[k].id)
                          /\ Obj(q, d[k].id) = Obj(p, c[k].id)
                          /\ FieldOf(q, d[k].id) = FieldOf(p, c[k].id)
                          /\ LayerOf(q, d[k]) = LayerOf(p, c[k])
                          /\ LevelsOf(q, d[k]) = LevelsOf(p, c[k])
  BY <1>1, <1>3, <1>4 DEF LayerOf, LevelsOf, FieldOf
<1>6. /\ d[n].id = id /\ d[n].obj = Obj(p, id) /\ d[n].next = 1 /\ ~d[n].shown
      /\ d[n].once = Entry(p, id).once
      /\ d[n].nPos = Len(p.objs) /\ d[n].nObjNumberBak = Len(p.objs)
      /\ LayerOf(q, d[n]) = layer /\ LevelsOf(q, d[n]) = Levels(Obj(p, id))
  BY <1>0, <1>1, <1>2, <1>3 DEF LayerOf, LevelsOf
<1> HIDE DEF new
<1>7. EntriesFit(q)
  BY <1>0, <1>1, <1>2, <1>3 DEF EntriesFit
<1>8. CallsFit(q, d)
  <2>1. ASSUME NEW k \in DOMAIN c PROVE CallFits(q, d[k])
    BY <1>1, <1>3, <1>4, <1>5 DEF CallFits
  <2>2. CallFits(q, d[n])
    <3>1. ~e.expanded /\ Len(graph.field[e.obj]) \in Nat
      <4>1. Obj(p, id) \in Objects
        BY <1>0, EntryTyped
      <4>2. graph.field[Obj(p, id)] \in Seq(Objects \cup {NoObject})
        BY <4>1 DEF HeapFits, HeapTyped
      <4> QED BY <1>2, <4>2 DEF Expands
    <3>2. id \in 0..(Len(p.objs) - 1)
      BY <1>0 DEF IdsOf
    <3> QED BY <1>0, <1>2, <1>3, <1>6, <3>1, <3>2 DEF CallFits
  <2> QED BY <1>1, <2>1, <2>2 DEF CallsFit
<1>9. \A k \in DOMAIN c : LayerOf(p, c[k]) \in Nat /\ LayerOf(p, c[k]) <= p.depth
                          /\ LevelsOf(p, c[k]) \in 0..1
  BY StackLayers
<1>10. c # <<>> => layer = p.depth /\ Len(c) \in DOMAIN c
  BY <1>0 DEF Expands, CallsFit
<1>11. DOMAIN c = 1..Len(c) /\ DOMAIN d = 1..n
  BY <1>0, <1>1 DEF CallsFit
<1>12. Stacked(q, d)
  <2>1. ASSUME NEW j \in DOMAIN d, NEW k \in DOMAIN d, j < k
        PROVE  d[j].id # d[k].id /\ d[j].nPos <= d[k].nPos /\ LayerOf(q, d[j]) <= LayerOf(q, d[k])
    <3>1. j \in DOMAIN c
      BY <1>1, <1>11, <2>1
    <3>2. CASE k \in DOMAIN c
      BY <1>0, <1>1, <1>5, <2>1, <3>1, <3>2 DEF Stacked
    <3>3. CASE k = n
      <4>1. c # <<>>
        BY <3>1
      <4>2. c[j].nPos <= Len(p.objs)
        BY <1>3, <1>4, <3>1 DEF CallFits
      <4> QED BY <1>1, <1>4, <1>5, <1>6, <1>9, <1>10, <3>1, <3>3, <4>1, <4>2
    <3> QED BY <1>1, <3>2, <3>3
  <2>2. ASSUME NEW k \in DOMAIN d, k < n
        PROVE  d[k].shown /\ FieldOf(q, d[k].id)[d[k].next] = Obj(q, d[k + 1].id)
    <3>1. k \in DOMAIN c
      BY <1>1, <2>2
    <3>2. CASE k < Len(c)
      <4>1. k + 1 \in DOMAIN c
        BY <1>11, <3>1, <3>2
      <4> QED BY <1>0, <1>1, <1>5, <3>1, <3>2, <4>1 DEF Stacked
    <3>3. CASE k = Len(c)
      <4>1. c # <<>> /\ d[k + 1].id = id /\ Obj(q, id) = Obj(p, id)
        BY <1>0, <1>3, <1>6, <3>1, <3>3
      <4> QED BY <1>1, <1>5, <3>1, <3>3, <4>1 DEF Entered
    <3> QED BY <1>11, <3>1, <3>2, <3>3
  <2> QED BY <1>1, <2>1, <2>2 DEF Stacked
<1>13. Depths(q, d)
  <2> SUFFICES ASSUME NEW k \in DOMAIN d
               PROVE  /\ LayerOf(q, d[k]) + LevelsOf(q, d[k]) <= Inner(q, d, k)
                      /\ IF k = 1 THEN LayerOf(q, d[k]) = 0
                         ELSE LayerOf(q, d[k]) + LevelsOf(q, d[k]) = Inner(q, d, k)
    BY DEF Depths
  <2>1. CASE k = n
    <3>1. Inner(q, d, k) = p.depth + Levels(Obj(p, id))
      BY <1>1, <2>1 DEF Inner
    <3>2. k = 1 => c = <<>>
      BY <1>0, <1>1, <2>1 DEF CallsFit
    <3>3. k = 1 => layer = 0
      BY <3>2 DEF Expands
    <3>4. k # 1 => layer = p.depth
      <4>1. k # 1 => c # <<>>
        BY <1>1, <2>1
      <4> QED BY <1>10, <4>1
    <3> QED BY <1>2, <1>6, <2>1, <3>1, <3>3, <3>4
  <2>2. CASE k \in DOMAIN c
    <3>1. Inner(q, d, k) = Inner(p, c, k)
      <4>1. CASE k = Len(c)
        <5>1. Inner(q, d, k) = LayerOf(q, d[n])
          BY <1>1, <1>11, <4>1 DEF Inner
        <5>2. Inner(p, c, k) = p.depth /\ c # <<>>
          BY <2>2, <4>1 DEF Inner
        <5> QED BY <1>6, <1>10, <5>1, <5>2
      <4>2. CASE k # Len(c)
        <5>1. k + 1 \in DOMAIN c /\ k # n
          BY <1>1, <1>11, <2>2, <4>2
        <5> QED BY <1>1, <1>5, <4>2, <5>1 DEF Inner
      <4> QED BY <4>1, <4>2
    <3> QED BY <1>0, <1>5, <2>2, <3>1 DEF Depths
  <2> QED BY <1>1, <2>1, <2>2
<1>14. /\ \A k \in DOMAIN c : IsFiltered(q, d[k].id) = IsFiltered(p, c[k].id)
       /\ IsFiltered(q, d[n].id) = IsFiltered(p, id)
  BY <1>0, <1>1, <1>3, <1>4, <1>6 DEF IsFiltered, Obj
<1>15. FilterFits(q, d)
  <2>1. CASE q.filtering
    <3>1. p.filtering /\ ~IsFiltered(p, id)
      BY <1>1, <2>1 DEF Owns
    <3> QED BY <1>0, <1>1, <1>14, <2>1, <3>1 DEF FilterFits
  <2>2. CASE p.filtering /\ ~q.filtering
    <3>1. Owns(p, id) /\ q.owner = id /\ IsFiltered(p, id)
      BY <1>1, <2>2 DEF Owns
    <3>2. \A k \in DOMAIN d : k < n => k \in DOMAIN c
      BY <1>1
    <3>3. \A k \in DOMAIN c : ~IsFiltered(q, d[k].id)
      BY <1>0, <1>14, <2>2 DEF FilterFits
    <3> QED BY <1>1, <1>6, <1>14, <2>2, <3>1, <3>2, <3>3 DEF FilterFits
  <2>3. CASE ~p.filtering
    <3>1. ~q.filtering /\ q.owner = p.owner
      BY <1>1, <2>3 DEF Owns
    <3>2. PICK v \in DOMAIN c : /\ c[v].id = p.owner /\ IsFiltered(p, c[v].id)
                                /\ \A k \in DOMAIN c : k < v => ~IsFiltered(p, c[k].id)
      BY <1>0, <2>3 DEF FilterFits
    <3>3. \A k \in DOMAIN d : k < v => k \in DOMAIN c
      BY <1>1, <1>11
    <3>4. v \in DOMAIN d /\ d[v].id = q.owner /\ IsFiltered(q, d[v].id)
      BY <1>1, <1>14, <3>1, <3>2
    <3>5. \A k \in DOMAIN d : k < v => ~IsFiltered(q, d[k].id)
      BY <1>1, <1>14, <3>2, <3>3
    <3> QED BY <3>1, <3>4, <3>5 DEF FilterFits
  <2> QED BY <1>1, <2>1, <2>2, <2>3
<1>16. \A j : OnStack(d, j) <=> OnStack(c, j) \/ j = id
  BY <1>1, <1>6 DEF OnStack
<1>17. RefsCounted(q, d)
  <2>1. \A k \in DOMAIN d : Kind(Obj(q, d[k].id)) # "values" =>
          Len(Entry(q, d[k].id).refs) =
            IF d[k].once THEN Len(FieldOf(q, d[k].id)) ELSE d[k].next - 1
    <3> TAKE k \in DOMAIN d
    <3>1. CASE k \in DOMAIN c
      BY <1>0, <1>1, <1>5, <3>1 DEF RefsCounted
    <3>2. CASE k = n
      <4>1. FieldOf(q, id) = FieldOf(p, id) /\ Obj(q, id) = Obj(p, id)
        BY <1>0, <1>3 DEF FieldOf
      <4> QED BY <1>0, <1>2, <1>3, <1>6, <3>2, <4>1 DEF RefsCounted
    <3> QED BY <1>1, <3>1, <3>2
  <2>2. \A j \in IdsOf(q) : Kind(Obj(q, j)) # "values" /\ ~OnStack(d, j) =>
          Len(Entry(q, j).refs) = IF Entry(q, j).once THEN Len(FieldOf(q, j)) ELSE 0
    BY <1>0, <1>3, <1>16 DEF RefsCounted, FieldOf
  <2>3. \A j \in IdsOf(q) : Entry(q, j).once => Entry(q, j).layer >= 0
    BY <1>0, <1>2, <1>3 DEF RefsCounted
  <2>4. \A j \in IdsOf(q) :
          Entry(q, j).once /\ Kind(Obj(q, j)) = "plain" => Entry(q, j).layer < setting.nest
    <3> SUFFICES ASSUME Entry(q, id).once, Kind(Obj(p, id)) = "plain"
                 PROVE  layer < setting.nest
      BY <1>0, <1>2, <1>3 DEF RefsCounted
    <3>1. Entry(p, id).layer < setting.nest /\ Entry(p, id).layer >= 0
      BY <1>0, <1>2, <1>3 DEF RefsCounted
    <3> QED BY <1>2, <3>1 DEF Expands, HeapFits, HeapTyped
  <2> QED BY <2>1, <2>2, <2>3, <2>4 DEF RefsCounted
<1>18. \A j \in IdsOf(q) : Kept(q, d, j) <=> Kept(p, c, j)
  <2> TAKE j \in IdsOf(q)
  <2>1. CASE q.filtering
    BY <1>1, <2>1 DEF Kept
  <2>2. CASE p.filtering /\ ~q.filtering
    <3>1. q.owner = id
      BY <1>1, <2>2
    <3>2. \A v \in DOMAIN d : d[v].id = id => d[v].nPos = Len(p.objs)
      BY <1>1, <1>4, <1>6
    <3>3. j \in Nat /\ j < Len(p.objs)
      BY <1>3 DEF IdsOf
    <3> QED BY <2>2, <3>1, <3>2, <3>3 DEF Kept
  <2>3. CASE ~p.filtering
    <3>1. ~q.filtering /\ q.owner = p.owner
      BY <1>1, <2>3 DEF Owns
    <3>2. p.owner # id
      BY <1>0, <1>2, <2>3 DEF FilterFits, OnStack
    <3> QED BY <1>1, <1>6, <2>3, <3>1, <3>2 DEF Kept
  <2> QED BY <1>1, <2>1, <2>2, <2>3
<1>19. Changed(p, c, q, d, id)
  <2>1. Entry(p, id).layer >= 0 => Entry(q, id).layer \in 0..Entry(p, id).layer
    BY <1>2, <1>3 DEF Expands
  <2> QED BY <1>0, <1>2, <1>3, <1>18, <2>1 DEF Changed
<1> QED BY <1>3, <1>7, <1>8, <1>12, <1>13, <1>15, <1>17, <1>19 DEF Fits

-----------------------------------------------------------------------------
(* Steps after which an entry that changes has no call *)

\* The calls d, which are those of c but for the innermost, if any, fit what is left
\* after entry id changed.
Trimmed(p, c, q, d, id) ==
  /\ IF d = c THEN Len(q.objs) = Len(p.objs) /\ q.depth = p.depth
     ELSE /\ c # <<>> /\ d = SubSeq(c, 1, Len(c) - 1)
          /\ Len(c) # 1 => q.depth = LayerOf(p, c[Len(c)])
  /\ ~OnStack(d, id)
  /\ \A k \in DOMAIN c : c[k].nPos <= Len(q.objs)

\* The calls but the innermost
LEMMA ButLastIs ==
  ASSUME NEW c \in Seq(CallType), c # <<>>, NEW d, d = SubSeq(c, 1, Len(c) - 1)
  PROVE  /\ d \in Seq(CallType) /\ DOMAIN d = 1..Len(d) /\ DOMAIN c = 1..Len(c)
         /\ Len(c) \in Nat /\ Len(d) \in Nat /\ Len(d) = Len(c) - 1 /\ Len(c) \in DOMAIN c
         /\ \A k \in DOMAIN d : k \in DOMAIN c /\ d[k] = c[k]
<1> DEFINE m == Len(c) - 1
<1>1. Len(c) \in Nat /\ Len(c) >= 1 /\ DOMAIN c = 1..Len(c)
  OBVIOUS
<1>2. m \in Nat /\ m <= Len(c) /\ d = SubSeq(c, 1, m)
  BY <1>1
<1>3. m - 1 + 1 = m /\ 1 \in Int /\ m \in Int /\ (IF 1 <= m THEN m - 1 + 1 ELSE 0) = m
      /\ \A k \in 1..m : 1 + k - 1 = k /\ k \in DOMAIN c
  BY <1>1, <1>2
<1>4. d \in Seq(CallType) /\ Len(d) = m /\ \A k \in 1..m : d[k] = c[k]
  <2> HIDE DEF m
  <2>1. \A k \in 1..m : c[k] \in CallType
    BY <1>3
  <2> QED BY <1>2, <1>3, <2>1
<1>5. DOMAIN d = 1..m
  BY <1>4
<1> QED BY <1>1, <1>2, <1>3, <1>4, <1>5

\* The calls that are left are calls that there were.
LEMMA TrimmedIs ==
  ASSUME NEW c \in Seq(CallType), NEW d, d = c \/ (c # <<>> /\ d = SubSeq(c, 1, Len(c) - 1))
  PROVE  /\ d \in Seq(CallType) /\ DOMAIN d = 1..Len(d) /\ DOMAIN c = 1..Len(c)
         /\ Len(c) \in Nat /\ Len(d) \in Nat
         /\ \A k \in DOMAIN d : k \in DOMAIN c /\ d[k] = c[k]
         /\ d # c => Len(d) = Len(c) - 1 /\ Len(c) \in DOMAIN c
<1>1. CASE d = c
  BY <1>1
<1>2. CASE d # c
  BY <1>2, ButLastIs
<1> QED BY <1>1, <1>2

\* The calls that are left fit the entries that are left.
LEMMA TrimFits ==
  ASSUME HeapFits, NEW p, NEW c, Fits(p, c), NEW q, NEW d, NEW id, NEW n, NEW e,
         Rewritten(p, q, n, id, e), setting.byTag => n = Len(p.objs), Trimmed(p, c, q, d, id)
  PROVE  /\ CallsFit(q, d) /\ Stacked(q, d) /\ Depths(q, d)
         /\ \A k \in DOMAIN d : /\ k \in DOMAIN c /\ d[k] = c[k]
                                /\ Entry(q, d[k].id) = Entry(p, c[k].id)
                                /\ Obj(q, d[k].id) = Obj(p, c[k].id)
                                /\ d[k].id # id /\ d[k].id \in IdsOf(q)
                                /\ FieldOf(q, d[k].id) = FieldOf(p, c[k].id)
<1>0. /\ Indexed(p) /\ PoolTyped(p) /\ CallsFit(p, c) /\ Stacked(p, c) /\ Depths(p, c)
      /\ c \in Seq(CallType)
  BY DEF Fits, Indexed, CallsFit
<1>a. /\ d \in Seq(CallType) /\ DOMAIN d = 1..Len(d) /\ DOMAIN c = 1..Len(c)
      /\ Len(c) \in Nat /\ Len(d) \in Nat
      /\ \A k \in DOMAIN d : k \in DOMAIN c /\ d[k] = c[k]
      /\ d # c => Len(d) = Len(c) - 1 /\ Len(c) \in DOMAIN c
  <2>1. d = c \/ (c # <<>> /\ d = SubSeq(c, 1, Len(c) - 1))
    BY DEF Trimmed
  <2> QED BY <1>0, <2>1, TrimmedIs
<1>b. d \in Seq(CallType) /\ \A k \in DOMAIN d : k \in DOMAIN c /\ d[k] = c[k]
  BY <1>a
<1> DEFINE lc == Len(c)
           ld == Len(d)
<1>c. /\ lc \in Nat /\ ld \in Nat /\ (d # c => ld = lc - 1) /\ (d = c => ld = lc)
      /\ \A k : k \in DOMAIN d <=> k \in 1..ld
      /\ \A k : k \in DOMAIN c <=> k \in 1..lc
  BY <1>a
<1>2. /\ Indexed(q) /\ n \in Nat /\ IdsOf(q) = 0..(n - 1) /\ IdsOf(q) \subseteq IdsOf(p)
      /\ id \in IdsOf(q) /\ id \in IdsOf(p)
      /\ \A j \in IdsOf(q) : Obj(q, j) = Obj(p, j)
      /\ \A j \in IdsOf(q) : j # id => Entry(q, j) = Entry(p, j)
      /\ n = Len(p.objs) => Present(q) = Present(p)
  BY <1>0, RewrittenIs
<1>3. Len(q.objs) = n
  BY DEF Rewritten
<1>4. \A k \in DOMAIN c : CallFits(p, c[k]) /\ c[k].id \in IdsOf(q) /\ c[k].nPos <= n
  <2> TAKE k \in DOMAIN c
  <2>1. CallFits(p, c[k]) /\ c[k] \in CallType
    BY <1>0, CallsTyped
  <2>2. c[k].id \in Nat /\ c[k].nPos \in Nat /\ Len(p.objs) \in Nat
    BY <1>0, <2>1, KeysCounted DEF CallType
  <2>3. c[k].nPos \in (c[k].id + 1)..Len(p.objs)
    BY <2>1 DEF CallFits
  <2>4. c[k].nPos <= n
    BY <1>3 DEF Trimmed
  <2>5. n \in Nat /\ IdsOf(q) = 0..(n - 1)
    BY <1>2
  <2>6. c[k].id \in 0..(n - 1)
    BY <2>2, <2>3, <2>4, <2>5
  <2> QED BY <2>1, <2>4, <2>5, <2>6
<1>5. ASSUME NEW k \in DOMAIN d
      PROVE  /\ d[k].id \in IdsOf(q) /\ d[k].id # id /\ Entry(q, d[k].id) = Entry(p, c[k].id)
             /\ Obj(q, d[k].id) = Obj(p, c[k].id)
             /\ FieldOf(q, d[k].id) = FieldOf(p, c[k].id)
             /\ LayerOf(q, d[k]) = LayerOf(p, c[k])
             /\ LevelsOf(q, d[k]) = LevelsOf(p, c[k])
  <2>1. d[k] = c[k] /\ d[k].id # id /\ k \in DOMAIN c
    BY <1>b DEF Trimmed, OnStack
  <2>2. d[k].id \in IdsOf(q)
    BY <1>4, <2>1
  <2> QED BY <1>2, <2>1, <2>2 DEF FieldOf, LayerOf, LevelsOf
<1> HIDE DEF lc, ld
<1>6. ASSUME NEW k \in DOMAIN c, k < lc
      PROVE  c[k].shown /\ FieldOf(p, c[k].id)[c[k].next] = Obj(p, c[k + 1].id)
  BY <1>0, <1>6 DEF Stacked, lc
<1>7. CallsFit(q, d)
  <2> SUFFICES ASSUME NEW k \in DOMAIN d PROVE CallFits(q, d[k])
    BY <1>b DEF CallsFit
  <2>1. CallFits(p, c[k]) /\ d[k] = c[k] /\ k \in DOMAIN c /\ c[k].nPos <= n
    BY <1>b, <1>4
  <2>2. d[k].shown => FieldOf(p, c[k].id)[c[k].next] \in Present(q) \cup {NoObject}
    <3>1. CASE d = c
      <4>1. Present(q) = Present(p)
        BY <1>2, <1>3, <3>1 DEF Trimmed
      <4> QED BY <2>1, <4>1 DEF CallFits, FieldOf, Obj
    <3>2. CASE d # c
      <4>1. k < lc /\ k + 1 \in DOMAIN c
        BY <1>c, <3>2
      <4>2. FieldOf(p, c[k].id)[c[k].next] = Obj(p, c[k + 1].id)
        BY <1>6, <2>1, <4>1
      <4>3. c[k + 1].id \in IdsOf(q)
        BY <1>4, <4>1
      <4>4. Obj(p, c[k + 1].id) = Obj(q, c[k + 1].id)
        BY <1>2, <4>3
      <4> QED BY <4>2, <4>3, <4>4 DEF Present
    <3> QED BY <3>1, <3>2
  <2>3. c[k].nPos \in (c[k].id + 1)..Len(q.objs)
    <3>1. c[k] \in CallType /\ Len(p.objs) \in Nat
      BY <1>0, <2>1, CallsTyped, KeysCounted
    <3>2. c[k].nPos \in Nat /\ c[k].id \in Nat
      BY <3>1 DEF CallType
    <3> QED BY <1>2, <1>3, <2>1, <3>1, <3>2 DEF CallFits
  <2> QED BY <1>5, <2>1, <2>2, <2>3 DEF CallFits, FieldOf, Obj
<1>8. Stacked(q, d)
  <2>1. \A j, k \in DOMAIN d : j < k => /\ d[j].id # d[k].id
                                        /\ d[j].nPos <= d[k].nPos
                                        /\ LayerOf(q, d[j]) <= LayerOf(q, d[k])
    BY <1>0, <1>b, <1>5 DEF Stacked
  <2>2. ASSUME NEW k \in DOMAIN d, k < ld
        PROVE  d[k].shown /\ FieldOf(q, d[k].id)[d[k].next] = Obj(q, d[k + 1].id)
    <3>1. k + 1 \in DOMAIN d /\ k < lc
      BY <1>c, <2>2
    <3> QED BY <1>b, <1>5, <1>6, <3>1
  <2> QED BY <2>1, <2>2 DEF Stacked, ld
<1>9. Depths(q, d)
  <2> SUFFICES ASSUME NEW k \in DOMAIN d
               PROVE  Inner(q, d, k) = Inner(p, c, k)
    <3>1. \A k \in DOMAIN d : Inner(q, d, k) = Inner(p, c, k)
      OBVIOUS
    <3> QED BY <1>0, <1>b, <1>5, <3>1 DEF Depths
  <2>1. CASE k # ld
    <3>1. k + 1 \in DOMAIN d /\ k # lc
      BY <1>c, <2>1
    <3>2. Inner(q, d, k) = LayerOf(q, d[k + 1]) /\ Inner(p, c, k) = LayerOf(p, c[k + 1])
      BY <2>1, <3>1 DEF Inner, lc, ld
    <3> QED BY <1>5, <3>1, <3>2
  <2>2. CASE k = ld /\ d = c
    <3>1. q.depth = p.depth
      BY <2>2 DEF Trimmed
    <3> QED BY <2>2, <3>1 DEF Inner, ld
  <2>3. CASE k = ld /\ d # c
    <3>1. k + 1 = lc /\ k # lc /\ lc # 1
      BY <1>c, <2>3
    <3>2. Inner(q, d, k) = q.depth /\ Inner(p, c, k) = LayerOf(p, c[lc])
      BY <2>3, <3>1 DEF Inner, lc, ld
    <3>3. q.depth = LayerOf(p, c[lc])
      BY <2>3, <3>1 DEF Trimmed, lc
    <3> QED BY <3>2, <3>3
  <2> QED BY <2>1, <2>2, <2>3
<1> QED BY <1>b, <1>5, <1>7, <1>8, <1>9

\* A field beyond the nest depth: the object is left at once.
Skips(p, q, id, layer) ==
  /\ ~WithinDepth(p, Obj(p, id))
  /\ LET call == NewCall(p, id, Obj(p, id))
     IN q = LeaveObject(EnterObject(p, id, layer), id, call.obj, call.nPos, call.nObjNumberBak)

SkippedEntry(p, id, layer) ==
  IF Owns(p, id) THEN setDumpObjValue(Layered(p, id, layer), Obj(p, id)) ELSE Layered(p, id, layer)

Skipped(p, q, id, layer) ==
  /\ Rewritten(p, q, Len(p.objs), id, SkippedEntry(p, id, layer))
  /\ q.filtering <=> p.filtering
  /\ ~p.filtering => q.owner = p.owner
  /\ q.depth = p.depth /\ p.depth = setting.nest
  /\ Kind(Obj(p, id)) \notin Arrays

\* The new pool is that of Skipped.
LEMMA SkippedIs ==
  ASSUME HeapFits, NEW p, NEW c, Fits(p, c), NEW id, NEW layer, Expands(p, c, id, layer),
         NEW q, Skips(p, q, id, layer)
  PROVE  Skipped(p, q, id, layer)
<1> DEFINE r == EnterObject(p, id, layer)
           e == Layered(p, id, layer)
           n == Len(p.objs)
<1>0. Indexed(p) /\ PoolTyped(p) /\ EntriesFit(p) /\ FilterFits(p, c) /\ id \in IdsOf(p)
  BY DEF Fits, Indexed, Expands
<1>1. layer \in Nat /\ p.depth \in Nat /\ Levels(Obj(p, id)) \in 0..1 /\ ~OnStack(c, id)
      /\ e.obj = Obj(p, id)
  BY ExpandsIs
<1>2. p.depth = setting.nest /\ Kind(Obj(p, id)) \notin Arrays
  <2>1. p.depth <= setting.nest /\ setting.nest \in Nat
    BY <1>0 DEF EntriesFit, HeapFits, HeapTyped
  <2>2. Levels(Obj(p, id)) = 1 /\ p.depth = setting.nest
    BY <1>1, <2>1 DEF Skips, WithinDepth
  <2> QED BY <2>2 DEF Levels
<1>3. Enters(p, r, id, layer) /\ r.depth = p.depth
  BY <1>0, <1>1, EnterIs
<1> HIDE DEF r, e
<1>4. Rewritten(p, r, n, id, e)
  BY <1>3 DEF Enters, e
<1>5. /\ Indexed(r) /\ n \in Nat /\ IdsOf(r) = IdsOf(p)
      /\ Entry(r, id) = e /\ Obj(r, id) = Obj(p, id) /\ Len(r.objs) = n
  <2>1. Len(r.objs) = n
    BY <1>4 DEF Rewritten
  <2> QED BY <1>0, <1>4, <2>1, RewrittenIs
<1>6. q = LeaveObject(r, id, Obj(p, id), n, n)
  <2>1. Cardinality(DOMAIN p.map) = Len(p.objs) /\ p.number = Len(p.objs)
    BY <1>0, KeysCounted DEF Indexed, Numbered
  <2>2. LET call == NewCall(p, id, Obj(p, id))
        IN call.obj = Obj(p, id) /\ call.nPos = n /\ call.nObjNumberBak = n
    BY <2>1 DEF NewCall
  <2> QED BY <2>2 DEF Skips, r
<1>7. n \in (id + 1)..Len(r.objs)
  BY <1>0, <1>5 DEF IdsOf
<1>8. /\ Rewritten(r, q, IF Filters(r, id) THEN n ELSE Len(r.objs), id,
                   IF Filters(r, id) THEN Bare(r, id, Obj(p, id)) ELSE Entry(r, id))
      /\ q.filtering = (r.filtering \/ r.owner = id)
      /\ q.owner = r.owner /\ q.depth = r.depth
  <2> HIDE DEF n
  <2> QED BY <1>0, <1>5, <1>6, <1>7, LeaveIs
<1>9. IsFiltered(r, id) = IsFiltered(p, id)
  BY <1>1, <1>5 DEF IsFiltered, Obj
<1>10. /\ Owns(p, id) => ~r.filtering /\ r.owner = id
       /\ ~Owns(p, id) => (r.filtering <=> p.filtering) /\ r.owner = p.owner
  BY <1>3 DEF Enters
<1>11. ~p.filtering => p.owner # id
  BY <1>0, <1>1 DEF FilterFits, OnStack
<1>12. Filters(r, id) <=> Owns(p, id)
  BY <1>9, <1>10, <1>11 DEF Filters, Owns
<1>13. (IF Filters(r, id) THEN Bare(r, id, Obj(p, id)) ELSE Entry(r, id)) = SkippedEntry(p, id, layer)
  BY <1>5, <1>12 DEF SkippedEntry, Bare, e
<1>14. Rewritten(r, q, n, id, SkippedEntry(p, id, layer))
  <2>1. (IF Filters(r, id) THEN n ELSE Len(r.objs)) = n
    BY <1>5
  <2> QED BY <1>8, <1>13, <2>1
<1>15. Rewritten(p, q, n, id, SkippedEntry(p, id, layer))
  BY <1>0, <1>4, <1>14, RewrittenTwice
<1>16. q.filtering <=> p.filtering
  <2>1. q.filtering <=> r.filtering \/ r.owner = id
    BY <1>8
  <2> QED BY <1>10, <1>11, <2>1 DEF Owns
<1>17. ~p.filtering => q.owner = p.owner
  BY <1>8, <1>10 DEF Owns
<1> QED BY <1>2, <1>3, <1>8, <1>15, <1>16, <1>17 DEF Skipped

\* The entry of an object that is left at once
LEMMA SkippedEntryIs ==
  ASSUME HeapFits, NEW p, NEW c, Fits(p, c), NEW id, NEW layer, Expands(p, c, id, layer),
         Kind(Obj(p, id)) \notin Arrays
  PROVE  LET e == SkippedEntry(p, id, layer) IN
         /\ e.obj = Obj(p, id) /\ e.expanded = Entry(p, id).expanded /\ e.layer = layer
         /\ Owns(p, id) => ~e.once /\ e.refs = <<>> /\ Kind(Obj(p, id)) = "value"
         /\ ~Owns(p, id) => e.once = Entry(p, id).once /\ e.refs = Entry(p, id).refs
<1> DEFINE l == Layered(p, id, layer)
           e == SkippedEntry(p, id, layer)
<1>1. /\ l.obj = Obj(p, id) /\ l.layer = layer /\ l.once = Entry(p, id).once
      /\ l.refs = Entry(p, id).refs /\ l.expanded = Entry(p, id).expanded
  BY ExpandsIs
<1>2. l \in EntryType
  <2>1. Entry(p, id) \in EntryType /\ layer \in Nat
    BY EntryTyped, ExpandsIs DEF Fits, Indexed, Expands
  <2> QED BY <2>1 DEF Layered, EntryType
<1> HIDE DEF l
<1>3. CASE Owns(p, id)
  <2>1. e = [l EXCEPT !.once = FALSE, !.refs = <<>>]
    BY <1>1, <1>3 DEF SkippedEntry, setDumpObjValue, l
  <2>2. Kind(Obj(p, id)) = "value"
    BY <1>3 DEF Owns, IsFiltered, Filtered, Arrays, Obj
  <2> QED BY <1>1, <1>2, <1>3, <2>1, <2>2 DEF EntryType
<1>4. CASE ~Owns(p, id)
  BY <1>1, <1>4 DEF SkippedEntry, l
<1> QED BY <1>3, <1>4

\* Leaving an object at once leaves entries and calls fitting.
LEMMA SkipFits ==
  ASSUME HeapFits, NEW p, NEW c, Fits(p, c), NEW id, NEW layer, Expands(p, c, id, layer),
         NEW q, Skips(p, q, id, layer)
  PROVE  Fits(q, c) /\ Changed(p, c, q, c, id)
<1> DEFINE e == SkippedEntry(p, id, layer)
<1>0. /\ Indexed(p) /\ PoolTyped(p) /\ EntriesFit(p) /\ CallsFit(p, c) /\ FilterFits(p, c)
      /\ RefsCounted(p, c) /\ id \in IdsOf(p)
  BY DEF Fits, Indexed, Expands
<1>1. /\ Rewritten(p, q, Len(p.objs), id, e) /\ (q.filtering <=> p.filtering)
      /\ (~p.filtering => q.owner = p.owner)
      /\ q.depth = p.depth /\ p.depth = setting.nest /\ Kind(Obj(p, id)) \notin Arrays
  <2>1. Skipped(p, q, id, layer)
    BY SkippedIs
  <2> QED BY <2>1 DEF Skipped
<1>2. /\ e.obj = Obj(p, id) /\ e.expanded = Entry(p, id).expanded /\ e.layer = layer
      /\ Owns(p, id) => ~e.once /\ e.refs = <<>> /\ Kind(Obj(p, id)) = "value"
      /\ ~Owns(p, id) => e.once = Entry(p, id).once /\ e.refs = Entry(p, id).refs
  BY <1>1, SkippedEntryIs
<1> HIDE DEF e
<1>3. /\ Indexed(q) /\ IdsOf(q) = IdsOf(p) /\ Entry(q, id) = e
      /\ \A j \in IdsOf(q) : Obj(q, j) = Obj(p, j)
      /\ \A j \in IdsOf(q) : j # id => Entry(q, j) = Entry(p, j)
      /\ Len(q.objs) = Len(p.objs)
  <2>1. Len(q.objs) = Len(p.objs)
    BY <1>1 DEF Rewritten
  <2> QED BY <1>0, <1>1, <2>1, RewrittenIs
<1>4. /\ layer \in Nat /\ layer <= setting.nest /\ ~OnStack(c, id) /\ Entry(p, id).layer \in Int
      /\ EntryFits(Layered(p, id, layer)) /\ setting.nest \in Nat
  BY ExpandsIs DEF HeapFits, HeapTyped
<1>5. Trimmed(p, c, q, c, id)
  <2>1. \A k \in DOMAIN c : c[k].nPos <= Len(p.objs)
    BY <1>0, CallsTyped DEF CallFits
  <2> QED BY <1>1, <1>3, <1>4, <2>1 DEF Trimmed
<1>6. /\ CallsFit(q, c) /\ Stacked(q, c) /\ Depths(q, c)
      /\ \A k \in DOMAIN c : /\ Entry(q, c[k].id) = Entry(p, c[k].id)
                             /\ Obj(q, c[k].id) = Obj(p, c[k].id)
                             /\ FieldOf(q, c[k].id) = FieldOf(p, c[k].id)
  BY <1>1, <1>5, TrimFits
<1>7. EntriesFit(q)
  <2>1. EntryFits(e)
    <3>1. ~Entry(p, id).expanded
      BY DEF Expands
    <3>2. EntryFits(Entry(p, id)) /\ Entry(p, id).obj = Obj(p, id)
      BY <1>0 DEF EntriesFit, Obj
    <3> QED BY <1>2, <1>4, <3>1, <3>2 DEF EntryFits
  <2> QED BY <1>0, <1>1, <1>3, <2>1 DEF EntriesFit
<1>8. FilterFits(q, c)
  <2>1. \A k \in DOMAIN c : IsFiltered(q, c[k].id) = IsFiltered(p, c[k].id)
    BY <1>6 DEF IsFiltered
  <2>2. CASE p.filtering
    BY <1>0, <1>1, <2>1, <2>2 DEF FilterFits
  <2>3. CASE ~p.filtering
    BY <1>0, <1>1, <2>1, <2>3 DEF FilterFits
  <2> QED BY <2>2, <2>3
<1>9. RefsCounted(q, c)
  <2>1. \A k \in DOMAIN c : Kind(Obj(q, c[k].id)) # "values" =>
          Len(Entry(q, c[k].id).refs) =
            IF c[k].once THEN Len(FieldOf(q, c[k].id)) ELSE c[k].next - 1
    BY <1>0, <1>6 DEF RefsCounted
  <2>2. ASSUME NEW j \in IdsOf(q), Kind(Obj(q, j)) # "values", ~OnStack(c, j)
        PROVE  Len(Entry(q, j).refs) = IF Entry(q, j).once THEN Len(FieldOf(q, j)) ELSE 0
    <3>1. CASE j # id
      BY <1>0, <1>3, <2>2, <3>1 DEF RefsCounted, FieldOf
    <3>2. CASE j = id /\ Owns(p, id)
      BY <1>2, <1>3, <3>2
    <3>3. CASE j = id /\ ~Owns(p, id)
      BY <1>0, <1>2, <1>3, <2>2, <3>3 DEF RefsCounted, FieldOf
    <3> QED BY <3>1, <3>2, <3>3
  <2>3. \A j \in IdsOf(q) : Entry(q, j).once => Entry(q, j).layer >= 0
    BY <1>0, <1>2, <1>3, <1>4 DEF RefsCounted
  <2>4. \A j \in IdsOf(q) :
          Entry(q, j).once /\ Kind(Obj(q, j)) = "plain" => Entry(q, j).layer < setting.nest
    <3> SUFFICES ASSUME Entry(q, id).once, Kind(Obj(p, id)) = "plain"
                 PROVE  layer < setting.nest
      BY <1>0, <1>2, <1>3 DEF RefsCounted
    <3>1. Entry(p, id).layer < setting.nest /\ Entry(p, id).layer >= 0
      BY <1>0, <1>2, <1>3 DEF RefsCounted
    <3> QED BY <1>4, <3>1 DEF Expands
  <2> QED BY <2>1, <2>2, <2>3, <2>4 DEF RefsCounted
<1>10. \A j \in IdsOf(q) : Kept(q, c, j) <=> Kept(p, c, j)
  BY <1>1 DEF Kept
<1>11. Changed(p, c, q, c, id)
  <2>1. Entry(p, id).layer >= 0 => Entry(q, id).layer \in 0..Entry(p, id).layer
    BY <1>2, <1>3, <1>4 DEF Expands
  <2> QED BY <1>0, <1>2, <1>3, <1>10, <2>1 DEF Changed
<1> QED BY <1>3, <1>6, <1>7, <1>8, <1>9, <1>11 DEF Fits

-----------------------------------------------------------------------------
(* The innermost call notes a reference. *)

MemberOf(p, c) == FieldOf(p, c[Len(c)].id)[c[Len(c)].next]

RefTo(p, o) == IF o = NoObject THEN -1 ELSE getObjectId(p, o)

Moved(c) == [c EXCEPT ![Len(c)].next = @ + 1, ![Len(c)].shown = FALSE]

\* What Moved changes
LEMMA MovedIs ==
  ASSUME NEW c \in Seq(CallType), c # <<>>
  PROVE  /\ Moved(c) \in Seq(CallType) /\ Len(Moved(c)) = Len(c) /\ DOMAIN Moved(c) = DOMAIN c
         /\ Len(c) \in DOMAIN c
         /\ Moved(c)[Len(c)].next = c[Len(c)].next + 1 /\ ~Moved(c)[Len(c)].shown
         /\ \A k \in DOMAIN c :
              /\ Moved(c)[k].id = c[k].id /\ Moved(c)[k].obj = c[k].obj
              /\ Moved(c)[k].once = c[k].once
              /\ Moved(c)[k].nPos = c[k].nPos /\ Moved(c)[k].nObjNumberBak = c[k].nObjNumberBak
              /\ k # Len(c) => Moved(c)[k] = c[k]
<1>1. Len(c) \in DOMAIN c /\ DOMAIN c = 1..Len(c) /\ Len(c) \in Nat
  OBVIOUS
<1>2. \A k \in DOMAIN c : c[k] \in CallType
  OBVIOUS
<1> DEFINE call == [c[Len(c)] EXCEPT !.next = c[Len(c)].next + 1, !.shown = FALSE]
<1>3. Moved(c) = [c EXCEPT ![Len(c)] = call]
  BY <1>1, <1>2 DEF Moved
<1>4. /\ call \in CallType /\ call.next = c[Len(c)].next + 1 /\ ~call.shown
      /\ call.id = c[Len(c)].id /\ call.obj = c[Len(c)].obj /\ call.once = c[Len(c)].once
      /\ call.nPos = c[Len(c)].nPos /\ call.nObjNumberBak = c[Len(c)].nObjNumberBak
  <2>1. c[Len(c)] \in CallType
    BY <1>1, <1>2
  <2>2. c[Len(c)].next + 1 \in Nat
    BY <2>1 DEF CallType
  <2> QED BY <2>1, <2>2 DEF CallType
<1> HIDE DEF call
<1>5. Moved(c) \in Seq(CallType) /\ Len(Moved(c)) = Len(c) /\ DOMAIN Moved(c) = DOMAIN c
  BY <1>1, <1>3, <1>4
<1>6. \A k \in DOMAIN c : Moved(c)[k] = IF k = Len(c) THEN call ELSE c[k]
  BY <1>1, <1>3
<1> QED BY <1>1, <1>4, <1>5, <1>6

Notes(p, c, q, d) ==
  /\ c # <<>> /\ c[Len(c)].shown
  /\ q = IF c[Len(c)].once THEN p
         ELSE WithRef(p, c[Len(c)].id, RefTo(p, MemberOf(p, c)))
  /\ d = Moved(c)

\* The entry afterwards
NotedEntry(p, c) ==
  LET id == c[Len(c)].id
  IN IF c[Len(c)].once THEN Entry(p, id) ELSE Noted(p, id, RefTo(p, MemberOf(p, c)))

\* Noting a reference leaves entries and calls fitting.
LEMMA NoteFits ==
  ASSUME HeapFits, NEW p, NEW c, Fits(p, c), NEW q, NEW d, Notes(p, c, q, d),
         NEW id, id = c[Len(c)].id
  PROVE  /\ Fits(q, d) /\ Changed(p, c, q, d, id)
         /\ IdsOf(q) = IdsOf(p) /\ Entry(q, id) = NotedEntry(p, c)
         /\ (q.filtering <=> p.filtering) /\ q.owner = p.owner
         /\ MemberOf(p, c) \in Present(p) \cup {NoObject}
         /\ c[Len(c)].next \in DOMAIN FieldOf(p, id)
<1> DEFINE call == c[Len(c)]
           e == NotedEntry(p, c)
           ref == RefTo(p, MemberOf(p, c))
<1>0. /\ Indexed(p) /\ PoolTyped(p) /\ EntriesFit(p) /\ CallsFit(p, c) /\ FilterFits(p, c)
      /\ RefsCounted(p, c) /\ Stacked(p, c) /\ Depths(p, c) /\ c \in Seq(CallType) /\ c # <<>>
  BY DEF Fits, Indexed, CallsFit, Notes
<1>1. /\ d \in Seq(CallType) /\ Len(d) = Len(c) /\ DOMAIN d = DOMAIN c /\ Len(c) \in DOMAIN c
      /\ d[Len(c)].next = call.next + 1 /\ ~d[Len(c)].shown
      /\ \A k \in DOMAIN c : /\ d[k].id = c[k].id /\ d[k].obj = c[k].obj /\ d[k].once = c[k].once
                             /\ d[k].nPos = c[k].nPos /\ d[k].nObjNumberBak = c[k].nObjNumberBak
                             /\ k # Len(c) => d[k] = c[k]
  <2>1. d = Moved(c)
    BY DEF Notes
  <2> QED BY <1>0, <2>1, MovedIs
<1>2. CallFits(p, call) /\ call \in CallType /\ id \in IdsOf(p) /\ call.id = id /\ call.shown
  BY <1>0, <1>1, CallsTyped DEF Notes
<1>3. /\ MemberOf(p, c) \in Present(p) \cup {NoObject}
      /\ call.next \in 1..Len(FieldOf(p, id)) /\ FieldOf(p, id) \in Seq(Objects \cup {NoObject})
  <2>1. FieldOf(p, id) \in Seq(Objects \cup {NoObject})
    <3>1. Obj(p, id) \in Objects
      BY <1>0, <1>2, EntryTyped
    <3> QED BY <3>1 DEF FieldOf, HeapFits, HeapTyped
  <2>2. call.next \in Nat /\ call.next \in 1..(Len(FieldOf(p, id)) + 1) /\ call.next <= Len(FieldOf(p, id))
    BY <1>2 DEF CallFits, FieldOf, Obj, CallType
  <2>3. MemberOf(p, c) \in Present(p) \cup {NoObject}
    BY <1>2 DEF CallFits, FieldOf, Obj, MemberOf
  <2> QED BY <2>1, <2>2, <2>3
<1>4. ref \in Int
  <2>1. CASE MemberOf(p, c) = NoObject
    BY <2>1 DEF RefTo
  <2>2. CASE MemberOf(p, c) # NoObject
    <3>1. PICK j \in IdsOf(p) : Obj(p, j) = MemberOf(p, c)
      BY <1>3, <2>2 DEF Present
    <3>2. j \in Nat /\ Obj(p, j) \in Objects
      BY <1>0, EntryTyped
    <3>3. getObjectId(p, MemberOf(p, c)) = j
      BY <1>0, <3>1, <3>2, IdFound
    <3> QED BY <2>2, <3>2, <3>3 DEF RefTo
  <2> QED BY <2>1, <2>2
<1> HIDE DEF ref
<1>5. Entry(p, id) \in EntryType
  BY <1>0, <1>2, EntryTyped
<1>6. /\ e.obj = Obj(p, id) /\ e.expanded = Entry(p, id).expanded
      /\ e.layer = Entry(p, id).layer /\ e.once = Entry(p, id).once
      /\ Len(e.refs) = IF call.once THEN Len(Entry(p, id).refs) ELSE Len(Entry(p, id).refs) + 1
  <2>1. CASE call.once
    <3>1. e = Entry(p, id)
      BY <2>1 DEF NotedEntry
    <3> QED BY <2>1, <3>1 DEF Obj
  <2>2. CASE ~call.once
    <3>1. e = [Entry(p, id) EXCEPT !.refs = Append(Entry(p, id).refs, ref)]
      BY <2>2 DEF NotedEntry, Noted, ref
    <3>2. Entry(p, id).refs \in Seq(Int)
      BY <1>5 DEF EntryType
    <3>3. Len(Append(Entry(p, id).refs, ref)) = Len(Entry(p, id).refs) + 1
      BY <1>4, <3>2
    <3>4. e.refs = Append(Entry(p, id).refs, ref) /\ e.obj = Entry(p, id).obj
          /\ e.expanded = Entry(p, id).expanded
          /\ e.layer = Entry(p, id).layer /\ e.once = Entry(p, id).once
      BY <1>5, <3>1 DEF EntryType
    <3> QED BY <2>2, <3>3, <3>4 DEF Obj
  <2> QED BY <2>1, <2>2
<1>7. /\ Indexed(q) /\ IdsOf(q) = IdsOf(p) /\ Present(q) = Present(p) /\ Entry(q, id) = e
      /\ \A j \in IdsOf(q) : Obj(q, j) = Obj(p, j)
      /\ \A j \in IdsOf(q) : j # id => Entry(q, j) = Entry(p, j)
      /\ Len(q.objs) = Len(p.objs) /\ q.depth = p.depth
      /\ q.filtering = p.filtering /\ q.owner = p.owner
  <2>1. CASE call.once
    <3>1. q = p /\ e = Entry(p, id)
      BY <2>1 DEF Notes, NotedEntry
    <3> QED BY <1>0, <3>1
  <2>2. CASE ~call.once
    <3>1. q = WithRef(p, id, ref) /\ e = Noted(p, id, ref)
      BY <2>2 DEF Notes, NotedEntry, ref
    <3> HIDE DEF e
    <3>a. /\ Rewritten(p, q, Len(p.objs), id, Noted(p, id, ref))
          /\ q.filtering = p.filtering /\ q.owner = p.owner /\ q.depth = p.depth
      BY <1>0, <1>2, <1>4, <3>1, NoteIs DEF HeapFits
    <3>2. /\ Rewritten(p, q, Len(p.objs), id, e)
          /\ q.filtering = p.filtering /\ q.owner = p.owner /\ q.depth = p.depth
      BY <3>1, <3>a
    <3>3. Len(q.objs) = Len(p.objs)
      BY <3>2 DEF Rewritten
    <3> QED BY <1>0, <3>2, <3>3, RewrittenIs
  <2> QED BY <2>1, <2>2
<1> HIDE DEF e
<1>8. \A k \in DOMAIN c : k # Len(c) => c[k].id # id
  <2> SUFFICES ASSUME NEW k \in DOMAIN c, k # Len(c) PROVE c[k].id # id
    OBVIOUS
  <2>1. k < Len(c)
    BY <1>0
  <2> QED BY <1>0, <1>1, <1>2, <2>1 DEF Stacked
<1>9. \A k \in DOMAIN c : /\ c[k].id \in IdsOf(p)
                          /\ LayerOf(q, d[k]) = LayerOf(p, c[k])
                          /\ LevelsOf(q, d[k]) = LevelsOf(p, c[k])
                          /\ Obj(q, d[k].id) = Obj(p, c[k].id)
                          /\ FieldOf(q, d[k].id) = FieldOf(p, c[k].id)
                          /\ k # Len(c) => Entry(q, d[k].id) = Entry(p, c[k].id)
  <2> TAKE k \in DOMAIN c
  <2>1. c[k].id \in IdsOf(p) /\ d[k].id = c[k].id
    BY <1>0, <1>1, CallsTyped
  <2>2. CASE k = Len(c)
    BY <1>2, <1>6, <1>7, <2>1, <2>2 DEF LayerOf, LevelsOf, FieldOf
  <2>3. CASE k # Len(c)
    BY <1>7, <1>8, <2>1, <2>3 DEF LayerOf, LevelsOf, FieldOf
  <2> QED BY <2>2, <2>3
<1>10. EntriesFit(q)
  <2>1. EntryFits(Entry(p, id)) /\ Entry(p, id).obj = Obj(p, id) /\ ~Entry(p, id).expanded
    BY <1>0, <1>2 DEF EntriesFit, Obj, CallFits
  <2>2. EntryFits(e)
    BY <1>6, <2>1 DEF EntryFits
  <2> QED BY <1>0, <1>7, <2>2 DEF EntriesFit
<1>11. CallsFit(q, d)
  <2> SUFFICES ASSUME NEW k \in DOMAIN c PROVE CallFits(q, d[k])
    BY <1>1 DEF CallsFit
  <2>1. CallFits(p, c[k])
    BY <1>0, CallsTyped
  <2>2. CASE k # Len(c)
    BY <1>1, <1>7, <1>9, <2>1, <2>2 DEF CallFits
  <2>3. CASE k = Len(c)
    <3>1. /\ d[k].id = id /\ d[k].obj = call.obj
          /\ d[k].next = call.next + 1 /\ ~d[k].shown /\ d[k].once = call.once
          /\ d[k].nPos = call.nPos /\ d[k].nObjNumberBak = call.nObjNumberBak
      BY <1>1, <1>2, <2>3
    <3>2. graph.field[e.obj] = FieldOf(p, id)
      BY <1>6 DEF FieldOf
    <3>3. call.next + 1 \in 1..(Len(FieldOf(p, id)) + 1)
      BY <1>3
    <3>4. /\ ~e.expanded /\ e.layer >= 0 /\ call.once = e.once /\ call.obj = e.obj
          /\ call.nPos = call.nObjNumberBak /\ call.nPos \in (id + 1)..Len(p.objs)
      BY <1>2, <1>6 DEF CallFits, Obj
    <3> QED BY <1>2, <1>7, <3>1, <3>2, <3>3, <3>4 DEF CallFits
  <2> QED BY <2>2, <2>3
<1>12. \A k \in DOMAIN c : k < Len(c) => k + 1 \in DOMAIN c /\ k # Len(c)
  BY <1>0
<1>13. Stacked(q, d)
  <2>1. \A j, k \in DOMAIN d : j < k => /\ d[j].id # d[k].id
                                        /\ d[j].nPos <= d[k].nPos
                                        /\ LayerOf(q, d[j]) <= LayerOf(q, d[k])
    BY <1>0, <1>1, <1>9 DEF Stacked
  <2>2. \A k \in DOMAIN d : k < Len(d) =>
          d[k].shown /\ FieldOf(q, d[k].id)[d[k].next] = Obj(q, d[k + 1].id)
    BY <1>0, <1>1, <1>9, <1>12 DEF Stacked
  <2> QED BY <2>1, <2>2 DEF Stacked
<1>14. Depths(q, d)
  <2>1. \A k \in DOMAIN c : k # Len(c) => k + 1 \in DOMAIN c
    BY <1>0
  <2>2. \A k \in DOMAIN c : Inner(q, d, k) = Inner(p, c, k)
    BY <1>1, <1>7, <1>9, <2>1 DEF Inner
  <2> QED BY <1>0, <1>1, <1>9, <2>2 DEF Depths
<1>15. FilterFits(q, d)
  <2>1. \A k \in DOMAIN c : IsFiltered(q, d[k].id) = IsFiltered(p, c[k].id)
    BY <1>9 DEF IsFiltered, Obj
  <2> QED BY <1>0, <1>1, <1>7, <2>1 DEF FilterFits
<1>16. \A j : OnStack(d, j) <=> OnStack(c, j)
  BY <1>1 DEF OnStack
<1>17. RefsCounted(q, d)
  <2>1. \A k \in DOMAIN d : Kind(Obj(q, d[k].id)) # "values" =>
          Len(Entry(q, d[k].id).refs) =
            IF d[k].once THEN Len(FieldOf(q, d[k].id)) ELSE d[k].next - 1
    <3> SUFFICES ASSUME NEW k \in DOMAIN c, Kind(Obj(p, c[k].id)) # "values"
                 PROVE  Len(Entry(q, d[k].id).refs) =
                          IF d[k].once THEN Len(FieldOf(p, c[k].id)) ELSE d[k].next - 1
      BY <1>1, <1>9
    <3>1. Len(Entry(p, c[k].id).refs) =
            IF c[k].once THEN Len(FieldOf(p, c[k].id)) ELSE c[k].next - 1
      BY <1>0 DEF RefsCounted
    <3>2. CASE k # Len(c)
      BY <1>1, <1>9, <3>1, <3>2
    <3>3. CASE k = Len(c)
      <4>1. c[k] = call /\ d[k].id = id /\ Entry(q, d[k].id) = e
        BY <1>1, <1>2, <1>7, <3>3
      <4>2. d[k].once = call.once /\ d[k].next = call.next + 1
        BY <1>1, <3>3
      <4>3. call.next \in Nat
        BY <1>2 DEF CallType
      <4>4. CASE call.once
        BY <1>6, <3>1, <1>2, <4>1, <4>2, <4>4
      <4>5. CASE ~call.once
        <5>1. Len(Entry(p, id).refs) = call.next - 1
          BY <1>2, <3>1, <4>1, <4>5
        <5> QED BY <1>6, <4>1, <4>2, <4>3, <4>5, <5>1
      <4> QED BY <4>4, <4>5
    <3> QED BY <3>2, <3>3
  <2>2. OnStack(c, id)
    BY <1>1, <1>2 DEF OnStack
  <2>3. \A j \in IdsOf(q) : Kind(Obj(q, j)) # "values" /\ ~OnStack(d, j) =>
          Len(Entry(q, j).refs) = IF Entry(q, j).once THEN Len(FieldOf(q, j)) ELSE 0
    BY <1>0, <1>7, <1>16, <2>2 DEF RefsCounted, FieldOf
  <2>4. \A j \in IdsOf(q) : Entry(q, j).once => Entry(q, j).layer >= 0
    BY <1>0, <1>6, <1>7 DEF RefsCounted
  <2>5. \A j \in IdsOf(q) :
          Entry(q, j).once /\ Kind(Obj(q, j)) = "plain" => Entry(q, j).layer < setting.nest
    BY <1>0, <1>6, <1>7 DEF RefsCounted
  <2> QED BY <2>1, <2>3, <2>4, <2>5 DEF RefsCounted
<1>18. \A j \in IdsOf(q) : Kept(q, d, j) <=> Kept(p, c, j)
  BY <1>1, <1>7 DEF Kept
<1>19. Changed(p, c, q, d, id)
  <2>1. Entry(p, id).layer >= 0 => Entry(q, id).layer \in 0..Entry(p, id).layer
    BY <1>5, <1>6, <1>7 DEF EntryType
  <2> QED BY <1>2, <1>6, <1>7, <1>18, <2>1 DEF Changed
<1>20. call.next \in DOMAIN FieldOf(p, id)
  BY <1>3
<1> QED BY <1>3, <1>7, <1>10, <1>11, <1>13, <1>14, <1>15, <1>17, <1>19, <1>20 DEF Fits, e

-----------------------------------------------------------------------------
(* The innermost call returns. *)

Returns(p, c, q, d) ==
  LET call == c[Len(c)] IN
  /\ c # <<>> /\ ~call.shown /\ call.next > Len(FieldOf(p, call.id))
  /\ q = LeaveObject(Complete(p, call.id, call.obj), call.id, call.obj, call.nPos, call.nObjNumberBak)
  /\ d = SubSeq(c, 1, Len(c) - 1)

\* The entry afterwards
ReturnedEntry(p, id) ==
  IF Filters(p, id) THEN setDumpObjValue(Completed(p, id), Obj(p, id)) ELSE Completed(p, id)

Returned(p, c, q, id) ==
  /\ Rewritten(p, q, IF Filters(p, id) THEN c[Len(c)].nPos ELSE Len(p.objs), id, ReturnedEntry(p, id))
  /\ IF Filters(p, id) THEN q.filtering /\ ~p.filtering /\ p.owner = id /\ ~setting.byTag
     ELSE (q.filtering <=> p.filtering) /\ (~p.filtering => p.owner # id)
  /\ q.owner = p.owner /\ q.depth = p.depth - Levels(Obj(p, id))

\* The innermost call, whose entry no other call is for
LEMMA TopIs ==
  ASSUME NEW p, NEW c, Fits(p, c), c # <<>>, NEW id, id = c[Len(c)].id
  PROVE  /\ Len(c) \in DOMAIN c /\ Len(c) \in Nat /\ CallFits(p, c[Len(c)]) /\ c[Len(c)] \in CallType
         /\ id \in IdsOf(p) /\ OnStack(c, id)
         /\ \A k \in DOMAIN c : k # Len(c) => c[k].id # id /\ k < Len(c)
<1>1. CallsFit(p, c) /\ Stacked(p, c) /\ c \in Seq(CallType)
  BY DEF Fits, CallsFit
<1>2. Len(c) \in DOMAIN c /\ Len(c) \in Nat
  BY <1>1
<1>3. \A k \in DOMAIN c : k # Len(c) => k < Len(c)
  BY <1>1
<1>4. \A k \in DOMAIN c : k # Len(c) => c[k].id # id
  BY <1>1, <1>2, <1>3 DEF Stacked
<1> QED BY <1>1, <1>2, <1>3, <1>4, CallsTyped DEF OnStack

\* The new pool is that of Returned.
LEMMA ReturnedIs ==
  ASSUME HeapFits, NEW p, NEW c, Fits(p, c), NEW q, NEW d, Returns(p, c, q, d),
         NEW id, id = c[Len(c)].id
  PROVE  Returned(p, c, q, id)
<1> DEFINE call == c[Len(c)]
           r == Complete(p, id, Obj(p, id))
           n == call.nPos
<1>0. Indexed(p) /\ PoolTyped(p) /\ FilterFits(p, c) /\ Depths(p, c) /\ c # <<>>
  BY DEF Fits, Indexed, Returns
<1>1. /\ Len(c) \in DOMAIN c /\ CallFits(p, call) /\ call \in CallType /\ id \in IdsOf(p)
      /\ \A k \in DOMAIN c : k # Len(c) => c[k].id # id
  BY <1>0, TopIs
<1>2. Levels(Obj(p, id)) <= p.depth
  <2>1. LayerOf(p, call) + LevelsOf(p, call) <= p.depth /\ LayerOf(p, call) \in Nat /\ p.depth \in Nat
        /\ LevelsOf(p, call) \in 0..1
    BY <1>0, <1>1, StackLayers DEF Depths, Inner
  <2> QED BY <2>1 DEF LevelsOf
<1>3. /\ Rewritten(p, r, Len(p.objs), id, Completed(p, id))
      /\ r.filtering = p.filtering /\ r.owner = p.owner
      /\ r.depth = p.depth - Levels(Obj(p, id))
  BY <1>0, <1>1, <1>2, CompleteIs
<1> HIDE DEF r
<1>4. /\ Indexed(r) /\ IdsOf(r) = IdsOf(p) /\ Entry(r, id) = Completed(p, id)
      /\ Obj(r, id) = Obj(p, id) /\ Len(r.objs) = Len(p.objs)
  <2>1. Len(r.objs) = Len(p.objs)
    BY <1>3 DEF Rewritten
  <2> QED BY <1>0, <1>1, <1>3, <2>1, RewrittenIs
<1>5. /\ n \in (id + 1)..Len(r.objs) /\ call.nObjNumberBak = n
      /\ call.id = id /\ call.obj = Obj(p, id)
  BY <1>1, <1>4 DEF CallFits, Obj
<1>6. q = LeaveObject(r, id, Obj(p, id), n, n)
  BY <1>5 DEF Returns, r
<1>7. /\ Rewritten(r, q, IF Filters(r, id) THEN n ELSE Len(r.objs), id,
                   IF Filters(r, id) THEN Bare(r, id, Obj(p, id)) ELSE Entry(r, id))
      /\ q.filtering = (r.filtering \/ r.owner = id)
      /\ q.owner = r.owner /\ q.depth = r.depth
  <2> HIDE DEF n
  <2> QED BY <1>1, <1>4, <1>5, <1>6, LeaveIs
<1>8. IsFiltered(r, id) = IsFiltered(p, id)
  BY <1>4 DEF IsFiltered, Obj
<1>9. Filters(r, id) <=> Filters(p, id)
  BY <1>3, <1>8 DEF Filters
<1>10. (IF Filters(r, id) THEN Bare(r, id, Obj(p, id)) ELSE Entry(r, id)) = ReturnedEntry(p, id)
  BY <1>4, <1>9 DEF ReturnedEntry, Bare
<1>11. Rewritten(p, q, IF Filters(p, id) THEN n ELSE Len(p.objs), id, ReturnedEntry(p, id))
  <2> DEFINE m == IF Filters(p, id) THEN n ELSE Len(p.objs)
  <2>1. (IF Filters(r, id) THEN n ELSE Len(r.objs)) = m
    BY <1>4, <1>9
  <2>2. Rewritten(r, q, m, id, ReturnedEntry(p, id))
    BY <1>7, <1>10, <2>1
  <2> HIDE DEF m
  <2>3. Rewritten(p, q, m, id, ReturnedEntry(p, id))
    BY <1>0, <1>3, <2>2, RewrittenTwice
  <2> QED BY <2>3 DEF m
<1>12. q.filtering <=> p.filtering \/ p.owner = id
  BY <1>3, <1>7
<1>13. ASSUME Filters(p, id) PROVE ~p.filtering /\ p.owner = id /\ ~setting.byTag
  <2>1. IsFiltered(p, id) /\ (p.filtering \/ p.owner = id)
    BY <1>13 DEF Filters
  <2>2. ~p.filtering
    BY <1>0, <1>1, <2>1 DEF FilterFits
  <2>3. ~setting.byTag
    <3>1. Obj(p, id) \in Objects /\ Kind(Obj(p, id)) \in Filtered
      BY <1>0, <1>1, <2>1, EntryTyped DEF IsFiltered, Obj
    <3> QED BY <3>1 DEF HeapFits, HeapTyped, HasValues, Kind
  <2> QED BY <2>1, <2>2, <2>3
<1>14. ASSUME ~Filters(p, id), ~p.filtering PROVE p.owner # id
  <2> SUFFICES ASSUME p.owner = id PROVE FALSE
    OBVIOUS
  <2>1. PICK v \in DOMAIN c : c[v].id = p.owner /\ IsFiltered(p, c[v].id)
    BY <1>0, <1>14 DEF FilterFits
  <2> QED BY <1>14, <2>1 DEF Filters
<1>15. IF Filters(p, id) THEN q.filtering /\ ~p.filtering /\ p.owner = id /\ ~setting.byTag
       ELSE (q.filtering <=> p.filtering) /\ (~p.filtering => p.owner # id)
  <2>1. CASE Filters(p, id)
    BY <1>12, <1>13, <2>1
  <2>2. CASE ~Filters(p, id)
    <3>1. p.owner = id => p.filtering
      BY <1>14, <2>2
    <3> QED BY <1>12, <2>2, <3>1
  <2> QED BY <2>1, <2>2
<1>16. q.owner = p.owner /\ q.depth = p.depth - Levels(Obj(p, id))
  BY <1>3, <1>7
<1> QED BY <1>11, <1>15, <1>16 DEF Returned

\* The entry of an object whose call has returned
LEMMA ReturnedEntryIs ==
  ASSUME NEW p, Indexed(p), NEW id \in IdsOf(p)
  PROVE  LET e == ReturnedEntry(p, id)
             old == Entry(p, id) IN
         /\ e.obj = Obj(p, id) /\ e.expanded = old.expanded /\ e.layer = old.layer
         /\ Filters(p, id) =>
              /\ ~e.once
              /\ Kind(Obj(p, id)) \notin Arrays => e.refs = <<>>
              /\ DOMAIN e.refs \subseteq DOMAIN old.refs
              /\ \A i \in DOMAIN e.refs : e.refs[i] = -1 \/ (e.refs[i] = old.refs[i] /\ old.refs[i] <= 0)
         /\ ~Filters(p, id) => e.once /\ e.refs = old.refs
<1> DEFINE l == Completed(p, id)
           e == ReturnedEntry(p, id)
           old == Entry(p, id)
<1>1. old \in EntryType
  BY EntryTyped DEF Indexed
<1>2. /\ l \in EntryType /\ l.obj = Obj(p, id) /\ l.layer = old.layer /\ l.once
      /\ l.refs = old.refs /\ l.expanded = old.expanded
  BY <1>1 DEF Completed, EntryType, Obj
<1> HIDE DEF l
<1>3. CASE ~Filters(p, id)
  <2>1. e = l
    BY <1>3 DEF ReturnedEntry, l
  <2> QED BY <1>2, <1>3, <2>1
<1>4. CASE Filters(p, id)
  <2>1. e = setDumpObjValue(l, Obj(p, id))
    BY <1>4 DEF ReturnedEntry, l
  <2>2. /\ e.obj = l.obj /\ e.expanded = l.expanded /\ e.layer = l.layer /\ ~e.once
        /\ Kind(l.obj) \notin Arrays => e.refs = <<>>
        /\ DOMAIN e.refs \subseteq DOMAIN l.refs
        /\ \A i \in DOMAIN e.refs : e.refs[i] = -1 \/ (e.refs[i] = l.refs[i] /\ l.refs[i] <= 0)
    BY <1>2, <2>1, BareIs DEF BareRefs
  <2> QED BY <1>2, <1>4, <2>2
<1> QED BY <1>3, <1>4

\* A return leaves entries and calls fitting.
LEMMA ReturnFits ==
  ASSUME HeapFits, NEW p, NEW c, Fits(p, c), NEW q, NEW d, Returns(p, c, q, d),
         NEW id, id = c[Len(c)].id
  PROVE  /\ Fits(q, d) /\ Changed(p, c, q, d, id) /\ ~OnStack(d, id)
         /\ \A j : OnStack(c, j) /\ j # id => OnStack(d, j)
         /\ Entry(q, id) = ReturnedEntry(p, id)
<1> DEFINE call == c[Len(c)]
           e == ReturnedEntry(p, id)
           n == IF Filters(p, id) THEN call.nPos ELSE Len(p.objs)
<1>0. /\ Indexed(p) /\ PoolTyped(p) /\ EntriesFit(p) /\ CallsFit(p, c) /\ FilterFits(p, c)
      /\ RefsCounted(p, c) /\ Stacked(p, c) /\ Depths(p, c) /\ c \in Seq(CallType)
      /\ c # <<>> /\ d = SubSeq(c, 1, Len(c) - 1) /\ call.next > Len(FieldOf(p, id))
  BY DEF Fits, Indexed, CallsFit, Returns
<1>1. /\ Len(c) \in DOMAIN c /\ Len(c) \in Nat /\ CallFits(p, call) /\ call \in CallType
      /\ id \in IdsOf(p)
      /\ \A k \in DOMAIN c : k # Len(c) => c[k].id # id /\ k < Len(c)
  BY <1>0, TopIs
<1>2. /\ Rewritten(p, q, n, id, e)
      /\ IF Filters(p, id) THEN q.filtering /\ ~p.filtering /\ p.owner = id /\ ~setting.byTag
         ELSE (q.filtering <=> p.filtering) /\ (~p.filtering => p.owner # id)
      /\ q.owner = p.owner /\ q.depth = p.depth - Levels(Obj(p, id))
  <2>1. Returned(p, c, q, id)
    BY ReturnedIs
  <2> QED BY <2>1 DEF Returned
<1>3. /\ e.obj = Obj(p, id) /\ e.expanded = Entry(p, id).expanded /\ e.layer = Entry(p, id).layer
      /\ Filters(p, id) => ~e.once /\ (Kind(Obj(p, id)) \notin Arrays => e.refs = <<>>)
      /\ ~Filters(p, id) => e.once /\ e.refs = Entry(p, id).refs
  BY <1>0, <1>1, ReturnedEntryIs
<1> HIDE DEF e
<1>4. setting.byTag => n = Len(p.objs)
  BY <1>2
<1> HIDE DEF n
<1>5. /\ Indexed(q) /\ IdsOf(q) = 0..(n - 1) /\ n \in Nat /\ IdsOf(q) \subseteq IdsOf(p)
      /\ id \in IdsOf(q) /\ Entry(q, id) = e
      /\ \A j \in IdsOf(q) : Obj(q, j) = Obj(p, j)
      /\ \A j \in IdsOf(q) : j # id => Entry(q, j) = Entry(p, j)
  BY <1>0, <1>2, <1>4, RewrittenIs
<1>6. d # c /\ d \in Seq(CallType) /\ Len(d) = Len(c) - 1 /\ Len(d) \in Nat
      /\ \A k \in DOMAIN d : k \in DOMAIN c /\ d[k] = c[k] /\ k # Len(c)
  <2>4. /\ d \in Seq(CallType) /\ Len(d) = Len(c) - 1 /\ Len(d) \in Nat
        /\ DOMAIN d = 1..Len(d)
        /\ \A k \in DOMAIN d : k \in DOMAIN c /\ d[k] = c[k]
    BY <1>0, ButLastIs
  <2>3. d # c
    BY <1>1, <2>4
  <2>5. \A k \in DOMAIN d : k # Len(c)
    BY <1>1, <2>4
  <2> QED BY <2>3, <2>4, <2>5
<1>7. \A k \in DOMAIN c : k # Len(c) => k \in DOMAIN d /\ d[k] = c[k]
  <2> SUFFICES ASSUME NEW k \in DOMAIN c, k # Len(c) PROVE k \in DOMAIN d
    BY <1>6
  <2>1. DOMAIN c = 1..Len(c) /\ DOMAIN d = 1..Len(d)
    BY <1>0, <1>6
  <2> QED BY <1>1, <1>6, <2>1
<1>8. \A j : OnStack(d, j) <=> OnStack(c, j) /\ j # id
  BY <1>1, <1>6, <1>7 DEF OnStack
<1>9. \A k \in DOMAIN c : c[k].nPos <= n /\ c[k].nPos \in Nat
  <2>1. \A k \in DOMAIN c : c[k].nPos \in Nat /\ c[k].nPos <= Len(p.objs)
    <3> TAKE k \in DOMAIN c
    <3>1. CallFits(p, c[k]) /\ c[k] \in CallType /\ Len(p.objs) \in Nat
      BY <1>0, CallsTyped, KeysCounted
    <3>2. c[k].nPos \in Nat /\ c[k].id \in Nat
      BY <3>1 DEF CallType
    <3> QED BY <3>1, <3>2 DEF CallFits
  <2>2. \A k \in DOMAIN c : c[k].nPos <= call.nPos
    <3> TAKE k \in DOMAIN c
    <3>1. CASE k = Len(c)
      BY <2>1, <3>1
    <3>2. CASE k # Len(c)
      BY <1>0, <1>1, <3>2 DEF Stacked
    <3> QED BY <3>1, <3>2
  <2> QED BY <2>1, <2>2 DEF n
<1>10. Trimmed(p, c, q, d, id)
  <2>1. Len(c) # 1 => q.depth = LayerOf(p, c[Len(c)])
    <3> SUFFICES ASSUME Len(c) # 1 PROVE q.depth = LayerOf(p, c[Len(c)])
      OBVIOUS
    <3>1. LayerOf(p, call) + LevelsOf(p, call) = p.depth
      BY <1>0, <1>1 DEF Depths, Inner
    <3>2. LayerOf(p, call) \in Nat /\ LevelsOf(p, call) \in 0..1 /\ p.depth \in Nat
      BY <1>1, StackLayers
    <3>3. LevelsOf(p, call) = Levels(Obj(p, id))
      BY DEF LevelsOf
    <3> QED BY <1>2, <3>1, <3>2, <3>3
  <2>2. Len(q.objs) = n
    BY <1>2 DEF Rewritten
  <2> QED BY <1>0, <1>6, <1>8, <1>9, <2>1, <2>2 DEF Trimmed
<1>11. /\ CallsFit(q, d) /\ Stacked(q, d) /\ Depths(q, d)
       /\ \A k \in DOMAIN d : /\ Entry(q, d[k].id) = Entry(p, c[k].id)
                              /\ Obj(q, d[k].id) = Obj(p, c[k].id)
                              /\ FieldOf(q, d[k].id) = FieldOf(p, c[k].id)
  BY <1>2, <1>4, <1>10, TrimFits
<1>12. EntriesFit(q)
  <2>1. EntryFits(e)
    <3>1. EntryFits(Entry(p, id)) /\ Entry(p, id).obj = Obj(p, id) /\ ~Entry(p, id).expanded
      BY <1>0, <1>1 DEF EntriesFit, Obj, CallFits
    <3> QED BY <1>3, <3>1 DEF EntryFits
  <2>2. q.depth <= setting.nest
    <3>1. p.depth <= setting.nest /\ p.depth \in Nat /\ setting.nest \in Nat
      BY <1>0 DEF EntriesFit, PoolTyped, PoolType, HeapFits, HeapTyped
    <3> QED BY <1>2, <3>1 DEF Levels
  <2> QED BY <1>0, <1>5, <2>1, <2>2 DEF EntriesFit
<1>13. FilterFits(q, d)
  <2>1. \A k \in DOMAIN d : IsFiltered(q, d[k].id) = IsFiltered(p, c[k].id)
    BY <1>11 DEF IsFiltered
  <2>2. CASE p.filtering
    BY <1>0, <1>2, <1>6, <2>1, <2>2 DEF FilterFits
  <2>3. CASE ~p.filtering
    <3>1. PICK v \in DOMAIN c : /\ c[v].id = p.owner /\ IsFiltered(p, c[v].id)
                                /\ \A k \in DOMAIN c : k < v => ~IsFiltered(p, c[k].id)
      BY <1>0, <2>3 DEF FilterFits
    <3>2. CASE ~Filters(p, id)
      <4>1. ~q.filtering /\ q.owner = p.owner /\ v \in DOMAIN d /\ d[v] = c[v]
        BY <1>2, <1>7, <2>3, <3>1, <3>2
      <4> QED BY <1>6, <2>1, <3>1, <4>1 DEF FilterFits
    <3>3. CASE Filters(p, id)
      <4>1. v = Len(c) /\ q.filtering
        BY <1>1, <1>2, <3>1, <3>3
      <4>2. \A k \in DOMAIN d : k \in DOMAIN c /\ k < v
        BY <1>1, <1>6, <4>1
      <4> QED BY <2>1, <3>1, <4>1, <4>2 DEF FilterFits
    <3> QED BY <3>2, <3>3
  <2> QED BY <2>2, <2>3
<1>14. RefsCounted(q, d)
  <2>1. \A k \in DOMAIN d : Kind(Obj(q, d[k].id)) # "values" =>
          Len(Entry(q, d[k].id).refs) =
            IF d[k].once THEN Len(FieldOf(q, d[k].id)) ELSE d[k].next - 1
    BY <1>0, <1>6, <1>11 DEF RefsCounted
  <2>a. FieldOf(q, id) = FieldOf(p, id)
    BY <1>5 DEF FieldOf
  <2>b. Kind(Obj(p, id)) # "values" => Len(Entry(p, id).refs) = Len(FieldOf(p, id))
    <3>1. Kind(Obj(p, id)) # "values" => Len(Entry(p, id).refs) =
             IF call.once THEN Len(FieldOf(p, id)) ELSE call.next - 1
      BY <1>0, <1>1 DEF RefsCounted
    <3>2. call.next \in 1..(Len(FieldOf(p, id)) + 1) /\ call.next \in Nat
      BY <1>1 DEF CallFits, FieldOf, Obj, CallType
    <3>3. Len(FieldOf(p, id)) \in Nat
      <4>1. Obj(p, id) \in Objects
        BY <1>0, <1>1, EntryTyped
      <4>2. FieldOf(p, id) \in Seq(Objects \cup {NoObject})
        BY <4>1 DEF FieldOf, HeapFits, HeapTyped
      <4> QED BY <4>2
    <3>4. call.next - 1 = Len(FieldOf(p, id))
      BY <1>0, <3>2, <3>3
    <3> QED BY <3>1, <3>4
  <2>2. ASSUME NEW j \in IdsOf(q), Kind(Obj(q, j)) # "values", ~OnStack(d, j)
        PROVE  Len(Entry(q, j).refs) = IF Entry(q, j).once THEN Len(FieldOf(q, j)) ELSE 0
    <3>1. CASE j # id
      BY <1>0, <1>5, <1>8, <2>2, <3>1 DEF RefsCounted, FieldOf
    <3>2. CASE j = id /\ Filters(p, id)
      <4>1. Kind(Obj(p, id)) \notin Arrays
        <5>1. Kind(Obj(p, id)) \in Filtered /\ Kind(Obj(p, id)) # "values"
          BY <1>5, <2>2, <3>2 DEF Filters, IsFiltered, Obj
        <5> QED BY <5>1 DEF Filtered, Arrays
      <4> QED BY <1>3, <1>5, <3>2, <4>1
    <3>3. CASE j = id /\ ~Filters(p, id)
      BY <1>3, <1>5, <2>2, <2>a, <2>b, <3>3
    <3> QED BY <3>1, <3>2, <3>3
  <2>3. Entry(p, id).layer >= 0
    BY <1>1 DEF CallFits
  <2>4. \A j \in IdsOf(q) : Entry(q, j).once => Entry(q, j).layer >= 0
    BY <1>0, <1>3, <1>5, <2>3 DEF RefsCounted
  <2>5. \A j \in IdsOf(q) :
          Entry(q, j).once /\ Kind(Obj(q, j)) = "plain" => Entry(q, j).layer < setting.nest
    <3> SUFFICES ASSUME Kind(Obj(p, id)) = "plain" PROVE Entry(p, id).layer < setting.nest
      BY <1>0, <1>3, <1>5 DEF RefsCounted
    <3>1. LayerOf(p, call) + LevelsOf(p, call) <= p.depth
      BY <1>0, <1>1 DEF Depths, Inner
    <3>2. LevelsOf(p, call) = 1
      BY DEF LevelsOf, Levels, Arrays
    <3>3. p.depth <= setting.nest /\ p.depth \in Nat /\ setting.nest \in Nat
      BY <1>0 DEF EntriesFit, PoolTyped, PoolType, HeapFits, HeapTyped
    <3>4. LayerOf(p, call) = Entry(p, id).layer /\ LayerOf(p, call) \in Nat
      BY <1>1, StackLayers DEF LayerOf
    <3> QED BY <3>1, <3>2, <3>3, <3>4
  <2> QED BY <2>1, <2>2, <2>4, <2>5 DEF RefsCounted
<1>15. ASSUME NEW j \in IdsOf(p) PROVE Kept(p, c, j) <=> j \in IdsOf(q) /\ Kept(q, d, j)
  <2>1. CASE Filters(p, id)
    <3>1. \A v \in DOMAIN c : c[v].id = p.owner <=> v = Len(c)
      BY <1>1, <1>2, <2>1
    <3>2. Kept(p, c, j) <=> j < call.nPos
      BY <1>1, <1>2, <2>1, <3>1 DEF Kept
    <3>3. Kept(q, d, j)
      BY <1>2, <2>1 DEF Kept
    <3>4. n = call.nPos /\ j \in Nat
      BY <1>0, <2>1, EntryTyped DEF n
    <3> QED BY <1>5, <3>2, <3>3, <3>4
  <2>2. CASE ~Filters(p, id) /\ p.filtering
    BY <1>2, <1>5, <2>2 DEF Kept, n, IdsOf
  <2>3. CASE ~Filters(p, id) /\ ~p.filtering
    <3>1. \A v \in DOMAIN c : c[v].id = p.owner => v \in DOMAIN d /\ d[v] = c[v]
      BY <1>1, <1>2, <1>7, <2>3
    <3>2. IdsOf(q) = IdsOf(p) /\ ~q.filtering /\ q.owner = p.owner
      BY <1>2, <1>5, <2>3 DEF n, IdsOf
    <3> QED BY <1>6, <2>3, <3>1, <3>2 DEF Kept
  <2> QED BY <2>1, <2>2, <2>3
<1>16. Changed(p, c, q, d, id)
  <2>1. Entry(p, id).layer >= 0 => Entry(q, id).layer \in 0..Entry(p, id).layer
    <3>1. Entry(p, id).layer \in Int
      BY <1>0, <1>1, EntryTyped DEF EntryType
    <3> QED BY <1>3, <1>5, <3>1
  <2> QED BY <1>3, <1>5, <1>15, <2>1 DEF Changed
<1> QED BY <1>5, <1>8, <1>11, <1>12, <1>13, <1>14, <1>16 DEF Fits, e

-----------------------------------------------------------------------------
(* What the search may keep *)

Sound(p, c, S) == RefsRight(p) /\ Good(p, c, S)

\* A part that is kept is a string.
LEMMA PartNotKept ==
  ASSUME NEW p, NEW c, NEW S, EntriesFit(p), Near(p, c, S), PartsOwned(S),
         NEW id \in IdsOf(p), Obj(p, id) \in Parts, ~Entry(p, id).expanded
  PROVE  ~Kept(p, c, id)
<1> SUFFICES ASSUME Kept(p, c, id) PROVE FALSE
  OBVIOUS
<1>1. Obj(p, id) \in Around(S)[setting.nest]
  BY DEF Near
<1>2. Kind(Obj(p, id)) = "string"
  BY <1>1 DEF PartsOwned, Of
<1>3. Entry(p, id).expanded
  BY <1>2 DEF EntriesFit, EntryFits, NoMembers, Obj
<1> QED BY <1>3

\* The parts of values, and what they refer to, are parts.
LEMMA PartsAre ==
  ASSUME HeapFits
  PROVE  Targets(Of(Filtered)) \subseteq Parts /\ Targets(Parts) \subseteq Parts
<1>1. Of(Filtered) \in SUBSET Objects
  BY DEF Of
<1>2. Targets(Of(Filtered)) \subseteq Objects
  BY <1>1, TargetsAreObjects
<1>3. Targets(Of(Filtered)) \subseteq Parts /\ Closed(Parts, Kinds)
  BY <1>2, ReachIs DEF Parts
<1>4. Parts \cap Of(Kinds) = Parts
  <2>1. \A o \in Parts : o \in Objects /\ Kind(o) \in Kinds
    BY <1>3 DEF Closed, HeapFits, HeapTyped, Kind
  <2> QED BY <2>1 DEF Of
<1> QED BY <1>3, <1>4 DEF Closed

\* What is shown next: a source, or a member of the innermost call
Aims(p, c, o, S) ==
  /\ o \in Objects
  /\ IF c = <<>> THEN o \in S
     ELSE c[Len(c)].next \in DOMAIN FieldOf(p, c[Len(c)].id) /\ MemberOf(p, c) = o

\* A member of the innermost call is a target of its object.
LEMMA MemberIs ==
  ASSUME HeapFits, NEW p, NEW c, Fits(p, c), c # <<>>, NEW S, NEW o, Aims(p, c, o, S),
         NEW id, id = c[Len(c)].id, NEW T, Obj(p, id) \in T
  PROVE  o \in Targets(T)
<1>1. /\ c[Len(c)].next \in DOMAIN graph.field[Obj(p, id)]
      /\ o = graph.field[Obj(p, id)][c[Len(c)].next] /\ o # NoObject
  BY ObjectsAssumption DEF Aims, MemberOf, FieldOf
<1> QED BY <1>1, TargetsIs

\* While a value owns the filter, what is shown next is a part.
LEMMA AimIsPart ==
  ASSUME HeapFits, NEW p, NEW c, Fits(p, c), Inside(p, c), ~p.filtering,
         NEW S, NEW o, Aims(p, c, o, S)
  PROVE  o \in Parts
<1> DEFINE id == c[Len(c)].id
<1>1. PICK v \in DOMAIN c : c[v].id = p.owner /\ IsFiltered(p, c[v].id)
  BY DEF Fits, FilterFits
<1>2. c # <<>>
  BY <1>1
<1>3. v = Len(c) \/ v < Len(c)
  BY <1>1, <1>2, TopIs
<1>4. Len(c) \in DOMAIN c /\ id \in IdsOf(p) /\ Indexed(p)
  BY <1>2, TopIs DEF Fits
<1>5. CASE v = Len(c)
  <2>1. Obj(p, id) \in Of(Filtered)
    <3>1. Obj(p, id) \in Objects
      BY <1>4, EntryTyped DEF Indexed
    <3> QED BY <1>1, <1>5, <3>1 DEF Of, IsFiltered, Obj
  <2> HIDE DEF id
  <2>2. o \in Targets(Of(Filtered))
    BY <1>2, <2>1, MemberIs DEF id
  <2> QED BY <2>2, PartsAre
<1>6. CASE v < Len(c)
  <2>1. Obj(p, id) \in Parts
    BY <1>1, <1>4, <1>6 DEF Inside
  <2> HIDE DEF id
  <2>2. o \in Targets(Parts)
    BY <1>2, <2>1, MemberIs DEF id
  <2> QED BY <2>2, PartsAre
<1> QED BY <1>3, <1>5, <1>6

\* Otherwise it is as near as the layer says.
LEMMA AimIsNear ==
  ASSUME HeapFits, NEW p, NEW c, Fits(p, c), NEW S \in SUBSET Objects, Near(p, c, S), p.filtering,
         NEW o, Aims(p, c, o, S), NEW layer, layer = IF c = <<>> THEN 0 ELSE p.depth
  PROVE  o \in Around(S)[layer] /\ layer \in 0..setting.nest /\ o \in Around(S)[setting.nest]
<1>0. setting.nest \in Nat /\ p.depth \in Nat /\ p.depth <= setting.nest /\ Indexed(p)
  BY DEF HeapFits, HeapTyped, Fits, Indexed, PoolTyped, PoolType, EntriesFit
<1>1. layer \in 0..setting.nest /\ setting.nest \in 0..setting.nest
  BY <1>0
<1>2. CASE c = <<>>
  BY <1>1, <1>2, AroundGrows DEF Aims
<1>3. CASE c # <<>>
  <2> DEFINE id == c[Len(c)].id
             l == LayerOf(p, c[Len(c)])
  <2>1. Len(c) \in DOMAIN c /\ id \in IdsOf(p) /\ CallFits(p, c[Len(c)])
    BY <1>3, TopIs
  <2>2. l \in Nat /\ l = Entry(p, id).layer /\ l + Levels(Obj(p, id)) <= p.depth
    <3>1. l \in Nat
      BY <2>1, StackLayers
    <3>2. l + LevelsOf(p, c[Len(c)]) <= p.depth
      BY <2>1 DEF Fits, Depths, Inner
    <3> QED BY <3>1, <3>2 DEF LayerOf, LevelsOf
  <2>3. Obj(p, id) \in Around(S)[l] /\ Obj(p, id) \in Objects
    <3>1. Kept(p, c, id)
      BY DEF Kept
    <3>2. Obj(p, id) \in Around(S)[Entry(p, id).layer]
      BY <2>1, <2>2, <3>1 DEF Near
    <3> QED BY <1>0, <2>1, <2>2, <3>2, EntryTyped DEF Indexed
  <2>4. Kind(Obj(p, id)) = "plain" \/ Kind(Obj(p, id)) = "array"
    <3>1. Kind(Obj(p, id)) \notin Filtered
      BY <2>1 DEF Fits, FilterFits, IsFiltered, Obj
    <3>2. Kind(Obj(p, id)) # "string"
      BY <2>1 DEF Fits, EntriesFit, EntryFits, CallFits, NoMembers, Obj
    <3>3. Kind(Obj(p, id)) \in Kinds
      BY <2>3 DEF HeapFits, HeapTyped, Kind
    <3> QED BY <3>1, <3>2, <3>3 DEF Kinds, Filtered
  <2> HIDE DEF id, l
  <2>5. ASSUME Kind(Obj(p, id)) = "array" PROVE o \in Around(S)[p.depth]
    <3>1. Obj(p, id) \in Around(S)[l] \cap Of({"array"})
      BY <2>3, <2>5 DEF Of
    <3>2. o \in Targets(Around(S)[l] \cap Of({"array"}))
      BY <1>3, <3>1, MemberIs DEF id
    <3>3. l <= p.depth
      BY <1>0, <2>2 DEF Levels
    <3>4. l \in 0..setting.nest /\ p.depth \in 0..setting.nest /\ l \in 0..p.depth
      BY <1>0, <2>2, <3>3
    <3>5. o \in Around(S)[l]
      BY <3>2, <3>4, AroundGrows DEF Closed
    <3> QED BY <3>4, <3>5, AroundGrows
  <2>6. ASSUME Kind(Obj(p, id)) = "plain" PROVE o \in Around(S)[p.depth]
    <3>1. Obj(p, id) \in Around(S)[l] \cap Of({"plain"})
      BY <2>3, <2>6 DEF Of
    <3>2. o \in Targets(Around(S)[l] \cap Of({"plain"}))
      BY <1>3, <3>1, MemberIs DEF id
    <3>3. l + 1 <= p.depth
      BY <2>2, <2>6 DEF Levels, Arrays
    <3>4. l \in 0..setting.nest /\ p.depth \in 0..setting.nest /\ l + 1 \in 0..p.depth /\ l < setting.nest
      BY <1>0, <2>2, <3>3
    <3>5. o \in Around(S)[l + 1]
      BY <3>2, <3>4, AroundGrows
    <3> QED BY <3>4, <3>5, AroundGrows
  <2>7. o \in Around(S)[p.depth]
    BY <2>4, <2>5, <2>6
  <2> QED BY <1>1, <1>3, <2>7, AroundGrows
<1>4. o \in Around(S)[layer]
  BY <1>2, <1>3
<1> QED BY <1>1, <1>4, AroundGrows

\* If the entry of the innermost call is kept, although entries are not, it is that of
\* the owner.
LEMMA TopOwns ==
  ASSUME HeapFits, NEW p, NEW c, Fits(p, c), c # <<>>, NEW S, Near(p, c, S), Inside(p, c), PartsOwned(S),
         ~p.filtering, NEW id, id = c[Len(c)].id, Kept(p, c, id)
  PROVE  id = p.owner /\ IsFiltered(p, id)
<1>1. PICK v \in DOMAIN c : c[v].id = p.owner /\ IsFiltered(p, c[v].id)
  BY DEF Fits, FilterFits
<1>2. /\ Len(c) \in DOMAIN c /\ id \in IdsOf(p) /\ CallFits(p, c[Len(c)])
      /\ v # Len(c) => v < Len(c)
  BY <1>1, TopIs
<1>3. CASE v # Len(c)
  <2>1. Obj(p, id) \in Parts
    BY <1>1, <1>2, <1>3 DEF Inside
  <2>2. ~Entry(p, id).expanded
    BY <1>2 DEF CallFits
  <2> QED BY <1>2, <2>1, <2>2, PartNotKept DEF Fits
<1> QED BY <1>1, <1>3

\* A new entry keeps the pool sound.
LEMMA GrowSound ==
  ASSUME HeapFits, NEW p, NEW q, NEW c, NEW S, NEW o \in Objects, Fits(p, c), Grown(p, q, o), Sound(p, c, S),
         p.filtering => o \in Around(S)[setting.nest]
  PROVE  Sound(q, c, S)
<1> DEFINE new == Len(p.objs)
<1>0. PoolTyped(p) /\ CallsFit(p, c) /\ FilterFits(p, c)
  BY DEF Fits, Indexed
<1>1. /\ IdsOf(q) = IdsOf(p) \cup {new} /\ new \notin IdsOf(p) /\ new \in Nat
      /\ \A id \in IdsOf(p) : Obj(q, id) = Obj(p, id) /\ Entry(q, id) = Entry(p, id)
      /\ Obj(q, new) = o /\ Entry(q, new) = NewEntry(o)
      /\ (q.filtering <=> p.filtering) /\ q.owner = p.owner
  BY <1>0, GrownIds DEF Grown
<1> HIDE DEF new
<1>2. NewEntry(o).refs = <<>> /\ ~NewEntry(o).once /\ NewEntry(o).layer = -1
  BY DEF NewEntry
<1>3. \A id \in IdsOf(p) : FieldOf(q, id) = FieldOf(p, id)
  BY <1>1 DEF FieldOf
<1>4. \A id : Kept(q, c, id) <=> Kept(p, c, id)
  BY <1>1 DEF Kept
<1>5. Kept(q, c, new) => p.filtering
  <2> SUFFICES ASSUME ~p.filtering PROVE ~Kept(p, c, new)
    BY <1>4
  <2>1. PICK v \in DOMAIN c : c[v].id = p.owner
    BY <1>0 DEF FilterFits
  <2>2. c[v].nPos \in Nat /\ c[v].nPos <= new
    <3>1. CallFits(p, c[v]) /\ c[v] \in CallType
      BY <1>0, CallsTyped
    <3>2. c[v].nPos \in Nat /\ c[v].id \in Nat
      BY <3>1 DEF CallType
    <3> QED BY <1>1, <3>1, <3>2 DEF CallFits, new
  <2> QED BY <1>1, <2>1, <2>2 DEF Kept
<1>6. RefsRight(q)
  <2> SUFFICES ASSUME NEW id \in IdsOf(q), NEW i \in DOMAIN Entry(q, id).refs
               PROVE  RefRight(q, id, Entry(q, id).refs[i])
    BY DEF RefsRight
  <2>1. id # new
    BY <1>1, <1>2
  <2>2. id \in IdsOf(p) /\ Entry(q, id) = Entry(p, id)
    BY <1>1, <2>1
  <2>3. RefRight(p, id, Entry(p, id).refs[i])
    BY <2>2 DEF Sound, RefsRight
  <2> QED BY <1>1, <1>3, <2>2, <2>3 DEF RefRight
<1>7. RefsKept(q, c)
  <2> SUFFICES ASSUME NEW id \in IdsOf(q), Kept(q, c, id), q.filtering \/ id # q.owner,
                      NEW i \in DOMAIN Entry(q, id).refs, Entry(q, id).refs[i] # -1
               PROVE  Kept(q, c, Entry(q, id).refs[i])
    BY DEF RefsKept
  <2>1. id # new
    BY <1>1, <1>2
  <2>2. id \in IdsOf(p) /\ Entry(q, id) = Entry(p, id) /\ Kept(p, c, id) /\ (p.filtering \/ id # p.owner)
    BY <1>1, <1>4, <2>1
  <2> QED BY <1>4, <2>2 DEF Sound, Good, RefsKept
<1>8. Near(q, c, S)
  <2> SUFFICES ASSUME NEW id \in IdsOf(q), Kept(q, c, id)
               PROVE  /\ Obj(q, id) \in Around(S)[setting.nest]
                      /\ Entry(q, id).layer >= 0 => Obj(q, id) \in Around(S)[Entry(q, id).layer]
    BY DEF Near
  <2>1. CASE id = new
    BY <1>1, <1>2, <1>5, <2>1
  <2>2. CASE id # new
    BY <1>1, <1>4, <2>2 DEF Sound, Good, Near
  <2> QED BY <2>1, <2>2
<1>9. Inside(q, c)
  <2>1. \A k \in DOMAIN c : Obj(q, c[k].id) = Obj(p, c[k].id)
    BY <1>0, <1>1, CallsTyped
  <2> QED BY <1>1, <2>1 DEF Sound, Good, Inside
<1>10. ValuesBare(q, c)
  <2> SUFFICES ASSUME NEW id \in IdsOf(q), Kept(q, c, id), ~OnStack(c, id), Kind(Obj(q, id)) = "value"
               PROVE  ~Entry(q, id).once
    BY DEF ValuesBare
  <2>1. CASE id = new
    BY <1>1, <1>2, <2>1
  <2>2. CASE id # new
    BY <1>1, <1>4, <2>2 DEF Sound, Good, ValuesBare
  <2> QED BY <2>1, <2>2
<1> QED BY <1>6, <1>7, <1>8, <1>9, <1>10 DEF Sound, Good

\* What holds of the calls c holds of calls d of the same entries.
LEMMA SameCallsSound ==
  ASSUME NEW p, NEW c, NEW d, NEW S, Sound(p, c, S), DOMAIN d = DOMAIN c,
         \A k \in DOMAIN c : d[k].id = c[k].id /\ d[k].nPos = c[k].nPos
  PROVE  Sound(p, d, S)
<1>1. \A id : Kept(p, d, id) <=> Kept(p, c, id)
  BY DEF Kept
<1>2. \A id : OnStack(d, id) <=> OnStack(c, id)
  BY DEF OnStack
<1>3. RefsKept(p, d)
  BY <1>1 DEF Sound, Good, RefsKept
<1>4. Near(p, d, S)
  BY <1>1 DEF Sound, Good, Near
<1>5. Inside(p, d)
  BY DEF Sound, Good, Inside
<1>6. ValuesBare(p, d)
  BY <1>1, <1>2 DEF Sound, Good, ValuesBare
<1> QED BY <1>3, <1>4, <1>5, <1>6 DEF Sound, Good

\* An entry that is to be expanded and kept is no part.
LEMMA ExpandsNear ==
  ASSUME HeapFits, NEW p, NEW c, Fits(p, c), NEW id, NEW layer, Expands(p, c, id, layer),
         NEW S \in SUBSET Objects, Near(p, c, S), Inside(p, c), PartsOwned(S), Aims(p, c, Obj(p, id), S),
         Kept(p, c, id)
  PROVE  p.filtering /\ Obj(p, id) \in Around(S)[layer]
<1>1. id \in IdsOf(p) /\ ~Entry(p, id).expanded /\ layer = IF c = <<>> THEN 0 ELSE p.depth
  BY DEF Expands
<1>2. p.filtering
  <2> SUFFICES ASSUME ~p.filtering PROVE FALSE
    OBVIOUS
  <2>1. Obj(p, id) \in Parts
    BY AimIsPart
  <2> QED BY <1>1, <2>1, PartNotKept DEF Fits
<1>3. Obj(p, id) \in Around(S)[layer]
  BY <1>1, <1>2, AimIsNear
<1> QED BY <1>2, <1>3

\* Expanding an object keeps the pool sound.
LEMMA EnterSound ==
  ASSUME HeapFits, NEW p, NEW c, Fits(p, c), NEW id, NEW layer, Expands(p, c, id, layer),
         NEW q, NEW d, Entered(p, c, q, d, id, layer),
         NEW S \in SUBSET Objects, PartsOwned(S), Aims(p, c, Obj(p, id), S), Sound(p, c, S)
  PROVE  Sound(q, d, S)
<1> DEFINE n == Len(c) + 1
           e == Layered(p, id, layer)
<1>0. /\ RefsRight(p) /\ RefsKept(p, c) /\ Near(p, c, S) /\ Inside(p, c) /\ ValuesBare(p, c)
      /\ FilterFits(p, c) /\ Indexed(p) /\ id \in IdsOf(p) /\ CallsFit(p, c)
  BY DEF Sound, Good, Fits, Expands
<1>1. Changed(p, c, q, d, id)
  BY EnterFits
<1>2. /\ Rewritten(p, q, Len(p.objs), id, e)
      /\ (q.filtering <=> p.filtering /\ ~Owns(p, id))
      /\ q.owner = IF Owns(p, id) THEN id ELSE p.owner
      /\ DOMAIN d = DOMAIN c \cup {n} /\ n \notin DOMAIN c
      /\ \A k \in DOMAIN c : d[k] = c[k]
      /\ d[n].id = id
  <2>1. Pushed(p, c, q, d, id, layer)
    BY EnteredIs
  <2> QED BY <2>1 DEF Pushed
<1>3. e.refs = Entry(p, id).refs /\ e.layer = layer /\ ~OnStack(c, id)
  BY ExpandsIs
<1> HIDE DEF e
<1>4. IdsOf(q) = IdsOf(p) /\ Entry(q, id) = e /\ \A j \in IdsOf(p) : Obj(q, j) = Obj(p, j)
  BY <1>0, <1>2, RewrittenIs
<1>5. FieldOf(q, id) = FieldOf(p, id)
  BY <1>0, <1>4 DEF FieldOf
<1>6. \A j : OnStack(d, j) <=> OnStack(c, j) \/ j = id
  BY <1>2 DEF OnStack
<1>7. ~p.filtering => p.owner # id
  BY <1>0, <1>3 DEF FilterFits, OnStack
<1>8. RefsRight(q)
  <2>1. \A i \in DOMAIN Entry(q, id).refs : RefRight(q, id, Entry(q, id).refs[i])
    <3> TAKE i \in DOMAIN Entry(q, id).refs
    <3>1. RefRight(p, id, Entry(p, id).refs[i]) /\ Entry(q, id).refs = Entry(p, id).refs
      BY <1>0, <1>3, <1>4 DEF RefsRight
    <3> QED BY <1>4, <1>5, <3>1 DEF RefRight
  <2> QED BY <1>0, <1>1, <1>4, <2>1, RefsRightStays
<1>9. RefsKept(q, d)
  <2>1. \A j \in IdsOf(q) : j # id /\ (q.filtering \/ j # q.owner) => (p.filtering \/ j # p.owner)
    BY <1>2 DEF Owns
  <2>2. ASSUME Kept(q, d, id), q.filtering \/ id # q.owner,
               NEW i \in DOMAIN Entry(q, id).refs, Entry(q, id).refs[i] # -1
        PROVE  Kept(q, d, Entry(q, id).refs[i])
    <3>1. Kept(p, c, id) /\ Entry(q, id).refs = Entry(p, id).refs
      BY <1>0, <1>1, <1>3, <1>4, <2>2 DEF Changed
    <3>2. Kept(p, c, Entry(p, id).refs[i])
      BY <1>0, <1>7, <2>2, <3>1 DEF RefsKept
    <3>3. Entry(p, id).refs[i] \in IdsOf(p)
      BY <1>0, <2>2, <3>1 DEF RefsRight, RefRight
    <3> QED BY <1>1, <1>4, <3>1, <3>2, <3>3 DEF Changed
  <2> QED BY <1>0, <1>1, <2>1, <2>2, RefsKeptStays
<1>10. Near(q, d, S)
  <2>1. Kept(q, d, id) /\ Entry(q, id).layer >= 0 => Obj(q, id) \in Around(S)[Entry(q, id).layer]
    <3> SUFFICES ASSUME Kept(q, d, id) PROVE Obj(q, id) \in Around(S)[Entry(q, id).layer]
      OBVIOUS
    <3>1. Kept(p, c, id)
      BY <1>0, <1>1, <1>4 DEF Changed
    <3>2. Obj(p, id) \in Around(S)[layer]
      BY <1>0, <3>1, ExpandsNear
    <3> QED BY <1>0, <1>3, <1>4, <3>2
  <2> QED BY <1>0, <1>1, <2>1, NearStays
<1>11. Inside(q, d)
  <2> SUFFICES ASSUME ~q.filtering, NEW v \in DOMAIN d, NEW k \in DOMAIN d, v < k, d[v].id = q.owner
               PROVE  Obj(q, d[k].id) \in Parts
    BY DEF Inside
  <2>0. DOMAIN c = 1..Len(c) /\ Len(c) \in Nat /\ \A j \in DOMAIN c : c[j].id \in IdsOf(p)
    BY <1>0, CallsTyped DEF CallsFit
  <2>1. v \in DOMAIN c
    BY <1>2, <2>0
  <2>2. d[v] = c[v] /\ d[v].id # id
    BY <1>2, <1>3, <2>1 DEF OnStack
  <2>3. ~p.filtering /\ q.owner = p.owner
    BY <1>2, <2>2 DEF Owns
  <2>4. CASE k \in DOMAIN c
    <3>1. Obj(p, c[k].id) \in Parts
      BY <1>0, <2>1, <2>2, <2>3, <2>4 DEF Inside
    <3> QED BY <1>2, <1>4, <2>0, <2>4, <3>1
  <2>5. CASE k = n
    <3>1. Obj(p, id) \in Parts
      BY <1>0, <2>3, AimIsPart
    <3> QED BY <1>0, <1>2, <1>4, <2>5, <3>1
  <2> QED BY <1>2, <2>4, <2>5
<1>12. ValuesBare(q, d)
  BY <1>0, <1>1, <1>6, ValuesBareStays
<1> QED BY <1>8, <1>9, <1>10, <1>11, <1>12 DEF Sound, Good

\* Leaving an object at once keeps it sound.
LEMMA SkipSound ==
  ASSUME HeapFits, NEW p, NEW c, Fits(p, c), NEW id, NEW layer, Expands(p, c, id, layer),
         NEW q, Skips(p, q, id, layer),
         NEW S \in SUBSET Objects, PartsOwned(S), Aims(p, c, Obj(p, id), S), Sound(p, c, S)
  PROVE  Sound(q, c, S)
<1> DEFINE e == SkippedEntry(p, id, layer)
<1>0. /\ RefsRight(p) /\ RefsKept(p, c) /\ Near(p, c, S) /\ Inside(p, c) /\ ValuesBare(p, c)
      /\ FilterFits(p, c) /\ Indexed(p) /\ id \in IdsOf(p) /\ CallsFit(p, c)
  BY DEF Sound, Good, Fits, Expands
<1>1. Changed(p, c, q, c, id)
  BY SkipFits
<1>2. /\ Rewritten(p, q, Len(p.objs), id, e) /\ (q.filtering <=> p.filtering)
      /\ (~p.filtering => q.owner = p.owner) /\ Kind(Obj(p, id)) \notin Arrays
  <2>1. Skipped(p, q, id, layer)
    BY SkippedIs
  <2> QED BY <2>1 DEF Skipped
<1>3. /\ e.layer = layer
      /\ Owns(p, id) => ~e.once /\ e.refs = <<>> /\ Kind(Obj(p, id)) = "value"
      /\ ~Owns(p, id) => e.once = Entry(p, id).once /\ e.refs = Entry(p, id).refs
  BY <1>2, SkippedEntryIs
<1> HIDE DEF e
<1>4. IdsOf(q) = IdsOf(p) /\ Entry(q, id) = e /\ \A j \in IdsOf(p) : Obj(q, j) = Obj(p, j)
  BY <1>0, <1>2, RewrittenIs
<1>5. FieldOf(q, id) = FieldOf(p, id)
  BY <1>0, <1>4 DEF FieldOf
<1>6. ~OnStack(c, id) /\ (~p.filtering => p.owner # id)
  BY <1>0, ExpandsIs DEF FilterFits, OnStack
<1>7. \A i \in DOMAIN e.refs : i \in DOMAIN Entry(p, id).refs /\ e.refs[i] = Entry(p, id).refs[i]
  BY <1>3
<1>8. RefsRight(q)
  <2>1. \A i \in DOMAIN Entry(q, id).refs : RefRight(q, id, Entry(q, id).refs[i])
    <3> TAKE i \in DOMAIN Entry(q, id).refs
    <3>1. RefRight(p, id, Entry(p, id).refs[i]) /\ Entry(q, id).refs[i] = Entry(p, id).refs[i]
      BY <1>0, <1>4, <1>7 DEF RefsRight
    <3> QED BY <1>4, <1>5, <3>1 DEF RefRight
  <2> QED BY <1>0, <1>1, <1>4, <2>1, RefsRightStays
<1>9. RefsKept(q, c)
  <2>1. \A j \in IdsOf(q) : j # id /\ (q.filtering \/ j # q.owner) => (p.filtering \/ j # p.owner)
    BY <1>2
  <2>2. ASSUME Kept(q, c, id), NEW i \in DOMAIN Entry(q, id).refs, Entry(q, id).refs[i] # -1
        PROVE  Kept(q, c, Entry(q, id).refs[i])
    <3>1. /\ Kept(p, c, id) /\ i \in DOMAIN Entry(p, id).refs
          /\ Entry(q, id).refs[i] = Entry(p, id).refs[i]
      BY <1>0, <1>1, <1>4, <1>7, <2>2 DEF Changed
    <3>2. Kept(p, c, Entry(p, id).refs[i])
      BY <1>0, <1>6, <2>2, <3>1 DEF RefsKept
    <3>3. Entry(p, id).refs[i] \in IdsOf(p)
      BY <1>0, <2>2, <3>1 DEF RefsRight, RefRight
    <3> QED BY <1>1, <1>4, <3>1, <3>2, <3>3 DEF Changed
  <2> QED BY <1>0, <1>1, <2>1, <2>2, RefsKeptStays
<1>10. Near(q, c, S)
  <2>1. Kept(q, c, id) /\ Entry(q, id).layer >= 0 => Obj(q, id) \in Around(S)[Entry(q, id).layer]
    <3> SUFFICES ASSUME Kept(q, c, id) PROVE Obj(q, id) \in Around(S)[Entry(q, id).layer]
      OBVIOUS
    <3>1. Kept(p, c, id)
      BY <1>0, <1>1, <1>4 DEF Changed
    <3>2. Obj(p, id) \in Around(S)[layer]
      BY <1>0, <3>1, ExpandsNear
    <3> QED BY <1>0, <1>3, <1>4, <3>2
  <2> QED BY <1>0, <1>1, <2>1, NearStays
<1>11. Inside(q, c)
  <2>1. \A k \in DOMAIN c : Obj(q, c[k].id) = Obj(p, c[k].id)
    BY <1>0, <1>4, CallsTyped
  <2> QED BY <1>0, <1>2, <2>1 DEF Inside
<1>12. ValuesBare(q, c)
  <2>1. Kept(q, c, id) /\ Kind(Obj(q, id)) = "value" => ~Entry(q, id).once
    <3> SUFFICES ASSUME Kept(q, c, id), Kind(Obj(p, id)) = "value" PROVE ~e.once
      BY <1>0, <1>4
    <3>1. p.filtering
      BY <1>0, <1>1, <1>4, ExpandsNear DEF Changed
    <3>2. Owns(p, id)
      BY <3>1 DEF Owns, IsFiltered, Filtered, Obj
    <3> QED BY <1>3, <3>2
  <2> QED BY <1>0, <1>1, <2>1, ValuesBareStays
<1> QED BY <1>8, <1>9, <1>10, <1>11, <1>12 DEF Sound, Good

\* Noting a reference keeps it sound: the reference is to the entry of the member.
LEMMA NoteSound ==
  ASSUME HeapFits, NEW p, NEW c, Fits(p, c), NEW q, NEW d, Notes(p, c, q, d),
         NEW S, PartsOwned(S), Sound(p, c, S)
  PROVE  Sound(q, d, S)
<1> DEFINE id == c[Len(c)].id
           e == NotedEntry(p, c)
           old == Entry(p, id)
           ref == RefTo(p, MemberOf(p, c))
<1>0. /\ RefsRight(p) /\ RefsKept(p, c) /\ Near(p, c, S) /\ Inside(p, c) /\ ValuesBare(p, c)
      /\ Indexed(p) /\ CallsFit(p, c) /\ c # <<>> /\ c \in Seq(CallType)
  BY DEF Sound, Good, Fits, Notes, CallsFit
<1>1. /\ Changed(p, c, q, d, id) /\ IdsOf(q) = IdsOf(p) /\ Entry(q, id) = e
      /\ (q.filtering <=> p.filtering) /\ q.owner = p.owner
      /\ MemberOf(p, c) \in Present(p) \cup {NoObject}
      /\ c[Len(c)].next \in DOMAIN FieldOf(p, id)
  BY NoteFits
<1>2. id \in IdsOf(p) /\ \A j \in IdsOf(p) : Obj(q, j) = Obj(p, j) /\ FieldOf(q, j) = FieldOf(p, j)
  BY <1>1 DEF Changed, FieldOf
<1>3. DOMAIN d = DOMAIN c /\ \A k \in DOMAIN c : d[k].id = c[k].id
  BY <1>0, MovedIs DEF Notes
<1>4. \A j : OnStack(d, j) <=> OnStack(c, j)
  BY <1>3 DEF OnStack
<1>5. ref # -1 => ref \in IdsOf(p) /\ Obj(p, ref) = MemberOf(p, c)
  <2>1. CASE MemberOf(p, c) = NoObject
    BY <2>1 DEF RefTo
  <2>2. CASE MemberOf(p, c) # NoObject
    <3>1. PICK j \in IdsOf(p) : Obj(p, j) = MemberOf(p, c)
      BY <1>1, <2>2 DEF Present
    <3>2. Obj(p, j) \in Objects
      BY <1>0, EntryTyped DEF Indexed
    <3> QED BY <1>0, <2>2, <3>1, <3>2, IdFound DEF RefTo
  <2> QED BY <2>1, <2>2
<1>6. e.layer = old.layer
      /\ \A i \in DOMAIN e.refs : (i \in DOMAIN old.refs /\ e.refs[i] = old.refs[i]) \/ e.refs[i] = ref
  <2>0. old \in EntryType /\ old.refs \in Seq(Int)
    BY <1>0, <1>2, EntryTyped DEF Indexed, EntryType
  <2>1. CASE c[Len(c)].once
    BY <2>1 DEF NotedEntry
  <2>2. CASE ~c[Len(c)].once
    <3>1. e = [old EXCEPT !.refs = Append(old.refs, ref)]
      BY <2>2 DEF NotedEntry, Noted
    <3> HIDE DEF ref, e
    <3>2. e.layer = old.layer /\ e.refs = Append(old.refs, ref)
      BY <2>0, <3>1 DEF EntryType
    <3>3. \A i \in DOMAIN Append(old.refs, ref) :
            \/ i \in DOMAIN old.refs /\ Append(old.refs, ref)[i] = old.refs[i]
            \/ Append(old.refs, ref)[i] = ref
      BY <2>0
    <3> QED BY <3>2, <3>3
  <2> QED BY <2>1, <2>2
<1> HIDE DEF e, ref, id, old
<1>7. RefsRight(q)
  <2>1. ASSUME NEW i \in DOMAIN e.refs PROVE RefRight(q, id, e.refs[i])
    <3>1. CASE i \in DOMAIN old.refs /\ e.refs[i] = old.refs[i]
      <4>1. RefRight(p, id, e.refs[i])
        BY <1>0, <1>2, <3>1 DEF RefsRight, old
      <4> QED BY <1>1, <1>2, <4>1 DEF RefRight
    <3>2. CASE e.refs[i] = ref
      BY <1>1, <1>2, <1>5, <3>2 DEF RefRight, MemberOf, id
    <3> QED BY <1>6, <3>1, <3>2
  <2> QED BY <1>0, <1>1, <2>1, RefsRightStays
<1>8. RefsKept(q, d)
  <2>1. \A j \in IdsOf(q) : j # id /\ (q.filtering \/ j # q.owner) => (p.filtering \/ j # p.owner)
    BY <1>1
  <2>2. ASSUME Kept(q, d, id), q.filtering \/ id # q.owner, NEW i \in DOMAIN e.refs, e.refs[i] # -1
        PROVE  Kept(q, d, e.refs[i])
    <3>1. Kept(p, c, id)
      BY <1>1, <1>2, <2>2 DEF Changed
    <3>2. q.filtering
      BY <1>0, <1>1, <2>2, <3>1, TopOwns DEF id
    <3> QED BY <3>2 DEF Kept
  <2> QED BY <1>0, <1>1, <2>1, <2>2, RefsKeptStays
<1>9. Near(q, d, S)
  <2>1. Kept(q, d, id) /\ Entry(q, id).layer >= 0 => Obj(q, id) \in Around(S)[Entry(q, id).layer]
    BY <1>0, <1>1, <1>2, <1>6 DEF Near, Changed, old
  <2> QED BY <1>0, <1>1, <2>1, NearStays
<1>10. Inside(q, d)
  <2>1. \A k \in DOMAIN c : Obj(q, d[k].id) = Obj(p, c[k].id)
    BY <1>0, <1>2, <1>3, CallsTyped
  <2> QED BY <1>0, <1>1, <1>3, <2>1 DEF Inside
<1>11. ValuesBare(q, d)
  <2>1. OnStack(d, id)
    BY <1>0, <1>4, TopIs DEF id
  <2> QED BY <1>0, <1>1, <1>4, <2>1, ValuesBareStays
<1> QED BY <1>7, <1>8, <1>9, <1>10, <1>11 DEF Sound, Good

\* A return keeps it sound: what stays refers to nothing that goes.
LEMMA ReturnSound ==
  ASSUME HeapFits, NEW p, NEW c, Fits(p, c), NEW q, NEW d, Returns(p, c, q, d),
         NEW S, PartsOwned(S), Sound(p, c, S)
  PROVE  Sound(q, d, S)
<1> DEFINE id == c[Len(c)].id
           e == ReturnedEntry(p, id)
           old == Entry(p, id)
<1>0. /\ RefsRight(p) /\ RefsKept(p, c) /\ Near(p, c, S) /\ Inside(p, c) /\ ValuesBare(p, c)
      /\ Indexed(p) /\ FilterFits(p, c) /\ CallsFit(p, c) /\ c # <<>> /\ c \in Seq(CallType)
      /\ d = SubSeq(c, 1, Len(c) - 1)
  BY DEF Sound, Good, Fits, Returns, CallsFit
<1>1. /\ Fits(q, d) /\ Changed(p, c, q, d, id) /\ Entry(q, id) = e
      /\ \A j : OnStack(c, j) /\ j # id => OnStack(d, j)
  BY ReturnFits
<1>2. /\ IF Filters(p, id) THEN q.filtering /\ ~p.filtering /\ p.owner = id
         ELSE (q.filtering <=> p.filtering) /\ (~p.filtering => p.owner # id)
      /\ ~Filters(p, id) => IdsOf(q) = IdsOf(p)
      /\ q.owner = p.owner
  <2>1. Returned(p, c, q, id)
    BY ReturnedIs
  <2>2. ~Filters(p, id) => Len(q.objs) = Len(p.objs)
    BY <2>1 DEF Returned, Rewritten
  <2> QED BY <2>1, <2>2 DEF Returned, IdsOf
<1>3. /\ id \in IdsOf(p) /\ id \in IdsOf(q) /\ Obj(q, id) = Obj(p, id) /\ FieldOf(q, id) = FieldOf(p, id)
      /\ Len(c) \in DOMAIN c /\ CallFits(p, c[Len(c)])
      /\ \A k \in DOMAIN c : k # Len(c) => k < Len(c)
  <2>1. id \in IdsOf(p) /\ id \in IdsOf(q) /\ Obj(q, id) = Obj(p, id) /\ FieldOf(q, id) = FieldOf(p, id)
    BY <1>1 DEF Changed, FieldOf
  <2> QED BY <1>0, <2>1, TopIs
<1>4. /\ e.layer = old.layer
      /\ Filters(p, id) =>
           /\ ~e.once
           /\ DOMAIN e.refs \subseteq DOMAIN old.refs
           /\ \A i \in DOMAIN e.refs : e.refs[i] = -1 \/ (e.refs[i] = old.refs[i] /\ old.refs[i] <= 0)
      /\ ~Filters(p, id) => e.once /\ e.refs = old.refs
  BY <1>0, <1>3, ReturnedEntryIs
<1> HIDE DEF e, id, old
<1>5. ASSUME NEW i \in DOMAIN e.refs, e.refs[i] # -1
      PROVE  i \in DOMAIN old.refs /\ e.refs[i] = old.refs[i] /\ (Filters(p, id) => old.refs[i] <= 0)
  BY <1>4, <1>5
<1>6. RefsRight(q)
  <2>1. ASSUME NEW i \in DOMAIN e.refs PROVE RefRight(q, id, e.refs[i])
    <3> SUFFICES ASSUME e.refs[i] # -1 PROVE RefRight(q, id, e.refs[i])
      BY DEF RefRight
    <3> DEFINE ref == e.refs[i]
    <3>1. RefRight(p, id, ref)
      BY <1>0, <1>3, <1>5 DEF RefsRight, old
    <3>2. ref \in IdsOf(q)
      <4>1. ref \in IdsOf(p)
        BY <3>1 DEF RefRight
      <4>2. CASE ~Filters(p, id)
        BY <1>2, <4>1, <4>2
      <4>3. CASE Filters(p, id)
        <5>1. ref <= 0
          BY <1>5, <4>3
        <5>2. ref = 0
          BY <4>1, <5>1 DEF IdsOf
        <5>3. id \in Nat /\ id \in 0..(Len(q.objs) - 1) /\ Len(q.objs) \in Nat
          <6>1. Indexed(q)
            BY <1>1 DEF Fits
          <6> QED BY <1>3, <6>1, KeysCounted, EntryTyped DEF IdsOf, Indexed
        <5> QED BY <5>2, <5>3 DEF IdsOf
      <4> QED BY <4>2, <4>3
    <3>3. Obj(q, ref) = Obj(p, ref)
      BY <1>1, <3>2 DEF Changed
    <3> QED BY <1>3, <3>1, <3>2, <3>3 DEF RefRight
  <2>2. \/ IdsOf(q) = IdsOf(p)
        \/ RefsKept(p, c) /\ \A j \in IdsOf(q) : Kept(q, d, j) /\ (p.filtering \/ j = id \/ j # p.owner)
    BY <1>0, <1>2 DEF Kept
  <2> QED BY <1>0, <1>1, <2>1, <2>2, RefsRightStays
<1>7. RefsKept(q, d)
  <2>1. \A j \in IdsOf(q) : j # id /\ (q.filtering \/ j # q.owner) => (p.filtering \/ j # p.owner)
    BY <1>2
  <2>2. ASSUME Kept(q, d, id), q.filtering \/ id # q.owner, NEW i \in DOMAIN e.refs, e.refs[i] # -1
        PROVE  Kept(q, d, e.refs[i])
    <3>1. CASE q.filtering
      BY <3>1 DEF Kept
    <3>2. CASE ~q.filtering
      <4>1. Kept(p, c, id) /\ id # p.owner
        BY <1>1, <1>2, <1>3, <2>2, <3>2 DEF Changed
      <4>2. i \in DOMAIN old.refs /\ e.refs[i] = old.refs[i]
        BY <1>5, <2>2
      <4>3. Kept(p, c, e.refs[i])
        BY <1>0, <1>3, <2>2, <4>1, <4>2 DEF RefsKept, old
      <4>4. e.refs[i] \in IdsOf(p)
        BY <1>0, <1>3, <2>2, <4>2 DEF RefsRight, RefRight, old
      <4> QED BY <1>1, <4>3, <4>4 DEF Changed
    <3> QED BY <3>1, <3>2
  <2> QED BY <1>0, <1>1, <2>1, <2>2, RefsKeptStays
<1>8. Near(q, d, S)
  <2>1. Kept(q, d, id) /\ Entry(q, id).layer >= 0 => Obj(q, id) \in Around(S)[Entry(q, id).layer]
    BY <1>0, <1>1, <1>3, <1>4 DEF Near, Changed, old
  <2> QED BY <1>0, <1>1, <2>1, NearStays
<1>9. Inside(q, d)
  <2> SUFFICES ASSUME ~q.filtering, NEW v \in DOMAIN d, NEW k \in DOMAIN d, v < k, d[v].id = q.owner
               PROVE  Obj(q, d[k].id) \in Parts
    BY DEF Inside
  <2>1. v \in DOMAIN c /\ d[v] = c[v] /\ k \in DOMAIN c /\ d[k] = c[k]
    BY <1>0, ButLastIs
  <2>2. ~p.filtering /\ q.owner = p.owner
    BY <1>2
  <2>3. Obj(p, c[k].id) \in Parts
    BY <1>0, <2>1, <2>2 DEF Inside
  <2>4. d[k].id \in IdsOf(q)
    BY <1>1, CallsTyped DEF Fits
  <2>5. Obj(q, d[k].id) = Obj(p, d[k].id)
    BY <1>1, <2>4 DEF Changed
  <2> QED BY <2>1, <2>3, <2>5
<1>10. ValuesBare(q, d)
  <2>1. Kept(q, d, id) /\ Kind(Obj(q, id)) = "value" => ~Entry(q, id).once
    <3> SUFFICES ASSUME Kept(q, d, id), Kind(Obj(p, id)) = "value", ~Filters(p, id) PROVE FALSE
      BY <1>1, <1>3, <1>4
    <3>1. IsFiltered(p, id)
      BY DEF IsFiltered, Filtered, Obj
    <3>2. ~p.filtering /\ p.owner # id
      BY <1>2, <3>1 DEF Filters
    <3>3. Kept(p, c, id)
      BY <1>1, <1>3 DEF Changed
    <3> QED BY <1>0, <3>2, <3>3, TopOwns DEF id
  <2> QED BY <1>0, <1>1, <2>1, ValuesBareStays
<1> QED BY <1>6, <1>7, <1>8, <1>9, <1>10 DEF Sound, Good

-----------------------------------------------------------------------------
(* What the search has shown, if it started at the depth 0 *)

Thorough(p, c) == Followed(p, c) /\ ShownOnce(p, c)

\* There is a first call, and a second unless the first is the last.
LEMMA FirstCalls ==
  ASSUME NEW c \in Seq(CallType), c # <<>>
  PROVE  1 \in DOMAIN c /\ (1 # Len(c) => 1 + 1 \in DOMAIN c)
<1>1. DOMAIN c = 1..Len(c) /\ Len(c) \in Nat
  OBVIOUS
<1>2. Len(c) # 0
  OBVIOUS
<1> QED BY <1>1, <1>2

\* A new entry keeps the search thorough.
LEMMA GrowThorough ==
  ASSUME NEW p, NEW q, NEW c, NEW o, Fits(p, c), Grown(p, q, o)
  PROVE  /\ FromZero(q, c) <=> FromZero(p, c)
         /\ \A layer, x : Leads(p, c, layer, x) => Leads(q, c, layer, x)
         /\ Thorough(p, c) => Thorough(q, c)
<1> DEFINE new == Len(p.objs)
<1>0. PoolTyped(p) /\ CallsFit(p, c)
  BY DEF Fits, Indexed
<1>1. /\ IdsOf(q) = IdsOf(p) \cup {new}
      /\ \A id \in IdsOf(p) : Obj(q, id) = Obj(p, id) /\ Entry(q, id) = Entry(p, id)
      /\ Entry(q, new) = NewEntry(o)
      /\ (q.filtering <=> p.filtering) /\ q.owner = p.owner /\ q.depth = p.depth
  BY <1>0, GrownIds DEF Grown
<1> HIDE DEF new
<1>2. \A id : Kept(q, c, id) <=> Kept(p, c, id)
  BY <1>1 DEF Kept
<1>3. NewEntry(o).layer = -1
  BY DEF NewEntry
<1>4. FromZero(q, c) <=> FromZero(p, c)
  <2>1. CASE c = <<>>
    BY <1>1, <2>1 DEF FromZero
  <2>2. CASE c # <<>>
    <3>1. 1 \in DOMAIN c /\ (1 # Len(c) => 1 + 1 \in DOMAIN c)
      BY <1>0, <2>2, FirstCalls DEF CallsFit
    <3>2. LevelsOf(q, c[1]) = LevelsOf(p, c[1])
      BY <1>0, <1>1, <3>1, CallsTyped DEF LevelsOf
    <3>3. 1 # Len(c) => LayerOf(q, c[1 + 1]) = LayerOf(p, c[1 + 1])
      BY <1>0, <1>1, <3>1, CallsTyped DEF LayerOf
    <3>4. Inner(q, c, 1) = Inner(p, c, 1)
      BY <1>1, <3>3 DEF Inner
    <3> QED BY <2>2, <3>2, <3>4 DEF FromZero
  <2> QED BY <2>1, <2>2
<1>5. ASSUME NEW layer, NEW x, Leads(p, c, layer, x) PROVE Leads(q, c, layer, x)
  <2>1. PICK j \in IdsOf(p) : /\ Kept(p, c, j) /\ Obj(p, j) = x
                              /\ Entry(p, j).expanded \/ Entry(p, j).layer \in 0..layer
    BY <1>5 DEF Leads
  <2> QED BY <1>1, <1>2, <2>1 DEF Leads
<1>6. ASSUME Followed(p, c) PROVE Followed(q, c)
  <2> SUFFICES ASSUME NEW id \in IdsOf(q) PROVE FollowedFrom(q, c, id)
    BY DEF Followed
  <2>1. CASE id = new
    BY <1>1, <1>3, <2>1 DEF FollowedFrom
  <2>2. CASE id \in IdsOf(p)
    <3>1. FollowedFrom(p, c, id) /\ Entry(q, id) = Entry(p, id)
      BY <1>1, <1>6, <2>2 DEF Followed
    <3> QED BY <1>2, <1>5, <3>1 DEF FollowedFrom
  <2> QED BY <1>1, <2>1, <2>2
<1>7. ASSUME ShownOnce(p, c) PROVE ShownOnce(q, c)
  <2> SUFFICES ASSUME NEW id \in IdsOf(q), Kept(q, c, id), ~OnStack(c, id), Entry(q, id).layer >= 0,
                      Shows(Entry(q, id))
               PROVE  Entry(q, id).once
    BY DEF ShownOnce
  <2>1. id # new
    BY <1>1, <1>3
  <2> QED BY <1>1, <1>2, <1>7, <2>1 DEF ShownOnce
<1> QED BY <1>4, <1>5, <1>6, <1>7 DEF Thorough

\* If the search started at the depth 0, the members of the innermost call are at the
\* depth.
LEMMA TopDepth ==
  ASSUME NEW p, NEW c, Fits(p, c), c # <<>>, FromZero(p, c), NEW id, id = c[Len(c)].id
  PROVE  Entry(p, id).layer + Levels(Obj(p, id)) = p.depth
<1>1. Len(c) \in DOMAIN c /\ Depths(p, c)
  BY TopIs DEF Fits
<1>2. Inner(p, c, Len(c)) = p.depth
  BY DEF Inner
<1>3. LayerOf(p, c[Len(c)]) + LevelsOf(p, c[Len(c)]) = p.depth
  <2>1. CASE Len(c) = 1
    <3>1. LayerOf(p, c[1]) = 0 /\ LevelsOf(p, c[1]) = p.depth
      BY <1>1, <1>2, <2>1 DEF Depths, FromZero
    <3>2. LevelsOf(p, c[1]) \in 0..1
      BY <1>1, <2>1, StackLayers
    <3> QED BY <2>1, <3>1, <3>2
  <2>2. CASE Len(c) # 1
    BY <1>1, <1>2, <2>2 DEF Depths
  <2> QED BY <2>1, <2>2
<1> QED BY <1>3 DEF LayerOf, LevelsOf

\* d are the calls c, the innermost of which may have come to its member, and perhaps
\* one more.
Continues(c, d) ==
  \A k \in DOMAIN c : /\ k \in DOMAIN d /\ d[k].id = c[k].id /\ d[k].next = c[k].next
                      /\ k # Len(c) => d[k].shown = c[k].shown

\* The search follows what it comes to, if the member has an entry at its depth.
LEMMA MeetFollowed ==
  ASSUME HeapFits, NEW p, NEW c, Fits(p, c), NEW S, PartsOwned(S), Sound(p, c, S), FromZero(p, c),
         Followed(p, c), NEW q, NEW d, NEW id, Changed(p, c, q, d, id), Continues(c, d),
         c # <<>> => \/ MemberOf(p, c) = NoObject
                     \/ \E x \in IdsOf(q) : /\ Obj(q, x) = MemberOf(p, c)
                                            /\ Entry(q, x).expanded \/ Entry(q, x).layer \in 0..p.depth,
         \A j \in IdsOf(q) : Entry(q, j) = Entry(p, j) \/ FollowedFrom(q, d, j)
  PROVE  Followed(q, d)
<1> DEFINE t == c[Len(c)].id
           next == c[Len(c)].next
<1>0. PoolTyped(p) /\ Near(p, c, S) /\ Inside(p, c)
  BY DEF Fits, Indexed, Sound, Good
<1>1. SUFFICES ASSUME NEW j \in IdsOf(q), Entry(q, j) = Entry(p, j), NEW i \in DOMAIN FieldOf(q, j),
                      Kept(q, d, j), Entry(q, j).layer >= 0, Shows(Entry(q, j)), Met(d, j, i)
               PROVE  \/ Met(c, j, i) \/ FieldOf(q, j)[i] = NoObject
                      \/ Leads(q, d, Entry(q, j).layer + Levels(Obj(q, j)), FieldOf(q, j)[i])
  BY <1>0, FollowedStays
<1> SUFFICES ASSUME ~Met(c, j, i)
             PROVE  \/ FieldOf(q, j)[i] = NoObject
                    \/ Leads(q, d, Entry(q, j).layer + Levels(Obj(q, j)), FieldOf(q, j)[i])
  OBVIOUS
<1>2. c # <<>> /\ j = t /\ i = next
  <2>1. PICK k \in DOMAIN c : c[k].id = j /\ ~(i < c[k].next \/ (i = c[k].next /\ c[k].shown))
    BY DEF Met
  <2>2. k \in DOMAIN d /\ d[k].id = j /\ d[k].next = c[k].next /\ (k # Len(c) => d[k].shown = c[k].shown)
    BY <2>1 DEF Continues
  <2>3. i < c[k].next \/ (i = c[k].next /\ d[k].shown)
    BY <1>1, <2>2 DEF Met
  <2>4. k = Len(c) /\ i = c[k].next
    BY <2>1, <2>2, <2>3
  <2> QED BY <2>1, <2>4
<1>3. j \in IdsOf(p) /\ Obj(q, j) = Obj(p, j) /\ Kept(p, c, j) /\ FieldOf(q, j)[i] = MemberOf(p, c)
  <2>1. j \in IdsOf(p) /\ Obj(q, j) = Obj(p, j) /\ Kept(p, c, j)
    BY <1>1 DEF Changed
  <2> QED BY <1>2, <2>1 DEF FieldOf, MemberOf
<1>4. p.filtering
  <2> SUFFICES ASSUME ~p.filtering PROVE FALSE
    OBVIOUS
  <2>1. IsFiltered(p, j)
    BY <1>0, <1>2, <1>3, TopOwns
  <2> QED BY <1>1, <2>1 DEF IsFiltered, Filtered, Shows
<1>5. Entry(p, j).layer + Levels(Obj(p, j)) = p.depth
  BY <1>2, TopDepth
<1> HIDE DEF t, next
<1>6. ASSUME MemberOf(p, c) # NoObject PROVE Leads(q, d, p.depth, MemberOf(p, c))
  <2>1. PICK x \in IdsOf(q) : /\ Obj(q, x) = MemberOf(p, c)
                              /\ Entry(q, x).expanded \/ Entry(q, x).layer \in 0..p.depth
    BY <1>2, <1>6
  <2>2. Kept(q, d, x)
    BY <1>4 DEF Changed, Kept
  <2> QED BY <2>1, <2>2 DEF Leads
<1> QED BY <1>1, <1>3, <1>5, <1>6

\* Expanding an object keeps the search thorough.
LEMMA EnterThorough ==
  ASSUME HeapFits, NEW p, NEW c, Fits(p, c), NEW id, NEW layer, Expands(p, c, id, layer),
         NEW q, NEW d, Entered(p, c, q, d, id, layer)
  PROVE  /\ FromZero(q, d) <=> FromZero(p, c)
         /\ ShownOnce(p, c) => ShownOnce(q, d)
         /\ FollowedFrom(q, d, id)
         /\ \A j \in IdsOf(q) : j # id => Entry(q, j) = Entry(p, j)
         /\ Entry(q, id).layer \in 0..layer
         /\ \A k \in DOMAIN c : k \in DOMAIN d /\ d[k] = c[k]
<1> DEFINE n == Len(c) + 1
           e == Layered(p, id, layer)
<1>0. Indexed(p) /\ id \in IdsOf(p) /\ CallsFit(p, c) /\ PoolTyped(p) /\ c \in Seq(CallType)
  BY DEF Fits, Expands, Indexed, CallsFit
<1>1. Changed(p, c, q, d, id) /\ Fits(q, d)
  BY EnterFits
<1>2. /\ Rewritten(p, q, Len(p.objs), id, e)
      /\ q.depth = p.depth + Levels(Obj(p, id))
      /\ Len(d) = n /\ Len(c) \in Nat
      /\ DOMAIN d = DOMAIN c \cup {n} /\ n \notin DOMAIN c
      /\ \A k \in DOMAIN c : d[k] = c[k]
      /\ d[n] = NewCall(p, id, Obj(p, id))
      /\ NewCall(p, id, Obj(p, id)).id = id /\ NewCall(p, id, Obj(p, id)).next = 1 /\ ~NewCall(p, id, Obj(p, id)).shown
  <2>1. Pushed(p, c, q, d, id, layer)
    BY EnteredIs
  <2> QED BY <2>1 DEF Pushed
<1>3. /\ e.layer = layer /\ layer \in Nat /\ ~OnStack(c, id) /\ p.depth \in Nat
      /\ Levels(Obj(p, id)) \in 0..1
  BY ExpandsIs
<1> HIDE DEF e
<1>4. /\ IdsOf(q) = IdsOf(p) /\ Entry(q, id) = e /\ \A j \in IdsOf(p) : Obj(q, j) = Obj(p, j)
      /\ \A j \in IdsOf(q) : j # id => Entry(q, j) = Entry(p, j)
  BY <1>0, <1>2, RewrittenIs
<1>5. d[n].id = id /\ d[n].next = 1 /\ ~d[n].shown /\ n \in DOMAIN d
  BY <1>2
<1>6. FollowedFrom(q, d, id)
  <2>1. \A i \in DOMAIN FieldOf(q, id) : i >= 1 /\ i \in Nat
    <3>1. Obj(q, id) \in Objects
      BY <1>0, <1>1, <1>4, EntryTyped DEF Fits, Indexed
    <3>2. FieldOf(q, id) \in Seq(Objects \cup {NoObject})
      BY <3>1 DEF FieldOf, HeapFits, HeapTyped
    <3> QED BY <3>2
  <2>2. \A i \in DOMAIN FieldOf(q, id) : ~Met(d, id, i)
    BY <1>5, <2>1 DEF Met
  <2> QED BY <2>2 DEF FollowedFrom, FieldOf, Obj
<1>7. ASSUME ShownOnce(p, c) PROVE ShownOnce(q, d)
  <2>1. OnStack(d, id) /\ \A j : OnStack(c, j) => OnStack(d, j)
    BY <1>2, <1>5 DEF OnStack
  <2> QED BY <1>1, <1>7, <2>1, ShownOnceStays
<1>8. FromZero(q, d) <=> FromZero(p, c)
  <2>1. d # <<>> /\ DOMAIN c = 1..Len(c)
    BY <1>0, <1>5
  <2>2. CASE c = <<>>
    <3>1. n = 1 /\ Inner(q, d, 1) = q.depth /\ LevelsOf(q, d[1]) = Levels(Obj(p, id))
      BY <1>0, <1>2, <1>4, <1>5, <2>2 DEF Inner, LevelsOf
    <3> QED BY <1>2, <1>3, <2>1, <2>2, <3>1 DEF FromZero
  <2>3. CASE c # <<>>
    <3>1. 1 \in DOMAIN c /\ n # 1 /\ layer = p.depth
      BY <1>0, <1>2, <2>1, <2>3 DEF Expands
    <3>2. \A k \in DOMAIN c : c[k].id \in IdsOf(p) /\ c[k].id # id
      BY <1>0, <1>3, CallsTyped DEF OnStack
    <3>3. LevelsOf(q, d[1]) = LevelsOf(p, c[1])
      BY <1>2, <1>4, <3>1, <3>2 DEF LevelsOf
    <3>4. Inner(q, d, 1) = Inner(p, c, 1)
      <4>1. CASE Len(c) = 1
        <5>1. n = 1 + 1 /\ LayerOf(q, d[n]) = layer
          BY <1>2, <1>3, <1>4, <1>5, <4>1 DEF LayerOf
        <5> HIDE DEF n
        <5> QED BY <1>2, <3>1, <4>1, <5>1 DEF Inner
      <4>2. CASE Len(c) # 1
        <5>1. 1 + 1 \in DOMAIN c
          BY <1>2, <2>1, <3>1, <4>2
        <5>2. LayerOf(q, d[1 + 1]) = LayerOf(p, c[1 + 1])
          BY <1>2, <1>4, <3>2, <5>1 DEF LayerOf
        <5> QED BY <1>2, <3>1, <4>2, <5>2 DEF Inner
      <4> QED BY <4>1, <4>2
    <3> QED BY <2>1, <2>3, <3>3, <3>4 DEF FromZero
  <2> QED BY <2>2, <2>3
<1>9. Entry(q, id).layer \in 0..layer
  BY <1>3, <1>4
<1> QED BY <1>2, <1>4, <1>6, <1>7, <1>8, <1>9

\* So does leaving it at once, which is at the nest depth.
LEMMA SkipThorough ==
  ASSUME HeapFits, NEW p, NEW c, Fits(p, c), NEW id, NEW layer, Expands(p, c, id, layer),
         NEW q, Skips(p, q, id, layer)
  PROVE  /\ FromZero(q, c) <=> FromZero(p, c)
         /\ FromZero(p, c) /\ ShownOnce(p, c) => ShownOnce(q, c)
         /\ FromZero(p, c) => FollowedFrom(q, c, id)
         /\ \A j \in IdsOf(q) : j # id => Entry(q, j) = Entry(p, j)
         /\ Entry(q, id).layer \in 0..layer
<1> DEFINE e == SkippedEntry(p, id, layer)
<1>0. Indexed(p) /\ id \in IdsOf(p) /\ CallsFit(p, c) /\ c \in Seq(CallType)
  BY DEF Fits, Expands, CallsFit
<1>1. Changed(p, c, q, c, id) /\ Fits(q, c)
  BY SkipFits
<1>2. /\ Rewritten(p, q, Len(p.objs), id, e) /\ q.depth = p.depth /\ p.depth = setting.nest
      /\ Kind(Obj(p, id)) \notin Arrays
  <2>1. Skipped(p, q, id, layer)
    BY SkippedIs
  <2> QED BY <2>1 DEF Skipped
<1>3. e.layer = layer /\ e.obj = Obj(p, id)
  BY <1>2, SkippedEntryIs
<1>a. layer \in Nat /\ ~OnStack(c, id) /\ layer <= setting.nest /\ setting.nest \in Nat
  BY ExpandsIs DEF HeapFits, HeapTyped
<1> HIDE DEF e
<1>4. /\ IdsOf(q) = IdsOf(p) /\ Entry(q, id) = e /\ \A j \in IdsOf(p) : Obj(q, j) = Obj(p, j)
      /\ \A j \in IdsOf(q) : j # id => Entry(q, j) = Entry(p, j)
  BY <1>0, <1>2, RewrittenIs
<1>5. FromZero(p, c) => ~Shows(e)
  <2>1. FromZero(p, c) => layer = setting.nest
    BY <1>2, <1>a DEF Expands, FromZero
  <2> QED BY <1>2, <1>3, <1>a, <2>1 DEF Shows, Arrays
<1>6. FromZero(p, c) => FollowedFrom(q, c, id)
  BY <1>4, <1>5 DEF FollowedFrom
<1>7. FromZero(p, c) /\ ShownOnce(p, c) => ShownOnce(q, c)
  BY <1>1, <1>4, <1>5, ShownOnceStays
<1>8. FromZero(q, c) <=> FromZero(p, c)
  <2>1. CASE c = <<>>
    BY <1>2, <2>1 DEF FromZero
  <2>2. CASE c # <<>>
    <3>1. 1 \in DOMAIN c /\ (1 # Len(c) => 1 + 1 \in DOMAIN c)
      BY <1>0, <2>2, FirstCalls
    <3>2. \A k \in DOMAIN c : c[k].id \in IdsOf(p) /\ c[k].id # id
      BY <1>0, <1>a, CallsTyped DEF OnStack
    <3>3. LevelsOf(q, c[1]) = LevelsOf(p, c[1])
      BY <1>4, <3>1, <3>2 DEF LevelsOf
    <3>4. 1 # Len(c) => LayerOf(q, c[1 + 1]) = LayerOf(p, c[1 + 1])
      BY <1>4, <3>1, <3>2 DEF LayerOf
    <3>5. Inner(q, c, 1) = Inner(p, c, 1)
      BY <1>2, <3>4 DEF Inner
    <3> QED BY <2>2, <3>3, <3>5 DEF FromZero
  <2> QED BY <2>1, <2>2
<1>9. Entry(q, id).layer \in 0..layer
  BY <1>3, <1>4, <1>a
<1> QED BY <1>4, <1>6, <1>7, <1>8, <1>9

\* If the search has not come to further members of the entry that changed:
LEMMA FromStays ==
  ASSUME NEW p, NEW q, PoolTyped(p), NEW c, NEW d, NEW id, Changed(p, c, q, d, id), Followed(p, c),
         Entry(q, id).layer = Entry(p, id).layer,
         \A i \in DOMAIN FieldOf(p, id) : Met(d, id, i) => Met(c, id, i)
  PROVE  FollowedFrom(q, d, id)
<1>1. id \in IdsOf(p) /\ Obj(q, id) = Obj(p, id) /\ (Kept(q, d, id) <=> Kept(p, c, id))
  BY DEF Changed
<1>2. SUFFICES ASSUME Kept(q, d, id), Entry(q, id).layer >= 0, Shows(Entry(q, id)),
                      NEW i \in DOMAIN FieldOf(q, id), Met(d, id, i), FieldOf(q, id)[i] # NoObject
               PROVE  Leads(q, d, Entry(q, id).layer + Levels(Obj(q, id)), FieldOf(q, id)[i])
  BY DEF FollowedFrom, FieldOf, Obj
<1>3. FieldOf(q, id) = FieldOf(p, id)
  BY <1>1 DEF FieldOf
<1>4. Shows(Entry(p, id))
  BY <1>1, <1>2 DEF Shows, Obj
<1>5. Leads(p, c, Entry(p, id).layer + Levels(Obj(p, id)), FieldOf(p, id)[i])
  BY <1>1, <1>2, <1>3, <1>4 DEF Followed, FollowedFrom, FieldOf, Obj
<1>6. Entry(p, id).layer + Levels(Obj(p, id)) \in Int
  BY <1>1, EntryTyped DEF EntryType, Levels
<1>7. Leads(q, d, Entry(p, id).layer + Levels(Obj(p, id)), FieldOf(p, id)[i])
  BY <1>5, <1>6, LeadsStays
<1> QED BY <1>1, <1>3, <1>7

\* Coming to a member leaves what was shown once.
LEMMA MarkThorough ==
  ASSUME HeapFits, NEW p, NEW c, Fits(p, c), c # <<>>,
         \A id : OnStack(Marked(c), id) <=> OnStack(c, id),
         \A id : Kept(p, Marked(c), id) <=> Kept(p, c, id)
  PROVE  /\ FromZero(p, Marked(c)) <=> FromZero(p, c)
         /\ ShownOnce(p, c) => ShownOnce(p, Marked(c))
         /\ Continues(c, Marked(c))
<1> DEFINE d == Marked(c)
<1>0. c \in Seq(CallType)
  BY DEF Fits, CallsFit
<1>1. /\ Len(d) = Len(c) /\ DOMAIN d = DOMAIN c /\ d \in Seq(CallType)
      /\ \A k \in DOMAIN c : /\ d[k].id = c[k].id /\ d[k].next = c[k].next
                             /\ k # Len(c) => d[k].shown = c[k].shown
  BY <1>0, MarkedIs
<1> HIDE DEF d
<1>2. d # <<>>
  <2>1. Len(c) # 0
    BY <1>0
  <2> QED BY <1>1, <2>1
<1>3. Continues(c, d)
  BY <1>1 DEF Continues
<1>4. ShownOnce(p, c) => ShownOnce(p, d)
  BY DEF ShownOnce, d
<1>5. 1 \in DOMAIN c /\ (1 # Len(c) => 1 + 1 \in DOMAIN c)
  BY <1>0, FirstCalls
<1>6. LevelsOf(p, d[1]) = LevelsOf(p, c[1])
  BY <1>1, <1>5 DEF LevelsOf
<1>7. 1 # Len(c) => LayerOf(p, d[1 + 1]) = LayerOf(p, c[1 + 1])
  BY <1>1, <1>5 DEF LayerOf
<1>8. Inner(p, d, 1) = Inner(p, c, 1)
  BY <1>1, <1>7 DEF Inner
<1>9. FromZero(p, d) <=> FromZero(p, c)
  BY <1>2, <1>6, <1>8 DEF FromZero
<1> QED BY <1>3, <1>4, <1>9 DEF d

\* Noting a reference keeps the search thorough.
LEMMA NoteThorough ==
  ASSUME HeapFits, NEW p, NEW c, Fits(p, c), NEW q, NEW d, Notes(p, c, q, d)
  PROVE  /\ FromZero(q, d) <=> FromZero(p, c)
         /\ Thorough(p, c) => Thorough(q, d)
<1> DEFINE id == c[Len(c)].id
<1>0. PoolTyped(p) /\ Indexed(p) /\ c \in Seq(CallType) /\ c # <<>> /\ c[Len(c)].shown /\ CallsFit(p, c)
  BY DEF Fits, Indexed, CallsFit, Notes
<1>1. /\ Fits(q, d) /\ Changed(p, c, q, d, id)
      /\ IdsOf(q) = IdsOf(p) /\ Entry(q, id) = NotedEntry(p, c)
  BY NoteFits
<1>2. /\ d \in Seq(CallType) /\ Len(d) = Len(c) /\ DOMAIN d = DOMAIN c
      /\ Len(c) \in DOMAIN c /\ d[Len(c)].next = c[Len(c)].next + 1 /\ ~d[Len(c)].shown
      /\ \A k \in DOMAIN c : d[k].id = c[k].id /\ (k # Len(c) => d[k] = c[k])
  BY <1>0, MovedIs DEF Notes
<1>3. /\ id \in IdsOf(p) /\ CallFits(p, c[Len(c)]) /\ c[Len(c)].next \in Nat
      /\ \A k \in DOMAIN c : k # Len(c) => c[k].id # id
  BY <1>0, TopIs DEF CallType
<1>4. q.depth = p.depth
  <2>1. CASE c[Len(c)].once
    BY <2>1 DEF Notes
  <2>2. CASE ~c[Len(c)].once
    <3>1. RefTo(p, MemberOf(p, c)) \in Int
      <4>1. MemberOf(p, c) \in Present(p) \cup {NoObject}
        BY NoteFits
      <4>2. ASSUME MemberOf(p, c) # NoObject PROVE getObjectId(p, MemberOf(p, c)) \in Int
        BY <1>0, <4>1, <4>2, IdFound, EntryTyped DEF Present
      <4> QED BY <4>2 DEF RefTo
    <3>2. q = WithRef(p, id, RefTo(p, MemberOf(p, c)))
      BY <2>2 DEF Notes
    <3> HIDE DEF id
    <3> QED BY <1>0, <1>3, <3>1, <3>2, NoteIs DEF HeapFits
  <2> QED BY <2>1, <2>2
<1>5. Entry(q, id).layer = Entry(p, id).layer
  BY <1>1, <1>3, <1>0, EntryTyped DEF NotedEntry, Noted, EntryType
<1> HIDE DEF id
<1>6. /\ \A j \in IdsOf(q) : Entry(q, j).layer = Entry(p, j).layer
      /\ \A j \in IdsOf(q) : Obj(q, j) = Obj(p, j)
  BY <1>1, <1>5 DEF Changed
<1>7. FromZero(q, d) <=> FromZero(p, c)
  <2>1. 1 \in DOMAIN c /\ (1 # Len(c) => 1 + 1 \in DOMAIN c)
    BY <1>0, FirstCalls
  <2>2. \A k \in DOMAIN c : c[k].id \in IdsOf(p)
    BY <1>0, CallsTyped
  <2>3. d # <<>>
    BY <1>2
  <2>4. LevelsOf(q, d[1]) = LevelsOf(p, c[1])
    BY <1>1, <1>2, <1>6, <2>1, <2>2 DEF LevelsOf
  <2>5. 1 # Len(c) => LayerOf(q, d[1 + 1]) = LayerOf(p, c[1 + 1])
    BY <1>1, <1>2, <1>6, <2>1, <2>2 DEF LayerOf
  <2>6. Inner(q, d, 1) = Inner(p, c, 1)
    BY <1>2, <1>4, <2>5 DEF Inner
  <2> QED BY <1>0, <2>3, <2>4, <2>6 DEF FromZero
<1>8. ASSUME Followed(p, c) PROVE Followed(q, d)
  <2>1. \A i \in DOMAIN FieldOf(p, id) : Met(d, id, i) => Met(c, id, i)
    <3>1. SUFFICES ASSUME NEW i \in DOMAIN FieldOf(p, id), Met(d, id, i),
                          NEW k \in DOMAIN c, c[k].id = id
                   PROVE  i < c[k].next \/ (i = c[k].next /\ c[k].shown)
      BY DEF Met
    <3>2. k = Len(c)
      BY <1>3, <3>1
    <3>3. i < c[k].next + 1
      BY <1>2, <3>1, <3>2 DEF Met
    <3>4. i \in Nat
      <4>1. Obj(p, id) \in Objects
        BY <1>0, <1>3, EntryTyped
      <4>2. FieldOf(p, id) \in Seq(Objects \cup {NoObject})
        BY <4>1 DEF FieldOf, HeapFits, HeapTyped
      <4> QED BY <4>2
    <3> QED BY <1>0, <1>3, <3>2, <3>3, <3>4
  <2>2. FollowedFrom(q, d, id)
    BY <1>0, <1>1, <1>5, <1>8, <2>1, FromStays
  <2>3. ASSUME NEW j, j # id, NEW i, Met(d, j, i) PROVE Met(c, j, i)
    BY <1>2, <2>3 DEF Met, id
  <2>4. \A j \in IdsOf(q) : j # id => Entry(q, j) = Entry(p, j)
    BY <1>1 DEF Changed
  <2> QED BY <1>0, <1>1, <1>8, <2>2, <2>3, <2>4, FollowedStays
<1>9. ASSUME ShownOnce(p, c) PROVE ShownOnce(q, d)
  <2>1. OnStack(d, id) /\ \A j : OnStack(c, j) => OnStack(d, j)
    BY <1>2 DEF OnStack, id
  <2> QED BY <1>1, <1>9, <2>1, ShownOnceStays
<1> QED BY <1>7, <1>8, <1>9 DEF Thorough

\* A return does, as the call has come to all members.
LEMMA ReturnThorough ==
  ASSUME HeapFits, NEW p, NEW c, Fits(p, c), NEW q, NEW d, Returns(p, c, q, d)
  PROVE  /\ FromZero(q, d) <=> FromZero(p, c)
         /\ Thorough(p, c) => Thorough(q, d)
<1> DEFINE id == c[Len(c)].id
<1>0. /\ PoolTyped(p) /\ Indexed(p) /\ c \in Seq(CallType) /\ c # <<>>
      /\ d = SubSeq(c, 1, Len(c) - 1) /\ c[Len(c)].next > Len(FieldOf(p, id))
  BY DEF Fits, Indexed, CallsFit, Returns
<1>1. /\ Fits(q, d) /\ Changed(p, c, q, d, id) /\ ~OnStack(d, id)
      /\ \A j : OnStack(c, j) /\ j # id => OnStack(d, j)
      /\ Entry(q, id) = ReturnedEntry(p, id)
  BY ReturnFits
<1>2. /\ d \in Seq(CallType) /\ DOMAIN d = 1..Len(d) /\ DOMAIN c = 1..Len(c)
      /\ Len(c) \in Nat /\ Len(d) \in Nat /\ Len(d) = Len(c) - 1 /\ Len(c) \in DOMAIN c
      /\ \A k \in DOMAIN d : k \in DOMAIN c /\ d[k] = c[k]
  BY <1>0, ButLastIs
<1>3. /\ id \in IdsOf(p) /\ c[Len(c)].next \in Nat
      /\ \A k \in DOMAIN c : k # Len(c) => c[k].id # id /\ k < Len(c)
  BY <1>0, TopIs DEF CallType
<1>4. q.depth = p.depth - Levels(Obj(p, id))
  BY ReturnedIs DEF Returned
<1>5. LET e == ReturnedEntry(p, id) IN
      /\ e.obj = Obj(p, id) /\ e.layer = Entry(p, id).layer
      /\ ~Filters(p, id) => e.once
  BY <1>0, <1>3, ReturnedEntryIs
<1>6. /\ \A j \in IdsOf(q) : Entry(q, j).layer = Entry(p, j).layer
      /\ \A j \in IdsOf(q) : Obj(q, j) = Obj(p, j)
      /\ \A j \in IdsOf(q) : j # id => Entry(q, j) = Entry(p, j)
  BY <1>1, <1>5 DEF Changed
<1>7. FromZero(q, d) <=> FromZero(p, c)
  <2>1. 1 \in DOMAIN c /\ (1 # Len(c) => 1 + 1 \in DOMAIN c)
    BY <1>0, FirstCalls
  <2>2. \A k \in DOMAIN d : d[k].id \in IdsOf(q)
    BY <1>1, CallsTyped DEF Fits
  <2>3. \A k \in DOMAIN c : /\ LayerOf(p, c[k]) \in Nat /\ p.depth \in Nat /\ LevelsOf(p, c[k]) \in 0..1
    BY StackLayers
  <2>4. LevelsOf(p, c[Len(c)]) = Levels(Obj(p, id))
    BY DEF LevelsOf
  <2>5. CASE Len(c) = 1
    <3>1. d = <<>> /\ Inner(p, c, 1) = p.depth
      BY <1>2, <2>5 DEF Inner
    <3> QED BY <1>0, <1>2, <1>4, <2>3, <2>4, <2>5, <3>1 DEF FromZero
  <2>6. CASE Len(c) # 1
    <3>1. 1 \in DOMAIN d /\ d # <<>> /\ d[1] = c[1]
      BY <1>2, <2>1, <2>6
    <3>2. LevelsOf(q, d[1]) = LevelsOf(p, c[1])
      BY <1>6, <2>2, <3>1 DEF LevelsOf
    <3>3. Inner(q, d, 1) = Inner(p, c, 1)
      <4>1. CASE Len(c) = 1 + 1
        <5>1. Depths(p, c) /\ Len(c) \in DOMAIN c
          BY <1>2 DEF Fits
        <5>2. Inner(p, c, Len(c)) = p.depth
          BY DEF Inner
        <5>3. LayerOf(p, c[Len(c)]) + LevelsOf(p, c[Len(c)]) = p.depth
          BY <2>6, <5>1, <5>2 DEF Depths
        <5>4. Inner(q, d, 1) = q.depth /\ Inner(p, c, 1) = LayerOf(p, c[Len(c)])
          BY <1>2, <4>1 DEF Inner
        <5> QED BY <1>2, <1>4, <2>3, <2>4, <5>3, <5>4
      <4>2. CASE Len(c) # 1 + 1
        <5>1. 1 + 1 \in DOMAIN d /\ d[1 + 1] = c[1 + 1] /\ 1 # Len(d)
          BY <1>2, <2>1, <2>6, <4>2
        <5>2. LayerOf(q, d[1 + 1]) = LayerOf(p, c[1 + 1])
          BY <1>6, <2>2, <5>1 DEF LayerOf
        <5> QED BY <2>6, <5>1, <5>2 DEF Inner
      <4> QED BY <4>1, <4>2
    <3> QED BY <1>0, <3>1, <3>2, <3>3 DEF FromZero
  <2> QED BY <2>5, <2>6
<1>8. ASSUME Followed(p, c) PROVE Followed(q, d)
  <2>1. \A i \in DOMAIN FieldOf(p, id) : Met(c, id, i)
    <3>1. Obj(p, id) \in Objects
      BY <1>0, <1>3, EntryTyped
    <3>2. FieldOf(p, id) \in Seq(Objects \cup {NoObject})
      BY <3>1 DEF FieldOf, HeapFits, HeapTyped
    <3>3. \A i \in DOMAIN FieldOf(p, id) : i < c[Len(c)].next
      BY <1>0, <1>3, <3>2
    <3> QED BY <1>3, <3>3 DEF Met
  <2>2. id \in IdsOf(q)
    BY <1>1 DEF Changed
  <2>3. FollowedFrom(q, d, id)
    BY <1>0, <1>1, <1>6, <1>8, <2>1, <2>2, FromStays
  <2> HIDE DEF id
  <2>4. ASSUME NEW j, j # id, NEW i, Met(d, j, i) PROVE Met(c, j, i)
    <3>1. SUFFICES ASSUME NEW k \in DOMAIN c, c[k].id = j
                   PROVE  i < c[k].next \/ (i = c[k].next /\ c[k].shown)
      BY DEF Met
    <3>2. k # Len(c)
      BY <2>4, <3>1 DEF id
    <3>3. k \in DOMAIN d /\ d[k] = c[k]
      BY <1>2, <3>2
    <3> QED BY <2>4, <3>1, <3>3 DEF Met
  <2> QED BY <1>0, <1>1, <1>6, <1>8, <2>3, <2>4, FollowedStays
<1>9. ASSUME ShownOnce(p, c) PROVE ShownOnce(q, d)
  <2>1. ASSUME Shows(Entry(q, id)) PROVE Entry(q, id).once
    <3>1. Kind(Obj(p, id)) \notin Filtered
      BY <1>1, <1>5, <2>1 DEF Shows, Filtered
    <3>2. ~Filters(p, id)
      BY <3>1 DEF Filters, IsFiltered, Obj
    <3> QED BY <1>1, <1>5, <3>2
  <2> HIDE DEF id
  <2> QED BY <1>1, <1>9, <2>1, ShownOnceStays
<1> QED BY <1>7, <1>8, <1>9 DEF Thorough

-----------------------------------------------------------------------------
(* Showing an object: its entry is added if need be, the innermost call notes that it *)
(* has come to it, and the object is expanded if need be.                             *)

Noticed(c) == IF c = <<>> THEN c ELSE Marked(c)

LayerFor(p, c) == IF c = <<>> THEN 0 ELSE p.depth

\* Nothing changed.
LEMMA ChangedNot ==
  ASSUME NEW p, NEW c, Fits(p, c), NEW id \in IdsOf(p), NEW d, \A j : Kept(p, d, j) <=> Kept(p, c, j)
  PROVE  Changed(p, c, p, d, id)
<1>1. Entry(p, id).layer \in Int
  BY EntryTyped DEF Fits, Indexed, EntryType
<1> QED BY <1>1 DEF Changed

\* The pool with an entry for o
Interned(p, c, q, o) ==
  /\ Fits(q, c) /\ q.depth = p.depth
  /\ getObjectId(q, o) \in IdsOf(q) /\ Obj(q, getObjectId(q, o)) = o
  /\ IdsOf(p) \subseteq IdsOf(q)
  /\ \A id \in IdsOf(p) : Obj(q, id) = Obj(p, id)
  /\ FromZero(q, c) <=> FromZero(p, c)
  /\ \A layer, x : Leads(p, c, layer, x) => Leads(q, c, layer, x)
  /\ Thorough(p, c) => Thorough(q, c)
  /\ \A S \in SUBSET Objects : Sound(p, c, S) /\ Aims(p, c, o, S) => Sound(q, c, S)

\* There is an entry for the object now, and all holds that held.
LEMMA InternIs ==
  ASSUME HeapFits, NEW p, NEW c, Fits(p, c), NEW o \in Objects
  PROVE  Interned(p, c, Intern(p, o), o)
<1>0. Indexed(p) /\ PoolTyped(p)
  BY DEF Fits, Indexed
<1>1. CASE o \in Present(p)
  <2>1. PICK id \in IdsOf(p) : Obj(p, id) = o
    BY <1>1 DEF Present
  <2>2. getObjectId(p, o) = id /\ id >= 0
    BY <1>0, <2>1, IdFound, EntryTyped
  <2>3. Intern(p, o) = p
    BY <1>0, <2>1, <2>2, EntryTyped DEF Intern
  <2> QED BY <2>1, <2>2, <2>3 DEF Interned
<1>2. CASE o \notin Present(p)
  <2> DEFINE q == addObject(p, o)
  <2>1. Intern(p, o) = q
    BY <1>0, <1>2, IdFound DEF Intern
  <2>2. Grown(p, q, o) /\ Indexed(q)
    BY <1>0, <1>2, IdFound, AddIs DEF HeapFits
  <2> HIDE DEF q
  <2>3. Fits(q, c)
    BY <2>2, GrowFits
  <2>4. /\ IdsOf(q) = IdsOf(p) \cup {Len(p.objs)}
        /\ \A id \in IdsOf(p) : Obj(q, id) = Obj(p, id)
        /\ Obj(q, Len(p.objs)) = o
    BY <1>0, <2>2, GrownIds
  <2>5. getObjectId(q, o) = Len(p.objs)
    BY <2>2, <2>4, IdFound
  <2>6. q.depth = p.depth
    BY <2>2 DEF Grown
  <2>7. /\ FromZero(q, c) <=> FromZero(p, c)
        /\ \A layer, x : Leads(p, c, layer, x) => Leads(q, c, layer, x)
        /\ Thorough(p, c) => Thorough(q, c)
    BY <2>2, GrowThorough
  <2>8. ASSUME NEW S \in SUBSET Objects, Sound(p, c, S), Aims(p, c, o, S) PROVE Sound(q, c, S)
    <3>1. p.filtering => o \in Around(S)[setting.nest]
      BY <2>8, AimIsNear DEF Sound, Good
    <3> QED BY <2>2, <2>8, <3>1, GrowSound
  <2> QED BY <2>1, <2>3, <2>4, <2>5, <2>6, <2>7, <2>8 DEF Interned
<1> QED BY <1>1, <1>2

\* What holds when the innermost call has come to its member, which has an entry.
Ready(p, c, d) ==
  /\ Fits(p, d)
  /\ \A id : Kept(p, d, id) <=> Kept(p, c, id)
  /\ FromZero(p, d) <=> FromZero(p, c)
  /\ ShownOnce(p, c) => ShownOnce(p, d)
  /\ Continues(c, d)
  /\ \A layer, x : Leads(p, d, layer, x) <=> Leads(p, c, layer, x)
  /\ \A S : Sound(p, c, S) => Sound(p, d, S)
  /\ \A o, S : Aims(p, d, o, S) <=> Aims(p, c, o, S)
  /\ LayerFor(p, d) = LayerFor(p, c) /\ (d = <<>> <=> c = <<>>) /\ DOMAIN d = DOMAIN c
  /\ c # <<>> => d[Len(d)].shown /\ MemberOf(p, d) = MemberOf(p, c)
  /\ \A k \in DOMAIN c : d[k].nPos = c[k].nPos

\* All holds that held when the innermost call has come to its member.
LEMMA ReadyIs ==
  ASSUME HeapFits, NEW p, NEW c, Fits(p, c),
         c # <<>> => /\ c[Len(c)].next \in DOMAIN FieldOf(p, c[Len(c)].id)
                     /\ MemberOf(p, c) \in Present(p) \cup {NoObject}
  PROVE  Ready(p, c, Noticed(c))
<1>1. CASE c = <<>>
  BY <1>1 DEF Ready, Noticed, Continues
<1>2. CASE c # <<>>
  <2> DEFINE d == Marked(c)
  <2>0. c \in Seq(CallType) /\ Len(c) \in DOMAIN c /\ c[Len(c)].id \in IdsOf(p) /\ PoolTyped(p)
    BY <1>2, TopIs DEF Fits, CallsFit, Indexed
  <2>1. /\ d \in Seq(CallType) /\ Len(d) = Len(c) /\ DOMAIN d = DOMAIN c /\ d[Len(c)].shown
        /\ \A k \in DOMAIN c : d[k].id = c[k].id /\ d[k].next = c[k].next /\ d[k].nPos = c[k].nPos
    BY <1>2, <2>0, MarkedIs
  <2>2. c[Len(c)].next <= Len(FieldOf(p, c[Len(c)].id))
    <3>1. FieldOf(p, c[Len(c)].id) \in Seq(Objects \cup {NoObject})
      BY <2>0, EntryTyped DEF FieldOf, HeapFits, HeapTyped
    <3> QED BY <1>2, <3>1
  <2>3. /\ Fits(p, d)
        /\ \A id : OnStack(d, id) <=> OnStack(c, id)
        /\ \A id : Kept(p, d, id) <=> Kept(p, c, id)
    BY <1>2, <2>2, MarkFits DEF MemberOf
  <2>4. /\ FromZero(p, d) <=> FromZero(p, c)
        /\ ShownOnce(p, c) => ShownOnce(p, d)
        /\ Continues(c, d)
    BY <1>2, <2>3, MarkThorough
  <2> HIDE DEF d
  <2>5. \A layer, x : Leads(p, d, layer, x) <=> Leads(p, c, layer, x)
    BY <2>3 DEF Leads
  <2>6. \A S : Sound(p, c, S) => Sound(p, d, S)
    BY <2>1, SameCallsSound
  <2>7. d # <<>>
    BY <2>0, <2>1
  <2>8. MemberOf(p, d) = MemberOf(p, c)
    BY <2>0, <2>1 DEF MemberOf
  <2>9. \A o, S : Aims(p, d, o, S) <=> Aims(p, c, o, S)
    BY <1>2, <2>0, <2>1, <2>7, <2>8 DEF Aims
  <2>10. LayerFor(p, d) = LayerFor(p, c)
    BY <1>2, <2>7 DEF LayerFor
  <2>11. Noticed(c) = d
    BY <1>2 DEF Noticed, d
  <2> QED BY <1>2, <2>1, <2>3, <2>4, <2>5, <2>6, <2>7, <2>8, <2>9, <2>10, <2>11 DEF Ready
<1> QED BY <1>1, <1>2

\* expandObject
Expanding(p, c, q, d, id, layer) ==
  \/ /\ q = p /\ d = c
     /\ p.thrown \/ Entry(p, id).expanded \/ Entry(p, id).layer \in 0..layer
  \/ Expands(p, c, id, layer) /\ Entered(p, c, q, d, id, layer)
  \/ Expands(p, c, id, layer) /\ Skips(p, q, id, layer) /\ d = c

\* expandObject does nothing, expands the object, or leaves it at once.
LEMMA ExpandingIs ==
  ASSUME HeapFits, NEW p, NEW c, Fits(p, c), NEW id \in IdsOf(p), NEW layer, layer = LayerFor(p, c),
         c # <<>> => c[Len(c)].shown /\ MemberOf(p, c) = Obj(p, id),
         expandObject(p, id, Obj(p, id), layer, c)
  PROVE  Expanding(p, c, pool', calls', id, layer)
<1>1. Entry(p, id).layer \in Int
  BY EntryTyped DEF Fits, Indexed, EntryType
<1>2. layer \in Int
  BY DEF LayerFor, Fits, Indexed, PoolTyped, PoolType
<1>3. CASE p.thrown \/ Entry(p, id).expanded \/ Known(Entry(p, id), layer)
  <2>1. pool' = p /\ calls' = c
    BY <1>3 DEF expandObject
  <2> QED BY <1>1, <1>2, <1>3, <2>1 DEF Expanding, Known
<1>4. CASE ~(p.thrown \/ Entry(p, id).expanded \/ Known(Entry(p, id), layer))
  <2>1. Expands(p, c, id, layer)
    BY <1>1, <1>2, <1>4 DEF Expands, Known, LayerFor
  <2>2. CASE WithinDepth(p, Obj(p, id))
    <3>1. /\ pool' = [EnterObject(p, id, layer) EXCEPT !.depth = @ + Levels(Obj(p, id))]
          /\ calls' = Append(c, NewCall(p, id, Obj(p, id)))
      BY <1>4, <2>2 DEF expandObject, HasItems, Obj
    <3>2. Entered(p, c, pool', calls', id, layer)
      BY <2>2, <3>1 DEF Entered, MemberOf
    <3> QED BY <2>1, <3>2 DEF Expanding
  <2>3. CASE ~WithinDepth(p, Obj(p, id))
    <3>1. /\ LET call == NewCall(p, id, Obj(p, id))
             IN pool' = LeaveObject(EnterObject(p, id, layer), id, call.obj, call.nPos,
                                    call.nObjNumberBak)
          /\ calls' = c
      BY <1>4, <2>3 DEF expandObject, NewCall, Obj
    <3>2. Skips(p, pool', id, layer)
      BY <2>3, <3>1 DEF Skips
    <3> QED BY <2>1, <3>1, <3>2 DEF Expanding
  <2> QED BY <2>2, <2>3
<1> QED BY <1>3, <1>4

\* It leaves entries and calls fitting.
LEMMA ExpandingFits ==
  ASSUME HeapFits, NEW p, NEW c, Fits(p, c), NEW id \in IdsOf(p), NEW layer, NEW q, NEW d,
         Expanding(p, c, q, d, id, layer)
  PROVE  Fits(q, d) /\ Changed(p, c, q, d, id) /\ IdsOf(q) = IdsOf(p)
<1>0. Indexed(p)
  BY DEF Fits
<1>1. CASE q = p /\ d = c
  BY <1>1, ChangedNot
<1>2. CASE Expands(p, c, id, layer) /\ Entered(p, c, q, d, id, layer)
  <2>1. Rewritten(p, q, Len(p.objs), id, Layered(p, id, layer))
    BY <1>2, EnteredIs DEF Pushed
  <2> QED BY <1>0, <1>2, <2>1, EnterFits, RewrittenIs
<1>3. CASE Expands(p, c, id, layer) /\ Skips(p, q, id, layer) /\ d = c
  <2>1. Rewritten(p, q, Len(p.objs), id, SkippedEntry(p, id, layer))
    BY <1>3, SkippedIs DEF Skipped
  <2> QED BY <1>0, <1>3, <2>1, SkipFits, RewrittenIs
<1> QED BY <1>1, <1>2, <1>3 DEF Expanding

\* It keeps the pool sound.
LEMMA ExpandingSound ==
  ASSUME HeapFits, NEW p, NEW c, Fits(p, c), NEW id \in IdsOf(p), NEW layer, NEW q, NEW d,
         Expanding(p, c, q, d, id, layer),
         NEW S \in SUBSET Objects, PartsOwned(S), Aims(p, c, Obj(p, id), S), Sound(p, c, S)
  PROVE  Sound(q, d, S)
BY EnterSound, SkipSound DEF Expanding

\* The calls c are those before the member was met.
LEMMA ExpandingThorough ==
  ASSUME HeapFits, NEW p, NEW b, NEW c, Fits(p, c), NEW id \in IdsOf(p), NEW layer, layer = LayerFor(p, c),
         NEW q, NEW d, Expanding(p, c, q, d, id, layer), Fits(p, b), Ready(p, b, c),
         ~q.thrown, b # <<>> => MemberOf(p, b) = Obj(p, id)
  PROVE  /\ FromZero(q, d) <=> FromZero(p, b)
         /\ Entry(q, id).expanded \/ Entry(q, id).layer \in 0..layer
         /\ \A S : PartsOwned(S) /\ Sound(p, b, S) /\ FromZero(p, b) /\ Thorough(p, b) => Thorough(q, d)
<1>1. /\ Fits(q, d) /\ Changed(p, c, q, d, id) /\ IdsOf(q) = IdsOf(p)
  BY ExpandingFits
<1>2. Changed(p, b, q, d, id) /\ Continues(b, c) /\ (FromZero(p, c) <=> FromZero(p, b))
  BY <1>1 DEF Ready, Changed
<1>3. /\ FromZero(q, d) <=> FromZero(p, c)
      /\ FromZero(p, c) /\ ShownOnce(p, c) => ShownOnce(q, d)
      /\ \A j \in IdsOf(q) : \/ Entry(q, j) = Entry(p, j)
                             \/ FromZero(p, c) => FollowedFrom(q, d, j)
      /\ Entry(q, id).expanded \/ Entry(q, id).layer \in 0..layer
      /\ \A k \in DOMAIN c : k \in DOMAIN d /\ d[k] = c[k]
  <2>1. CASE /\ q = p /\ d = c
             /\ p.thrown \/ Entry(p, id).expanded \/ Entry(p, id).layer \in 0..layer
    BY <2>1
  <2>2. CASE Expands(p, c, id, layer) /\ Entered(p, c, q, d, id, layer)
    <3>1. /\ FromZero(q, d) <=> FromZero(p, c)
          /\ ShownOnce(p, c) => ShownOnce(q, d)
          /\ FollowedFrom(q, d, id)
          /\ \A j \in IdsOf(q) : j # id => Entry(q, j) = Entry(p, j)
          /\ Entry(q, id).layer \in 0..layer
          /\ \A k \in DOMAIN c : k \in DOMAIN d /\ d[k] = c[k]
      BY <2>2, EnterThorough
    <3> QED BY <3>1
  <2>3. CASE Expands(p, c, id, layer) /\ Skips(p, q, id, layer) /\ d = c
    <3>1. /\ FromZero(q, c) <=> FromZero(p, c)
          /\ FromZero(p, c) /\ ShownOnce(p, c) => ShownOnce(q, c)
          /\ FromZero(p, c) => FollowedFrom(q, c, id)
          /\ \A j \in IdsOf(q) : j # id => Entry(q, j) = Entry(p, j)
          /\ Entry(q, id).layer \in 0..layer
      BY <2>3, SkipThorough
    <3> QED BY <2>3, <3>1
  <2> QED BY <2>1, <2>2, <2>3 DEF Expanding
<1>4. ASSUME NEW S, PartsOwned(S), Sound(p, b, S), FromZero(p, b), Thorough(p, b)
      PROVE  Thorough(q, d)
  <2>1. Continues(b, d)
    BY <1>2, <1>3 DEF Continues, Ready
  <2>2. b # <<>> => layer = p.depth
    BY DEF Ready, LayerFor
  <2>3. b # <<>> => MemberOf(p, b) # NoObject
    BY ObjectsAssumption, EntryTyped DEF Fits, Indexed
  <2>4. b # <<>> => /\ Obj(q, id) = MemberOf(p, b) /\ id \in IdsOf(q)
                    /\ \/ Entry(q, id).expanded /\ p.depth \in Int
                       \/ Entry(q, id).layer \in 0..p.depth
    BY <1>1, <1>3, <2>2 DEF Changed, Fits, Indexed, PoolTyped, PoolType
  <2>5. \A j \in IdsOf(q) : Entry(q, j) = Entry(p, j) \/ FollowedFrom(q, d, j)
    BY <1>2, <1>3, <1>4
  <2>6. Followed(q, d)
    BY <1>2, <1>4, <2>1, <2>4, <2>5, MeetFollowed DEF Thorough
  <2>7. ShownOnce(q, d)
    BY <1>2, <1>3, <1>4 DEF Thorough, Ready
  <2> QED BY <2>6, <2>7 DEF Thorough
<1> QED BY <1>2, <1>3, <1>4

\* It leaves the calls that there were.
LEMMA ExpandingCalls ==
  ASSUME HeapFits, NEW p, NEW c, Fits(p, c), NEW id \in IdsOf(p), NEW layer, NEW q, NEW d,
         Expanding(p, c, q, d, id, layer)
  PROVE  /\ \A k \in DOMAIN c : k \in DOMAIN d /\ d[k] = c[k]
         /\ c = <<>> /\ d # <<>> => d[1].id = id /\ d[1].nPos = Len(p.objs)
<1>1. CASE Expands(p, c, id, layer) /\ Entered(p, c, q, d, id, layer)
  <2>1. Pushed(p, c, q, d, id, layer)
    BY <1>1, EnteredIs
  <2>2. c = <<>> => Len(c) + 1 = 1
    OBVIOUS
  <2> QED BY <2>1, <2>2 DEF Pushed
<1> QED BY <1>1 DEF Expanding

\* What comes of showing o, which the innermost call of c has come to, if there is one
Shown(p, c, q, d, o) ==
  /\ Fits(q, d)
  /\ IdsOf(p) \subseteq IdsOf(q)
  /\ \A id \in IdsOf(p) : Obj(q, id) = Obj(p, id)
  /\ o \in Present(q)
  /\ ~q.thrown =>
       /\ FromZero(q, d) <=> FromZero(p, c)
       /\ \A layer \in Int : \A x : Leads(p, c, layer, x) => Leads(q, d, layer, x)
       /\ c = <<>> => Leads(q, d, 0, o)
  /\ \A S \in SUBSET Objects : PartsOwned(S) /\ Sound(p, c, S) /\ Aims(p, c, o, S) =>
       Sound(q, d, S) /\ (~q.thrown /\ FromZero(p, c) /\ Thorough(p, c) => Thorough(q, d))
  /\ \A k \in DOMAIN c : k \in DOMAIN d /\ d[k].id = c[k].id /\ d[k].nPos = c[k].nPos
  /\ c = <<>> /\ d # <<>> => Obj(q, d[1].id) = o /\ IdsOf(p) \subseteq 0..(d[1].nPos - 1)

\* Show does what Shown says.
LEMMA ShownIs ==
  ASSUME HeapFits, NEW p, NEW c, Fits(p, c), NEW o \in Objects,
         c # <<>> => c[Len(c)].next \in DOMAIN FieldOf(p, c[Len(c)].id) /\ MemberOf(p, c) = o,
         Show(p, o, LayerFor(p, c), Noticed(c))
  PROVE  Shown(p, c, pool', calls', o)
<1> DEFINE p1 == Intern(p, o)
           c1 == Noticed(c)
           id == getObjectId(p1, o)
           layer == LayerFor(p, c)
           q == pool'
           d == calls'
<1>1. Interned(p, c, p1, o)
  BY InternIs
<1>2. expandObject(p1, id, o, layer, c1)
  BY DEF Show
<1> HIDE DEF p1, q, d
<1>3. /\ Fits(p1, c) /\ id \in IdsOf(p1) /\ Obj(p1, id) = o /\ p1.depth = p.depth
      /\ IdsOf(p) \subseteq IdsOf(p1)
      /\ \A i \in IdsOf(p) : Obj(p1, i) = Obj(p, i)
  BY <1>1 DEF Interned
<1> HIDE DEF id
<1>4. c # <<>> => /\ c[Len(c)].next \in DOMAIN FieldOf(p1, c[Len(c)].id)
                  /\ MemberOf(p1, c) = MemberOf(p, c)
  <2> SUFFICES ASSUME c # <<>> PROVE /\ c[Len(c)].next \in DOMAIN FieldOf(p1, c[Len(c)].id)
                                     /\ MemberOf(p1, c) = MemberOf(p, c)
    OBVIOUS
  <2>1. c[Len(c)].id \in IdsOf(p)
    BY TopIs
  <2> QED BY <1>3, <2>1 DEF FieldOf, MemberOf
<1>5. Ready(p1, c, c1)
  <2>1. o \in Present(p1)
    BY <1>3 DEF Present
  <2> QED BY <1>3, <1>4, <2>1, ReadyIs
<1> HIDE DEF c1
<1>6. layer = LayerFor(p1, c1) /\ (c1 # <<>> => c1[Len(c1)].shown /\ MemberOf(p1, c1) = Obj(p1, id))
  <2>1. LayerFor(p1, c) = LayerFor(p, c)
    BY <1>3 DEF LayerFor
  <2> QED BY <1>3, <1>4, <1>5, <2>1 DEF Ready
<1> HIDE DEF layer
<1>7. Fits(p1, c1) /\ PoolTyped(p1)
  BY <1>3, <1>5 DEF Ready, Fits, Indexed
<1>8. Expanding(p1, c1, q, d, id, layer)
  BY <1>2, <1>3, <1>6, <1>7, ExpandingIs DEF q, d
<1>9. Fits(q, d) /\ Changed(p1, c1, q, d, id) /\ IdsOf(q) = IdsOf(p1)
  BY <1>3, <1>7, <1>8, ExpandingFits
<1>10. /\ IdsOf(p) \subseteq IdsOf(q)
       /\ \A i \in IdsOf(p) : Obj(q, i) = Obj(p, i)
       /\ o \in Present(q) /\ Obj(q, id) = o /\ id \in IdsOf(q)
  BY <1>3, <1>9 DEF Changed, Present
<1>11. ASSUME ~q.thrown
       PROVE  /\ FromZero(q, d) <=> FromZero(p, c)
              /\ \A l \in Int : \A x : Leads(p, c, l, x) => Leads(q, d, l, x)
              /\ c = <<>> => Leads(q, d, 0, o)
              /\ \A S : PartsOwned(S) /\ Sound(p1, c, S) /\ FromZero(p1, c) /\ Thorough(p1, c) =>
                         Thorough(q, d)
  <2>1. c # <<>> => MemberOf(p1, c) = Obj(p1, id)
    BY <1>3, <1>4
  <2>2. /\ FromZero(q, d) <=> FromZero(p1, c)
        /\ Entry(q, id).expanded \/ Entry(q, id).layer \in 0..layer
        /\ \A S : PartsOwned(S) /\ Sound(p1, c, S) /\ FromZero(p1, c) /\ Thorough(p1, c) => Thorough(q, d)
    BY <1>3, <1>5, <1>6, <1>7, <1>8, <1>11, <2>1, ExpandingThorough
  <2>3. FromZero(q, d) <=> FromZero(p, c)
    BY <1>1, <2>2 DEF Interned
  <2>4. ASSUME NEW l \in Int, NEW x, Leads(p, c, l, x) PROVE Leads(q, d, l, x)
    <3>1. Leads(p1, c1, l, x)
      BY <1>1, <1>5, <2>4 DEF Interned, Ready
    <3> QED BY <1>7, <1>9, <3>1, LeadsStays
  <2>5. ASSUME c = <<>> PROVE Leads(q, d, 0, o)
    <3>1. layer = 0
      BY <2>5 DEF layer, LayerFor
    <3>2. p1.filtering
      BY <1>3, <2>5 DEF Fits, FilterFits
    <3>3. Kept(q, d, id)
      BY <1>3, <1>9, <3>2 DEF Changed, Kept
    <3> QED BY <1>10, <2>2, <3>1, <3>3 DEF Leads
  <2> QED BY <2>2, <2>3, <2>4, <2>5
<1>12. ASSUME NEW S \in SUBSET Objects, PartsOwned(S), Sound(p, c, S), Aims(p, c, o, S)
       PROVE  Sound(q, d, S) /\ (~q.thrown /\ FromZero(p, c) /\ Thorough(p, c) => Thorough(q, d))
  <2>1. Sound(p1, c, S) /\ (FromZero(p1, c) <=> FromZero(p, c)) /\ (Thorough(p, c) => Thorough(p1, c))
    BY <1>1, <1>12 DEF Interned
  <2>2. Aims(p1, c, Obj(p1, id), S)
    BY <1>3, <1>4, <1>12 DEF Aims
  <2>3. Sound(p1, c1, S) /\ Aims(p1, c1, Obj(p1, id), S)
    BY <1>5, <2>1, <2>2 DEF Ready
  <2>4. Sound(q, d, S)
    BY <1>3, <1>7, <1>8, <1>12, <2>3, ExpandingSound
  <2> QED BY <1>11, <1>12, <2>1, <2>4
<1>13. \A k \in DOMAIN c : k \in DOMAIN d /\ d[k].id = c[k].id /\ d[k].nPos = c[k].nPos
  <2>1. \A k \in DOMAIN c1 : k \in DOMAIN d /\ d[k] = c1[k]
    BY <1>3, <1>7, <1>8, ExpandingCalls
  <2> QED BY <1>5, <2>1 DEF Ready, Continues
<1>14. c = <<>> /\ d # <<>> => Obj(q, d[1].id) = o /\ IdsOf(p) \subseteq 0..(d[1].nPos - 1)
  <2> SUFFICES ASSUME c = <<>>, d # <<>>
               PROVE  Obj(q, d[1].id) = o /\ IdsOf(p) \subseteq 0..(d[1].nPos - 1)
    OBVIOUS
  <2>1. c1 = <<>>
    BY <1>5 DEF Ready
  <2>2. d[1].id = id /\ d[1].nPos = Len(p1.objs)
    BY <1>3, <1>7, <1>8, <2>1, ExpandingCalls
  <2> QED BY <1>3, <1>10, <2>2 DEF IdsOf
<1>15. Shown(p, c, q, d, o)
  BY <1>9, <1>10, <1>11, <1>12, <1>13, <1>14 DEF Shown
<1> QED BY <1>15 DEF q, d

-----------------------------------------------------------------------------
(* The inductive invariant *)

\* The pool and the calls of a search from S.  After the limit was exceeded there are no
\* more steps of the search, but what is in the pool is written.
PoolFits(p, c, S) ==
  IF p.thrown
    THEN Indexed(p) /\ EntriesFit(p) /\ CallsFit(p, c) /\ (PartsOwned(S) => RefsRight(p))
    ELSE /\ Fits(p, c) /\ SourcesShown(p, c, S)
         /\ PartsOwned(S) => Sound(p, c, S) /\ (FromZero(p, c) => Thorough(p, c))

RootType == [obj : Objects, id : Int]

\* What was shown keeps its number: it was there before the first call.
RootsFit(p, c, r, rs) ==
  /\ r \in Objects \cup {NoObject} /\ rs \in Seq(RootType)
  /\ r = NoObject => c = <<>>
  /\ r # NoObject => r \in Present(p)
  /\ c # <<>> => Obj(p, c[1].id) = r
  /\ \A i \in DOMAIN rs : /\ rs[i].id \in IdsOf(p) /\ Obj(p, rs[i].id) = rs[i].obj
                          /\ c # <<>> => rs[i].id < c[1].nPos

\* Variables are shown at the depth 0.
PhaseFits(p, c, ph) ==
  /\ ph \in {"variables", "objects"}
  /\ ph = "variables" /\ ~p.thrown /\ p.objs # <<>> => FromZero(p, c)

IInv ==
  /\ HeapFits
  /\ PoolFits(pool, calls, Sources)
  /\ RootsFit(pool, calls, root, roots)
  /\ PhaseFits(pool, calls, phase)

\* The search starts from objects.
LEMMA SourcesAre ==
  ASSUME IInv
  PROVE  Sources \in SUBSET Objects
<1>1. roots \in Seq(RootType) /\ root \in Objects \cup {NoObject}
  BY DEF IInv, RootsFit
<1>2. \A i \in DOMAIN roots : roots[i] \in RootType
  BY <1>1
<1> QED BY <1>1, <1>2 DEF Sources, RootType

\* The fewer sources, the fewer objects are near.
LEMMA MoreSources ==
  ASSUME HeapFits, NEW S \in SUBSET Objects, NEW T \in SUBSET Objects, S \subseteq T, PartsOwned(T)
  PROVE  /\ PartsOwned(S)
         /\ \A p, c : Fits(p, c) /\ Sound(p, c, S) => Sound(p, c, T)
<1>1. \A d \in 0..setting.nest : Around(S)[d] \subseteq Around(T)[d]
  BY AroundMonotone
<1>2. setting.nest \in 0..setting.nest
  BY DEF HeapFits, HeapTyped
<1>3. PartsOwned(S)
  BY <1>1, <1>2 DEF PartsOwned
<1>4. ASSUME NEW p, NEW c, Fits(p, c), Near(p, c, S) PROVE Near(p, c, T)
  <2> SUFFICES ASSUME NEW id \in IdsOf(p), Kept(p, c, id)
               PROVE  /\ Obj(p, id) \in Around(T)[setting.nest]
                      /\ Entry(p, id).layer >= 0 => Obj(p, id) \in Around(T)[Entry(p, id).layer]
    BY DEF Near
  <2>1. /\ Obj(p, id) \in Around(S)[setting.nest]
        /\ Entry(p, id).layer >= 0 => Obj(p, id) \in Around(S)[Entry(p, id).layer]
    BY <1>4 DEF Near
  <2>2. Entry(p, id).layer >= 0 => Entry(p, id).layer \in 0..setting.nest
    BY <1>2, <1>4 DEF Fits, EntriesFit, EntryFits
  <2> QED BY <1>1, <1>2, <2>1, <2>2
<1> QED BY <1>3, <1>4 DEF Sound, Good

\* After the limit was exceeded less is asked for.
LEMMA FitsWeaken ==
  ASSUME NEW p, NEW c, NEW S, Fits(p, c), p.thrown, PartsOwned(S) => RefsRight(p)
  PROVE  PoolFits(p, c, S)
BY DEF PoolFits, Fits

\* A search starts from o.
LEMMA StartFits ==
  ASSUME HeapFits, NEW p, ~p.thrown, NEW S \in SUBSET Objects, PoolFits(p, <<>>, S),
         NEW o \in Objects, NEW q, NEW d, Shown(p, <<>>, q, d, o)
  PROVE  PoolFits(q, d, S \cup {o})
<1> DEFINE T == S \cup {o}
           c == <<>>
<1>1. Fits(p, c) /\ SourcesShown(p, c, S)
  BY DEF PoolFits
<1>2. ASSUME PartsOwned(T)
      PROVE  /\ Sound(q, d, T)
             /\ ~q.thrown /\ FromZero(q, d) => Thorough(q, d)
  <2>1. PartsOwned(S) /\ (Sound(p, c, S) => Sound(p, c, T))
    BY <1>1, <1>2, MoreSources
  <2>2. Sound(p, c, T) /\ (FromZero(p, c) => Thorough(p, c))
    BY <2>1 DEF PoolFits
  <2>3. Aims(p, c, o, T)
    BY DEF Aims
  <2>4. Sound(q, d, T) /\ (~q.thrown /\ FromZero(p, c) /\ Thorough(p, c) => Thorough(q, d))
    BY <1>2, <2>2, <2>3 DEF Shown
  <2>5. ~q.thrown => (FromZero(q, d) <=> FromZero(p, c))
    BY DEF Shown
  <2> QED BY <2>2, <2>4, <2>5
<1>3. Fits(q, d)
  BY DEF Shown
<1>4. CASE q.thrown
  BY <1>2, <1>3, <1>4, FitsWeaken DEF Sound
<1>5. CASE ~q.thrown
  <2>1. SourcesShown(q, d, T)
    BY <1>1, <1>5 DEF SourcesShown, Shown
  <2> QED BY <1>2, <1>3, <1>5, <2>1 DEF PoolFits
<1> QED BY <1>4, <1>5

\* The innermost call comes to an object.
LEMMA MeetFits ==
  ASSUME HeapFits, NEW p, ~p.thrown, NEW c, c # <<>>, NEW S \in SUBSET Objects, PoolFits(p, c, S),
         c[Len(c)].next \in DOMAIN FieldOf(p, c[Len(c)].id),
         NEW o \in Objects, MemberOf(p, c) = o, NEW q, NEW d, Shown(p, c, q, d, o)
  PROVE  PoolFits(q, d, S)
<1>1. Fits(p, c) /\ SourcesShown(p, c, S)
  BY DEF PoolFits
<1>2. ASSUME PartsOwned(S)
      PROVE  /\ Sound(q, d, S)
             /\ ~q.thrown /\ FromZero(q, d) => Thorough(q, d)
  <2>1. Sound(p, c, S) /\ (FromZero(p, c) => Thorough(p, c))
    BY <1>2 DEF PoolFits
  <2>2. Aims(p, c, o, S)
    BY DEF Aims
  <2>3. Sound(q, d, S) /\ (~q.thrown /\ FromZero(p, c) /\ Thorough(p, c) => Thorough(q, d))
    BY <1>2, <2>1, <2>2 DEF Shown
  <2>4. ~q.thrown => (FromZero(q, d) <=> FromZero(p, c))
    BY DEF Shown
  <2> QED BY <2>1, <2>3, <2>4
<1>3. Fits(q, d)
  BY DEF Shown
<1>4. CASE q.thrown
  BY <1>2, <1>3, <1>4, FitsWeaken DEF Sound
<1>5. CASE ~q.thrown
  <2>1. SourcesShown(q, d, S)
    BY <1>1, <1>5 DEF SourcesShown, Shown
  <2> QED BY <1>2, <1>3, <1>5, <2>1 DEF PoolFits
<1> QED BY <1>4, <1>5

\* The innermost call comes to null.
LEMMA MeetNothingFits ==
  ASSUME HeapFits, NEW p, ~p.thrown, NEW c, c # <<>>, NEW S \in SUBSET Objects, PoolFits(p, c, S),
         c[Len(c)].next \in DOMAIN FieldOf(p, c[Len(c)].id), MemberOf(p, c) = NoObject
  PROVE  /\ PoolFits(p, Marked(c), S)
         /\ FromZero(p, Marked(c)) <=> FromZero(p, c)
<1> DEFINE d == Marked(c)
           id == c[Len(c)].id
<1>1. Fits(p, c) /\ SourcesShown(p, c, S)
  BY DEF PoolFits
<1>2. Ready(p, c, d)
  BY <1>1, ReadyIs DEF Noticed
<1> HIDE DEF d
<1>3. id \in IdsOf(p)
  BY <1>1, TopIs
<1>4. Changed(p, c, p, d, id)
  BY <1>1, <1>2, <1>3, ChangedNot DEF Ready
<1>5. SourcesShown(p, d, S)
  BY <1>1, <1>2 DEF SourcesShown, Ready
<1>6. ASSUME PartsOwned(S), FromZero(p, c) PROVE Thorough(p, d)
  <2>1. Sound(p, c, S) /\ Thorough(p, c)
    BY <1>6 DEF PoolFits
  <2>2. Followed(p, d)
    BY <1>1, <1>2, <1>4, <1>6, <2>1, MeetFollowed DEF Ready, Thorough
  <2> QED BY <1>2, <2>1, <2>2 DEF Ready, Thorough
<1>7. PoolFits(p, d, S) /\ (FromZero(p, d) <=> FromZero(p, c))
  BY <1>2, <1>5, <1>6 DEF PoolFits, Ready
<1> QED BY <1>7 DEF d

\* The sources are still shown.
LEMMA SourcesStay ==
  ASSUME NEW p, NEW c, NEW S, Fits(p, c), SourcesShown(p, c, S), NEW q, NEW d, NEW id, Changed(p, c, q, d, id)
  PROVE  SourcesShown(q, d, S)
BY LeadsStays DEF SourcesShown, Fits, Indexed

\* The innermost call notes a reference.
LEMMA NotePoolFits ==
  ASSUME HeapFits, NEW p, ~p.thrown, NEW c, NEW S \in SUBSET Objects, PoolFits(p, c, S),
         NEW q, NEW d, Notes(p, c, q, d)
  PROVE  PoolFits(q, d, S) /\ (FromZero(q, d) <=> FromZero(p, c)) /\ Fits(p, c)
<1>1. Fits(p, c) /\ SourcesShown(p, c, S)
  BY DEF PoolFits
<1>2. Fits(q, d) /\ SourcesShown(q, d, S)
  BY <1>1, NoteFits, SourcesStay
<1>3. /\ FromZero(q, d) <=> FromZero(p, c)
      /\ Thorough(p, c) => Thorough(q, d)
  BY <1>1, NoteThorough
<1>4. PartsOwned(S) => Sound(q, d, S)
  BY <1>1, NoteSound DEF PoolFits
<1> QED BY <1>1, <1>2, <1>3, <1>4 DEF PoolFits, Sound, Fits

\* The innermost call returns.
LEMMA ReturnPoolFits ==
  ASSUME HeapFits, NEW p, ~p.thrown, NEW c, NEW S \in SUBSET Objects, PoolFits(p, c, S),
         NEW q, NEW d, Returns(p, c, q, d)
  PROVE  PoolFits(q, d, S) /\ (FromZero(q, d) <=> FromZero(p, c)) /\ Fits(p, c)
<1>1. Fits(p, c) /\ SourcesShown(p, c, S)
  BY DEF PoolFits
<1>2. Fits(q, d) /\ SourcesShown(q, d, S)
  BY <1>1, ReturnFits, SourcesStay
<1>3. /\ FromZero(q, d) <=> FromZero(p, c)
      /\ Thorough(p, c) => Thorough(q, d)
  BY <1>1, ReturnThorough
<1>4. PartsOwned(S) => Sound(q, d, S)
  BY <1>1, ReturnSound DEF PoolFits
<1> QED BY <1>1, <1>2, <1>3, <1>4 DEF PoolFits, Sound, Fits

\* An empty pool
LEMMA EmptyFits ==
  ASSUME HeapFits, NEW tag, tag = [o \in Objects |-> 0], NEW depth \in 0..setting.nest,
         NEW S, S = {}
  PROVE  /\ PoolFits(NewPool(tag, depth), <<>>, S)
         /\ NewPool(tag, depth).objs = <<>> /\ ~NewPool(tag, depth).thrown
<1> DEFINE p == NewPool(tag, depth)
           c == <<>>
<1>1. /\ p.objs = <<>> /\ p.number = 0 /\ p.map = <<>> /\ p.filtering /\ ~p.thrown
      /\ p.tag = tag /\ p.depth = depth
  BY DEF NewPool
<1>2. Len(p.objs) = 0 /\ IdsOf(p) = {}
  <2>1. Len(p.objs) = 0
    BY <1>1
  <2> QED BY <2>1 DEF IdsOf
<1>3. PoolTyped(p)
  <2>1. tag \in [Objects -> Nat] /\ depth \in Nat /\ <<>> \in Seq(EntryType)
    OBVIOUS
  <2> QED BY <2>1 DEF PoolTyped, PoolType, NewPool
<1> HIDE DEF p
<1>4. Numbered(p)
  <2>1. DOMAIN p.map = {}
    BY <1>1
  <2> QED BY <1>1, <1>2, <2>1 DEF Numbered
<1>5. Tagged(p)
  BY <1>1, <1>2 DEF Tagged
<1>6. Fits(p, c)
  <2>1. c \in Seq(CallType) /\ DOMAIN c = {}
    OBVIOUS
  <2>2. Indexed(p) /\ EntriesFit(p)
    BY <1>1, <1>2, <1>3, <1>4, <1>5 DEF Indexed, EntriesFit
  <2>3. CallsFit(p, c) /\ Stacked(p, c) /\ Depths(p, c) /\ FilterFits(p, c)
    BY <1>1, <2>1 DEF CallsFit, Stacked, Depths, FilterFits
  <2>4. RefsCounted(p, c)
    BY <1>2, <2>1 DEF RefsCounted
  <2> QED BY <2>2, <2>3, <2>4 DEF Fits
<1>7. Sound(p, c, S)
  BY <1>1, <1>2 DEF Sound, RefsRight, Good, RefsKept, Near, Inside, ValuesBare
<1>8. Thorough(p, c)
  BY <1>2 DEF Thorough, Followed, ShownOnce
<1>9. SourcesShown(p, c, S)
  BY DEF SourcesShown
<1>10. PoolFits(p, c, S) /\ p.objs = <<>> /\ ~p.thrown
  BY <1>1, <1>6, <1>7, <1>8, <1>9 DEF PoolFits
<1> QED BY <1>10 DEF p

\* A variable is shown at the depth 0, whatever the depth was.
LEMMA ResetFits ==
  ASSUME HeapFits, NEW p, ~p.thrown, NEW S, PoolFits(p, <<>>, S), p.objs # <<>> => FromZero(p, <<>>),
         NEW r, r = [p EXCEPT !.depth = 0]
  PROVE  /\ PoolFits(r, <<>>, S) /\ ~r.thrown /\ FromZero(r, <<>>)
         /\ IdsOf(r) = IdsOf(p) /\ \A id : Entry(r, id) = Entry(p, id)
<1> DEFINE c == <<>>
<1>0. c \in Seq(CallType) /\ DOMAIN c = {} /\ Fits(p, c)
  BY DEF PoolFits
<1>1. p \in PoolType(p.map)
  BY <1>0 DEF Fits, Indexed, PoolTyped
<1>2. r \in PoolType(p.map) /\ r.depth = 0 /\ r.objs = p.objs /\ r.map = p.map /\ r.number = p.number
      /\ r.filtering = p.filtering /\ r.tag = p.tag /\ r.thrown = p.thrown /\ r.owner = p.owner
  BY <1>1 DEF PoolType
<1>3. /\ IdsOf(r) = IdsOf(p) /\ \A id : Entry(r, id) = Entry(p, id)
      /\ \A id : Obj(r, id) = Obj(p, id)
      /\ \A id : Kept(r, c, id) <=> Kept(p, c, id)
  BY <1>2 DEF IdsOf, Entry, Obj, Kept
<1>4. FromZero(r, c)
  BY <1>2 DEF FromZero
<1>5. Indexed(r)
  <2>1. Present(r) = Present(p)
    BY <1>3 DEF Present
  <2>2. \A o : Key(r, o) = Key(p, o)
    BY <1>2 DEF Key
  <2>3. Numbered(r)
    BY <1>0, <1>2, <1>3, <2>2 DEF Numbered, Fits, Indexed
  <2>4. Tagged(r)
    BY <1>0, <1>2, <1>3, <2>1 DEF Tagged, Fits, Indexed
  <2> QED BY <1>2, <2>3, <2>4 DEF Indexed, PoolTyped
<1>6. EntriesFit(r)
  BY <1>0, <1>2, <1>3 DEF EntriesFit, Fits, HeapFits, HeapTyped
<1>7. Fits(r, c)
  <2>1. CallsFit(r, c) /\ Stacked(r, c) /\ Depths(r, c)
    BY <1>0 DEF CallsFit, Stacked, Depths
  <2>2. FilterFits(r, c)
    BY <1>0, <1>2 DEF FilterFits, Fits
  <2>3. RefsCounted(r, c)
    BY <1>0, <1>3 DEF RefsCounted, Fits, FieldOf
  <2> QED BY <1>5, <1>6, <2>1, <2>2, <2>3 DEF Fits
<1>8. \A layer, x : Leads(p, c, layer, x) => Leads(r, c, layer, x)
  BY <1>3 DEF Leads
<1>9. SourcesShown(r, c, S)
  BY <1>8 DEF SourcesShown, PoolFits
<1>10. Sound(p, c, S) => Sound(r, c, S)
  <2>1. ASSUME RefsRight(p) PROVE RefsRight(r)
    BY <1>3, <2>1 DEF RefsRight, RefRight, FieldOf
  <2>2. ASSUME RefsKept(p, c) PROVE RefsKept(r, c)
    BY <1>2, <1>3, <2>2 DEF RefsKept
  <2>3. ASSUME Near(p, c, S) PROVE Near(r, c, S)
    BY <1>3, <2>3 DEF Near
  <2>4. ASSUME ValuesBare(p, c) PROVE ValuesBare(r, c)
    BY <1>3, <2>4 DEF ValuesBare
  <2>5. Inside(r, c)
    BY <1>0 DEF Inside
  <2> QED BY <2>1, <2>2, <2>3, <2>4, <2>5 DEF Sound, Good
<1>11. Thorough(p, c) => Thorough(r, c)
  <2>1. ASSUME Followed(p, c) PROVE Followed(r, c)
    BY <1>3, <1>8, <2>1 DEF Followed, FollowedFrom
  <2>2. ASSUME ShownOnce(p, c) PROVE ShownOnce(r, c)
    BY <1>3, <2>2 DEF ShownOnce
  <2> QED BY <2>1, <2>2 DEF Thorough
<1>12. ASSUME PartsOwned(S) PROVE Sound(r, c, S) /\ Thorough(r, c)
  <2>1. CASE p.objs = <<>>
    <3>1. IdsOf(r) = {}
      <4>1. Len(p.objs) = 0
        BY <2>1
      <4> QED BY <1>3, <4>1 DEF IdsOf
    <3>2. Thorough(r, c)
      BY <3>1 DEF Thorough, Followed, ShownOnce
    <3> QED BY <1>10, <1>12, <3>2 DEF PoolFits
  <2>2. CASE p.objs # <<>>
    BY <1>10, <1>11, <1>12, <2>2 DEF PoolFits
  <2> QED BY <2>1, <2>2
<1> QED BY <1>2, <1>3, <1>4, <1>7, <1>9, <1>12 DEF PoolFits

-----------------------------------------------------------------------------
(* What was shown keeps its number. *)

\* Nothing was shown yet but what has its number.
LEMMA RootsStart ==
  ASSUME NEW p, NEW rs, RootsFit(p, <<>>, NoObject, rs), NEW o \in Objects, NEW q, NEW d,
         Shown(p, <<>>, q, d, o)
  PROVE  RootsFit(q, d, o, rs)
<1>1. o # NoObject
  BY ObjectsAssumption
<1>2. /\ IdsOf(p) \subseteq IdsOf(q) /\ \A id \in IdsOf(p) : Obj(q, id) = Obj(p, id)
      /\ o \in Present(q)
      /\ d # <<>> => Obj(q, d[1].id) = o /\ IdsOf(p) \subseteq 0..(d[1].nPos - 1)
      /\ d # <<>> => d[1].nPos \in Nat
  <2>1. d # <<>> => d[1] \in CallType
    <3>1. Fits(q, d)
      BY DEF Shown
    <3>2. d \in Seq(CallType)
      BY <3>1 DEF Fits, CallsFit
    <3> QED BY <3>2
  <2> QED BY <2>1 DEF Shown, CallType
<1>3. \A i \in DOMAIN rs : rs[i].id \in IdsOf(p) /\ Obj(p, rs[i].id) = rs[i].obj
  BY DEF RootsFit
<1>4. \A i \in DOMAIN rs : d # <<>> => rs[i].id < d[1].nPos
  BY <1>2, <1>3
<1> QED BY <1>1, <1>2, <1>3, <1>4 DEF RootsFit

\* A step of the search leaves the first call, if there is one still, and the entries
\* that were there before it.
LEMMA RootsStay ==
  ASSUME NEW p, NEW c, Fits(p, c), c # <<>>, NEW r, NEW rs, RootsFit(p, c, r, rs), NEW q, NEW d,
         0..(c[1].nPos - 1) \subseteq IdsOf(q),
         \A id \in IdsOf(p) : id \in IdsOf(q) => Obj(q, id) = Obj(p, id),
         d # <<>> => d[1].id = c[1].id /\ d[1].nPos = c[1].nPos
  PROVE  RootsFit(q, d, r, rs)
<1>1. c \in Seq(CallType) /\ CallsFit(p, c)
  BY DEF Fits, CallsFit
<1>2. 1 \in DOMAIN c
  BY <1>1, FirstCalls
<1>3. /\ c[1].id \in IdsOf(p) /\ c[1].nPos \in (c[1].id + 1)..Len(p.objs) /\ c[1].nPos \in Nat
      /\ c[1].id \in Nat
  BY <1>1, <1>2, CallsTyped DEF CallFits, CallType
<1>4. c[1].id \in IdsOf(q) /\ Obj(q, c[1].id) = r
  <2>1. c[1].id \in 0..(c[1].nPos - 1)
    BY <1>3
  <2> QED BY <1>3, <2>1 DEF RootsFit
<1>5. ASSUME NEW i \in DOMAIN rs
      PROVE  rs[i].id \in IdsOf(q) /\ Obj(q, rs[i].id) = rs[i].obj /\ rs[i].id < c[1].nPos
  <2>1. rs[i].id \in IdsOf(p) /\ Obj(p, rs[i].id) = rs[i].obj /\ rs[i].id < c[1].nPos
    BY DEF RootsFit
  <2>2. rs[i].id \in 0..(c[1].nPos - 1)
    BY <1>3, <2>1 DEF IdsOf
  <2> QED BY <2>1, <2>2
<1>6. r # NoObject
  BY DEF RootsFit
<1> QED BY <1>4, <1>5, <1>6 DEF RootsFit, Present

\* The entries that were there before the first call
LEMMA FirstCallIs ==
  ASSUME NEW p, NEW c, Fits(p, c), c # <<>>
  PROVE  /\ 1 \in DOMAIN c /\ 0..(c[1].nPos - 1) \subseteq IdsOf(p)
         /\ \A k \in DOMAIN c : c[1].nPos <= c[k].nPos
         /\ c[1].nPos \in Nat
<1>1. c \in Seq(CallType) /\ CallsFit(p, c)
  BY DEF Fits, CallsFit
<1>2. 1 \in DOMAIN c
  BY <1>1, FirstCalls
<1>3. CallFits(p, c[1]) /\ c[1] \in CallType /\ \A k \in DOMAIN c : k \in Nat /\ k >= 1 /\ c[k] \in CallType
  BY <1>1, <1>2, CallsTyped
<1>4. c[1].nPos \in (c[1].id + 1)..Len(p.objs) /\ c[1].nPos \in Nat /\ c[1].id \in Nat
  BY <1>3 DEF CallFits, CallType
<1>5. Len(p.objs) \in Nat
  BY DEF Fits, Indexed, PoolTyped, PoolType
<1>6. 0..(c[1].nPos - 1) \subseteq IdsOf(p)
  BY <1>4, <1>5 DEF IdsOf
<1>7. ASSUME NEW k \in DOMAIN c PROVE c[1].nPos <= c[k].nPos
  <2>1. CASE k = 1
    BY <1>4, <2>1
  <2>2. CASE k # 1
    <3>1. 1 < k
      BY <1>3, <2>2
    <3> QED BY <1>2, <3>1 DEF Fits, Stacked
  <2> QED BY <2>1, <2>2
<1> QED BY <1>2, <1>4, <1>6, <1>7

-----------------------------------------------------------------------------
(* The heap and the setting do not change, so neither does what is said of a pool. *)

\* The depths of objects and the parts of values stay.
LEMMA HeapSame ==
  ASSUME graph' = graph, setting' = setting
  PROVE  /\ HeapFits' <=> HeapFits
         /\ \A o : Kind(o)' = Kind(o) /\ Levels(o)' = Levels(o)
         /\ \A S : Around(S)' = Around(S)
         /\ \A S : PartsOwned(S)' <=> PartsOwned(S)
         /\ Parts' = Parts
<1>1. \A o : Kind(o)' = Kind(o)
  BY DEF Kind
<1>2. \A o : Levels(o)' = Levels(o)
  BY <1>1 DEF Levels
<1>3. ASSUME NEW S PROVE Around(S)' = Around(S)
  BY DEF Around, Reach, Targets, Of, Kind
<1>4. Parts' = Parts
  BY DEF Parts, Reach, Targets, Of, Kind
<1>5. Of({"string"})' = Of({"string"})
  BY DEF Of, Kind
<1>6. ASSUME NEW S PROVE PartsOwned(S)' <=> PartsOwned(S)
  BY <1>3, <1>4, <1>5 DEF PartsOwned
<1>7. HeapFits' <=> HeapFits
  BY DEF HeapFits, HeapTyped, HasValues, Distinct, HashesDiffer, Kind
<1> QED BY <1>1, <1>2, <1>3, <1>4, <1>6, <1>7

\* What fits a pool and calls fits them in the next state.
LEMMA PoolSame ==
  ASSUME graph' = graph, setting' = setting, NEW p, NEW c, NEW S
  PROVE  PoolFits(p, c, S)' <=> PoolFits(p, c, S)
<1>0. /\ \A o : Kind(o)' = Kind(o) /\ Levels(o)' = Levels(o)
      /\ \A T : Around(T)' = Around(T)
      /\ PartsOwned(S)' <=> PartsOwned(S)
      /\ Parts' = Parts
  BY HeapSame
<1>1. /\ IdsOf(p)' = IdsOf(p) /\ \A id : Entry(p, id)' = Entry(p, id)
      /\ \A id : Obj(p, id)' = Obj(p, id) /\ FieldOf(p, id)' = FieldOf(p, id)
      /\ \A id : IsFiltered(p, id)' <=> IsFiltered(p, id)
      /\ Present(p)' = Present(p)
      /\ \A id : Kept(p, c, id)' <=> Kept(p, c, id)
      /\ \A id : OnStack(c, id)' <=> OnStack(c, id)
  BY <1>0 DEF IdsOf, Entry, Obj, FieldOf, IsFiltered, Present, Kept, OnStack
<1>2. Indexed(p)' <=> Indexed(p)
  BY <1>1 DEF Indexed, PoolTyped, Numbered, Tagged, Key
<1>3. EntriesFit(p)' <=> EntriesFit(p)
  BY <1>0, <1>1 DEF EntriesFit, EntryFits, NoMembers
<1>4. CallsFit(p, c)' <=> CallsFit(p, c)
  BY <1>0, <1>1 DEF CallsFit, CallFits
<1>5. /\ \A call : LayerOf(p, call)' = LayerOf(p, call)
      /\ \A call : LevelsOf(p, call)' = LevelsOf(p, call)
      /\ \A k : Inner(p, c, k)' = Inner(p, c, k)
  BY <1>0, <1>1 DEF LayerOf, LevelsOf, Inner
<1>6. /\ Stacked(p, c)' <=> Stacked(p, c)
      /\ Depths(p, c)' <=> Depths(p, c)
      /\ FromZero(p, c)' <=> FromZero(p, c)
  BY <1>1, <1>5 DEF Stacked, Depths, FromZero
<1>7. FilterFits(p, c)' <=> FilterFits(p, c)
  BY <1>1 DEF FilterFits
<1>8. RefsCounted(p, c)' <=> RefsCounted(p, c)
  BY <1>0, <1>1 DEF RefsCounted
<1>9. Fits(p, c)' <=> Fits(p, c)
  BY <1>2, <1>3, <1>4, <1>6, <1>7, <1>8 DEF Fits
<1>10. RefsRight(p)' <=> RefsRight(p)
  BY <1>1 DEF RefsRight, RefRight
<1>11. Sound(p, c, S)' <=> Sound(p, c, S)
  BY <1>0, <1>1, <1>10 DEF Sound, Good, RefsKept, Near, Inside, ValuesBare
<1>12. \A layer, x : Leads(p, c, layer, x)' <=> Leads(p, c, layer, x)
  BY <1>1 DEF Leads
<1>13. SourcesShown(p, c, S)' <=> SourcesShown(p, c, S)
  BY <1>12 DEF SourcesShown
<1>14. /\ \A id : Shows(Entry(p, id))' <=> Shows(Entry(p, id))
       /\ \A id, i : Met(c, id, i)' <=> Met(c, id, i)
  BY <1>0, <1>1 DEF Shows, Met
<1>15. Followed(p, c)' <=> Followed(p, c)
  BY <1>0, <1>1, <1>12, <1>14 DEF Followed, FollowedFrom
<1>16. ShownOnce(p, c)' <=> ShownOnce(p, c)
  BY <1>1, <1>14 DEF ShownOnce
<1> QED BY <1>0, <1>2, <1>3, <1>4, <1>6, <1>9, <1>10, <1>11, <1>13, <1>15, <1>16 DEF PoolFits, Thorough

\* So does what was shown.
LEMMA RootsSame ==
  ASSUME graph' = graph, setting' = setting, NEW p, NEW c, NEW r, NEW rs, NEW ph
  PROVE  /\ RootsFit(p, c, r, rs)' <=> RootsFit(p, c, r, rs)
         /\ PhaseFits(p, c, ph)' <=> PhaseFits(p, c, ph)
<1>1. FromZero(p, c)' <=> FromZero(p, c)
  BY DEF FromZero, Inner, LayerOf, LevelsOf, Levels, Kind, Obj, Entry
<1> QED BY <1>1 DEF RootsFit, PhaseFits, Present, IdsOf, Obj, Entry

\* It is enough to show the invariant of the next pool in the heap and setting of this one.
LEMMA InvariantNext ==
  ASSUME IInv, graph' = graph, setting' = setting, PoolFits(pool', calls', Sources'),
         RootsFit(pool', calls', root', roots'), PhaseFits(pool', calls', phase')
  PROVE  IInv'
BY HeapSame, PoolSame, RootsSame DEF IInv

-----------------------------------------------------------------------------
(* The steps preserve the invariant. *)

\* What holds whether the limit was exceeded or not
LEMMA PoolIndexed ==
  ASSUME NEW p, NEW c, NEW S, PoolFits(p, c, S)
  PROVE  Indexed(p) /\ EntriesFit(p) /\ CallsFit(p, c)
BY DEF PoolFits, Fits

\* The heaps are those of HeapsAssumption.
LEMMA InitTyped == Init => HeapTyped
<1> SUFFICES ASSUME Init PROVE HeapTyped
  OBVIOUS
<1>1. PICK h \in Heaps : /\ graph \in h.graphs /\ setting \in h.settings
                         /\ (setting.byTag => ~HasValues(graph))
  BY DEF Init
<1> QED BY <1>1, HeapsAssumption DEF HeapTyped

\* The first pool is empty.
LEMMA InitFits ==
  ASSUME Init, Distinct
  PROVE  IInv
<1>1. HeapFits
  BY InitTyped DEF HeapFits
<1>2. /\ pool = NewPool([o \in Objects |-> 0], 0)
      /\ roots = <<>> /\ root = NoObject /\ calls = <<>> /\ phase = "variables"
  BY DEF Init
<1>3. Sources = {}
  BY <1>2 DEF Sources
<1>4. 0 \in 0..setting.nest
  BY <1>1 DEF HeapFits, HeapTyped
<1>5. PoolFits(pool, calls, Sources) /\ pool.objs = <<>>
  BY <1>1, <1>2, <1>3, <1>4, EmptyFits
<1>6. RootsFit(pool, calls, root, roots)
  BY <1>2 DEF RootsFit
<1>7. PhaseFits(pool, calls, phase)
  BY <1>2, <1>5 DEF PhaseFits
<1> QED BY <1>1, <1>5, <1>6, <1>7 DEF IInv

\* A search starts from one object more.
LEMMA StartSources ==
  ASSUME IInv, NEW o \in Objects, Start(o)
  PROVE  Sources' = Sources \cup {o}
<1>1. o # NoObject
  BY ObjectsAssumption
<1> QED BY <1>1 DEF Start, Sources

\* A variable is shown.
LEMMA VariableFits ==
  ASSUME IInv, NEW o \in Objects, Variable(o)
  PROVE  IInv'
<1> DEFINE r == [pool EXCEPT !.depth = 0]
<1>1. /\ ~pool.thrown /\ root = NoObject /\ root' = o /\ graph' = graph /\ setting' = setting
      /\ roots' = roots /\ phase = "variables" /\ phase' = phase
      /\ Show(r, o, 0, <<>>)
  BY DEF Variable, Start
<1>2. /\ HeapFits /\ calls = <<>> /\ PoolFits(pool, <<>>, Sources)
      /\ RootsFit(pool, <<>>, NoObject, roots)
      /\ pool.objs # <<>> => FromZero(pool, <<>>)
      /\ Sources \in SUBSET Objects
  BY <1>1, SourcesAre DEF IInv, RootsFit, PhaseFits
<1>3. /\ PoolFits(r, <<>>, Sources) /\ ~r.thrown /\ FromZero(r, <<>>)
      /\ IdsOf(r) = IdsOf(pool) /\ \A id : Entry(r, id) = Entry(pool, id)
  BY <1>1, <1>2, ResetFits
<1> HIDE DEF r
<1>4. Shown(r, <<>>, pool', calls', o)
  <2>1. Fits(r, <<>>)
    BY <1>3 DEF PoolFits
  <2>2. LayerFor(r, <<>>) = 0 /\ Noticed(<<>>) = <<>>
    BY DEF LayerFor, Noticed
  <2> QED BY <1>1, <1>2, <2>1, <2>2, ShownIs
<1>5. PoolFits(pool', calls', Sources')
  <2>1. Sources' = Sources \cup {o}
    BY StartSources DEF Variable
  <2> QED BY <1>2, <1>3, <1>4, <2>1, StartFits
<1>6. RootsFit(pool', calls', root', roots')
  <2>1. RootsFit(r, <<>>, NoObject, roots)
    BY <1>2, <1>3 DEF RootsFit, Obj
  <2> QED BY <1>1, <1>4, <2>1, RootsStart
<1>7. PhaseFits(pool', calls', phase')
  BY <1>1, <1>3, <1>4 DEF PhaseFits, Shown
<1> QED BY <1>1, <1>5, <1>6, <1>7, InvariantNext

\* The exception or the monitor is shown.
LEMMA ObjRefIdFits ==
  ASSUME IInv, NEW o \in Objects, ObjRefIdFromObjectPool(o)
  PROVE  IInv'
<1>1. /\ ~pool.thrown /\ root = NoObject /\ root' = o /\ graph' = graph /\ setting' = setting
      /\ roots' = roots /\ phase' = "objects"
      /\ Show(pool, o, 0, <<>>)
  BY DEF ObjRefIdFromObjectPool, Start
<1>2. /\ HeapFits /\ calls = <<>> /\ PoolFits(pool, <<>>, Sources)
      /\ RootsFit(pool, <<>>, NoObject, roots)
      /\ Sources \in SUBSET Objects
  BY <1>1, SourcesAre DEF IInv, RootsFit
<1>3. Shown(pool, <<>>, pool', calls', o)
  <2>1. Fits(pool, <<>>)
    BY <1>1, <1>2 DEF PoolFits
  <2>2. LayerFor(pool, <<>>) = 0 /\ Noticed(<<>>) = <<>>
    BY DEF LayerFor, Noticed
  <2> QED BY <1>1, <1>2, <2>1, <2>2, ShownIs
<1>4. PoolFits(pool', calls', Sources')
  <2>1. Sources' = Sources \cup {o}
    BY StartSources DEF ObjRefIdFromObjectPool
  <2> QED BY <1>1, <1>2, <1>3, <2>1, StartFits
<1>5. RootsFit(pool', calls', root', roots')
  BY <1>1, <1>2, <1>3, RootsStart
<1>6. PhaseFits(pool', calls', phase')
  BY <1>1 DEF PhaseFits
<1> QED BY <1>1, <1>4, <1>5, <1>6, InvariantNext

\* What a step of the search starts from
LEMMA SearchingIs ==
  ASSUME IInv, Searching
  PROVE  /\ HeapFits /\ ~pool.thrown /\ calls # <<>> /\ Sources \in SUBSET Objects
         /\ Fits(pool, calls) /\ PoolFits(pool, calls, Sources)
         /\ RootsFit(pool, calls, root, roots)
         /\ phase \in {"variables", "objects"}
         /\ phase = "variables" => FromZero(pool, calls)
         /\ Call = calls[Len(calls)] /\ Field = FieldOf(pool, calls[Len(calls)].id)
         /\ Member = MemberOf(pool, calls)
         /\ Call.next \in Nat /\ Call.next >= 1 /\ Field \in Seq(Objects \cup {NoObject})
<1>1. /\ HeapFits /\ ~pool.thrown /\ calls # <<>> /\ Sources \in SUBSET Objects
      /\ PoolFits(pool, calls, Sources)
      /\ RootsFit(pool, calls, root, roots) /\ PhaseFits(pool, calls, phase)
  BY SourcesAre DEF IInv, Searching
<1>2. Fits(pool, calls)
  BY <1>1 DEF PoolFits
<1>3. /\ Call = calls[Len(calls)]
      /\ Call.id \in IdsOf(pool) /\ CallFits(pool, Call) /\ Call \in CallType
  BY <1>1, <1>2, TopIs DEF Call, Top
<1>4. /\ Field = FieldOf(pool, calls[Len(calls)].id) /\ Member = MemberOf(pool, calls)
  BY <1>3 DEF Field, Member, FieldOf, MemberOf, Obj, CallFits
<1>5. pool.objs # <<>>
  <2>1. Len(pool.objs) # 0
    <3>1. Len(pool.objs) \in Nat
      BY <1>2 DEF Fits, Indexed, PoolTyped, PoolType
    <3> QED BY <1>3, <3>1 DEF IdsOf
  <2> QED BY <2>1
<1>6. Field \in Seq(Objects \cup {NoObject})
  <2>1. Obj(pool, calls[Len(calls)].id) \in Objects
    BY <1>2, <1>3, EntryTyped DEF Fits, Indexed
  <2> QED BY <1>1, <1>4, <2>1 DEF FieldOf, HeapFits, HeapTyped
<1>7. Call.next \in Nat /\ Call.next >= 1
  <2>1. Call.next \in 1..(Len(graph.field[Entry(pool, Call.id).obj]) + 1) /\ Call.next \in Nat
    BY <1>3 DEF CallFits, CallType
  <2> QED BY <2>1
<1> QED BY <1>1, <1>2, <1>3, <1>4, <1>5, <1>6, <1>7 DEF PhaseFits

\* The innermost call comes to a member.
LEMMA MeetMemberFits ==
  ASSUME IInv, MeetMember
  PROVE  IInv'
<1>1. /\ Searching /\ ~Call.shown /\ Call.next <= Len(Field)
      /\ graph' = graph /\ setting' = setting /\ roots' = roots /\ root' = root /\ phase' = phase
  BY DEF MeetMember
<1>2. /\ HeapFits /\ ~pool.thrown /\ calls # <<>> /\ Sources \in SUBSET Objects
      /\ Fits(pool, calls) /\ PoolFits(pool, calls, Sources)
      /\ RootsFit(pool, calls, root, roots)
      /\ phase \in {"variables", "objects"}
      /\ phase = "variables" => FromZero(pool, calls)
      /\ Call = calls[Len(calls)] /\ Field = FieldOf(pool, calls[Len(calls)].id)
      /\ Member = MemberOf(pool, calls)
      /\ Call.next \in Nat /\ Call.next >= 1 /\ Field \in Seq(Objects \cup {NoObject})
  BY <1>1, SearchingIs
<1>3. Call.next \in DOMAIN Field /\ Member \in Objects \cup {NoObject}
  <2>1. Call.next \in DOMAIN Field
    BY <1>1, <1>2
  <2> QED BY <1>2, <2>1 DEF Member
<1>4. calls[Len(calls)].next \in DOMAIN FieldOf(pool, calls[Len(calls)].id)
  BY <1>2, <1>3
<1>5. Sources' = Sources
  BY <1>1 DEF Sources
<1>6. 1 \in DOMAIN calls /\ 0..(calls[1].nPos - 1) \subseteq IdsOf(pool)
  BY <1>2, FirstCallIs
<1>7. CASE Member = NoObject
  <2>1. pool' = pool /\ calls' = Marked(calls)
    BY <1>7 DEF MeetMember, Marked, Top
  <2>2. /\ PoolFits(pool, Marked(calls), Sources)
        /\ FromZero(pool, Marked(calls)) <=> FromZero(pool, calls)
    BY <1>2, <1>4, <1>7, MeetNothingFits
  <2>3. Marked(calls)[1].id = calls[1].id /\ Marked(calls)[1].nPos = calls[1].nPos
    <3>1. calls \in Seq(CallType)
      BY <1>2 DEF Fits, CallsFit
    <3> QED BY <1>2, <1>6, <3>1, MarkedIs
  <2>4. RootsFit(pool, Marked(calls), root, roots)
    BY <1>2, <1>6, <2>3, RootsStay
  <2>5. PhaseFits(pool, Marked(calls), phase)
    BY <1>2, <2>2 DEF PhaseFits
  <2> QED BY <1>1, <1>5, <2>1, <2>2, <2>4, <2>5, InvariantNext
<1>8. CASE Member # NoObject
  <2>1. Show(pool, Member, pool.depth, Marked(calls))
    BY <1>8 DEF MeetMember, Marked, Top
  <2>2. LayerFor(pool, calls) = pool.depth /\ Noticed(calls) = Marked(calls)
    BY <1>2 DEF LayerFor, Noticed
  <2>3. Member \in Objects
    BY <1>3, <1>8
  <2> DEFINE o == Member
  <2>4. o \in Objects /\ MemberOf(pool, calls) = o /\ Show(pool, o, LayerFor(pool, calls), Noticed(calls))
    BY <1>2, <2>1, <2>2, <2>3
  <2> HIDE DEF o
  <2>5. Shown(pool, calls, pool', calls', o)
    BY <1>2, <1>4, <2>4, ShownIs
  <2>6. PoolFits(pool', calls', Sources')
    BY <1>2, <1>4, <1>5, <2>4, <2>5, MeetFits
  <2>7. RootsFit(pool', calls', root', roots')
    <3>1. /\ IdsOf(pool) \subseteq IdsOf(pool')
          /\ \A id \in IdsOf(pool) : Obj(pool', id) = Obj(pool, id)
          /\ calls'[1].id = calls[1].id /\ calls'[1].nPos = calls[1].nPos
      BY <1>6, <2>5 DEF Shown
    <3>2. RootsFit(pool', calls', root, roots)
      BY <1>2, <1>6, <3>1, RootsStay
    <3> QED BY <1>1, <3>2
  <2>8. PhaseFits(pool', calls', phase')
    <3>1. ~pool'.thrown => (FromZero(pool', calls') <=> FromZero(pool, calls))
      BY <2>5 DEF Shown
    <3> QED BY <1>1, <1>2, <3>1 DEF PhaseFits
  <2> QED BY <1>1, <2>6, <2>7, <2>8, InvariantNext
<1> QED BY <1>7, <1>8

\* It notes the reference to it.
LEMMA NoteMemberFits ==
  ASSUME IInv, NoteMember
  PROVE  IInv'
<1>1. /\ Searching /\ Call.shown
      /\ graph' = graph /\ setting' = setting /\ roots' = roots /\ root' = root /\ phase' = phase
  BY DEF NoteMember
<1>2. /\ HeapFits /\ ~pool.thrown /\ calls # <<>> /\ Sources \in SUBSET Objects
      /\ Fits(pool, calls) /\ PoolFits(pool, calls, Sources)
      /\ RootsFit(pool, calls, root, roots)
      /\ phase \in {"variables", "objects"}
      /\ phase = "variables" => FromZero(pool, calls)
      /\ Call = calls[Len(calls)]
      /\ Member = MemberOf(pool, calls)
  BY <1>1, SearchingIs
<1>3. Notes(pool, calls, pool', calls')
  <2>1. calls' = Moved(calls)
    BY DEF NoteMember, Moved, Top
  <2>2. pool' = IF Call.once THEN pool
                ELSE Spend([pool EXCEPT !.objs[Call.id + 1].refs = Append(@, RefTo(pool, Member))])
    BY DEF NoteMember, RefTo
  <2>3. pool' = IF Call.once THEN pool ELSE WithRef(pool, Call.id, RefTo(pool, Member))
    BY <2>2 DEF WithRef
  <2> QED BY <1>1, <1>2, <2>1, <2>3 DEF Notes
<1>4. PoolFits(pool', calls', Sources') /\ (FromZero(pool', calls') <=> FromZero(pool, calls))
  <2>1. Sources' = Sources
    BY <1>1 DEF Sources
  <2> QED BY <1>2, <1>3, <2>1, NotePoolFits
<1>5. 1 \in DOMAIN calls /\ 0..(calls[1].nPos - 1) \subseteq IdsOf(pool)
  BY <1>2, FirstCallIs
<1>6. RootsFit(pool', calls', root', roots')
  <2>1. Changed(pool, calls, pool', calls', calls[Len(calls)].id) /\ IdsOf(pool') = IdsOf(pool)
    BY <1>2, <1>3, NoteFits
  <2>2. calls'[1].id = calls[1].id /\ calls'[1].nPos = calls[1].nPos
    <3>1. calls \in Seq(CallType) /\ calls' = Moved(calls)
      BY <1>2, <1>3 DEF Fits, CallsFit, Notes
    <3> QED BY <1>2, <1>5, <3>1, MovedIs
  <2>3. RootsFit(pool', calls', root, roots)
    BY <1>2, <1>5, <2>1, <2>2, RootsStay DEF Changed
  <2> QED BY <1>1, <2>3
<1>7. PhaseFits(pool', calls', phase')
  BY <1>1, <1>2, <1>4 DEF PhaseFits
<1> QED BY <1>1, <1>4, <1>6, <1>7, InvariantNext

\* It returns.
LEMMA ReturnStepFits ==
  ASSUME IInv, Return
  PROVE  IInv'
<1>1. /\ Searching /\ ~Call.shown /\ Call.next > Len(Field)
      /\ graph' = graph /\ setting' = setting /\ roots' = roots /\ root' = root /\ phase' = phase
  BY DEF Return
<1>2. /\ HeapFits /\ ~pool.thrown /\ calls # <<>> /\ Sources \in SUBSET Objects
      /\ Fits(pool, calls) /\ PoolFits(pool, calls, Sources)
      /\ RootsFit(pool, calls, root, roots)
      /\ phase \in {"variables", "objects"}
      /\ phase = "variables" => FromZero(pool, calls)
      /\ Call = calls[Len(calls)] /\ Field = FieldOf(pool, calls[Len(calls)].id)
  BY <1>1, SearchingIs
<1>3. Returns(pool, calls, pool', calls')
  BY <1>1, <1>2 DEF Return, Returns, Top
<1>4. PoolFits(pool', calls', Sources') /\ (FromZero(pool', calls') <=> FromZero(pool, calls))
  <2>1. Sources' = Sources
    BY <1>1 DEF Sources
  <2> QED BY <1>2, <1>3, <2>1, ReturnPoolFits
<1>5. /\ 1 \in DOMAIN calls /\ 0..(calls[1].nPos - 1) \subseteq IdsOf(pool)
      /\ \A k \in DOMAIN calls : calls[1].nPos <= calls[k].nPos
      /\ calls[1].nPos \in Nat
  BY <1>2, FirstCallIs
<1>6. RootsFit(pool', calls', root', roots')
  <2> DEFINE id == calls[Len(calls)].id
  <2>1. Changed(pool, calls, pool', calls', id) /\ Returned(pool, calls, pool', id)
    BY <1>2, <1>3, ReturnFits, ReturnedIs
  <2>2. Len(pool'.objs) = IF Filters(pool, id) THEN calls[Len(calls)].nPos ELSE Len(pool.objs)
    BY <2>1 DEF Returned, Rewritten
  <2>3. 0..(calls[1].nPos - 1) \subseteq IdsOf(pool')
    <3>1. CASE Filters(pool, id)
      <4>1. Len(calls) \in DOMAIN calls /\ calls[Len(calls)].nPos \in Nat
        BY <1>2, TopIs DEF CallType
      <4>2. calls[1].nPos <= Len(pool'.objs) /\ Len(pool'.objs) \in Nat
        BY <1>5, <2>2, <3>1, <4>1
      <4> QED BY <1>5, <4>2 DEF IdsOf
    <3>2. CASE ~Filters(pool, id)
      BY <1>5, <2>2, <3>2 DEF IdsOf
    <3> QED BY <3>1, <3>2
  <2>4. calls' # <<>> => calls'[1].id = calls[1].id /\ calls'[1].nPos = calls[1].nPos
    <3> SUFFICES ASSUME calls' # <<>> PROVE calls'[1] = calls[1]
      OBVIOUS
    <3> DEFINE d == calls'
    <3>1. calls \in Seq(CallType) /\ d = SubSeq(calls, 1, Len(calls) - 1)
      BY <1>2, <1>3 DEF Fits, CallsFit, Returns
    <3> HIDE DEF d
    <3>2. DOMAIN d = 1..Len(d) /\ Len(d) \in Nat /\ d \in Seq(CallType) /\ \A k \in DOMAIN d : d[k] = calls[k]
      BY <1>2, <3>1, ButLastIs
    <3>3. d # <<>> => 1 \in DOMAIN d
      BY <3>2, FirstCalls
    <3>4. d # <<>>
      BY DEF d
    <3>5. d[1] = calls[1]
      BY <3>2, <3>3, <3>4
    <3> QED BY <3>5 DEF d
  <2>5. RootsFit(pool', calls', root, roots)
    BY <1>2, <2>1, <2>3, <2>4, RootsStay DEF Changed
  <2> QED BY <1>1, <2>5
<1>7. PhaseFits(pool', calls', phase')
  BY <1>1, <1>2, <1>4 DEF PhaseFits
<1> QED BY <1>1, <1>4, <1>6, <1>7, InvariantNext

\* What was shown gets its number.
LEMMA FinishFits ==
  ASSUME IInv, Finish
  PROVE  IInv'
<1> DEFINE rec == [obj |-> root, id |-> getObjectId(pool, root)]
<1>1. /\ root # NoObject /\ root' = NoObject /\ calls' = <<>> /\ roots' = Append(roots, rec)
      /\ IF pool.thrown THEN phase = "variables" ELSE calls = <<>>
      /\ graph' = graph /\ setting' = setting /\ pool' = pool /\ phase' = phase
  BY DEF Finish
<1>2. /\ HeapFits /\ PoolFits(pool, calls, Sources) /\ RootsFit(pool, calls, root, roots)
      /\ PhaseFits(pool, calls, phase)
      /\ Indexed(pool)
  BY PoolIndexed DEF IInv
<1>3. root \in Objects /\ root \in Present(pool) /\ roots \in Seq(RootType)
  BY <1>1, <1>2 DEF RootsFit
<1>4. /\ getObjectId(pool, root) \in IdsOf(pool)
      /\ Obj(pool, getObjectId(pool, root)) = root
      /\ getObjectId(pool, root) \in Int
  <2>1. PICK id \in IdsOf(pool) : Obj(pool, id) = root
    BY <1>3 DEF Present
  <2> QED BY <1>2, <1>3, <2>1, IdFound, EntryTyped DEF Indexed
<1>5. rec \in RootType /\ rec.obj = root /\ rec.id = getObjectId(pool, root)
  BY <1>3, <1>4 DEF RootType
<1> HIDE DEF rec
<1>6. /\ roots' \in Seq(RootType)
      /\ DOMAIN roots' = DOMAIN roots \cup {Len(roots) + 1}
      /\ \A i \in DOMAIN roots : roots'[i] = roots[i]
      /\ roots'[Len(roots) + 1] = rec
  BY <1>1, <1>3, <1>5
<1>7. Sources' = Sources
  <2>1. Sources' = {roots'[i].obj : i \in DOMAIN roots'}
    BY <1>1 DEF Sources
  <2>2. Sources = {roots[i].obj : i \in DOMAIN roots} \cup {root}
    BY <1>1 DEF Sources
  <2> QED BY <1>5, <1>6, <2>1, <2>2
<1>8. PoolFits(pool', calls', Sources')
  <2>1. CASE pool.thrown
    <3>1. CallsFit(pool, <<>>)
      BY DEF CallsFit
    <3> QED BY <1>1, <1>2, <1>7, <2>1, <3>1 DEF PoolFits
  <2>2. CASE ~pool.thrown
    BY <1>1, <1>2, <1>7, <2>2
  <2> QED BY <2>1, <2>2
<1>9. RootsFit(pool', calls', root', roots')
  BY <1>1, <1>2, <1>4, <1>5, <1>6 DEF RootsFit
<1>10. PhaseFits(pool', calls', phase')
  BY <1>1, <1>2 DEF PhaseFits
<1> QED BY <1>1, <1>8, <1>9, <1>10, InvariantNext

\* The tags of a pool are cleared with it.
LEMMA TagsAreCleared ==
  ASSUME Indexed(pool)
  PROVE  TagsCleared = [o \in Objects |-> 0]
<1> SUFFICES ASSUME NEW o \in Objects
             PROVE  (IF setting.byTag /\ pool.tag[o] \in 1..pool.number THEN 0 ELSE pool.tag[o]) = 0
  BY DEF TagsCleared
<1>1. CASE setting.byTag /\ o \in Present(pool)
  <2>1. PICK id \in IdsOf(pool) : Obj(pool, id) = o
    BY <1>1 DEF Present
  <2>2. pool.tag[o] = id + 1 /\ pool.number = Len(pool.objs) /\ Len(pool.objs) \in Nat
    BY <1>1, <2>1 DEF Indexed, Tagged, Numbered, PoolTyped, PoolType
  <2>3. pool.tag[o] \in 1..pool.number
    BY <2>1, <2>2 DEF IdsOf
  <2> QED BY <1>1, <2>3
<1>2. CASE ~(setting.byTag /\ o \in Present(pool))
  BY <1>2 DEF Indexed, Tagged
<1> QED BY <1>1, <1>2

\* A dump ends.
LEMMA EndDumpFits ==
  ASSUME IInv, EndDump
  PROVE  IInv'
<1>1. /\ pool' = NewPool(TagsCleared, pool.depth)
      /\ roots' = <<>> /\ root' = NoObject /\ calls' = <<>> /\ phase' = "variables"
      /\ graph' = graph /\ setting' = setting
  BY DEF EndDump
<1>2. HeapFits /\ Indexed(pool) /\ EntriesFit(pool)
  BY PoolIndexed DEF IInv
<1>3. TagsCleared = [o \in Objects |-> 0]
  BY <1>2, TagsAreCleared
<1>4. pool.depth \in 0..setting.nest
  BY <1>2 DEF EntriesFit, Indexed, PoolTyped, PoolType, HeapFits, HeapTyped
<1>5. Sources' = {}
  BY <1>1 DEF Sources
<1>6. PoolFits(pool', calls', Sources') /\ pool'.objs = <<>>
  BY <1>1, <1>2, <1>3, <1>4, <1>5, EmptyFits
<1>7. RootsFit(pool', calls', root', roots')
  BY <1>1 DEF RootsFit
<1>8. PhaseFits(pool', calls', phase')
  BY <1>1, <1>6 DEF PhaseFits
<1> QED BY <1>1, <1>6, <1>7, <1>8, InvariantNext

\* Nothing happens.
LEMMA StutterFits ==
  ASSUME IInv, UNCHANGED vars
  PROVE  IInv'
<1>1. /\ pool' = pool /\ calls' = calls /\ root' = root /\ roots' = roots /\ phase' = phase
      /\ graph' = graph /\ setting' = setting
  BY DEF vars
<1>2. Sources' = Sources
  BY <1>1 DEF Sources
<1> QED BY <1>1, <1>2, InvariantNext DEF IInv

\* The objects of a heap can be told apart by their hash codes, or they cannot, for good.
LEMMA DistinctStays ==
  ASSUME [Next]_vars
  PROVE  graph' = graph /\ setting' = setting /\ (Distinct' <=> Distinct)
<1>1. graph' = graph /\ setting' = setting
  BY DEF Next, Variable, ObjRefIdFromObjectPool, Start, MeetMember, NoteMember, Return,
         Finish, EndDump, vars
<1> QED BY <1>1 DEF Distinct, HashesDiffer

\* If the pool can tell the objects apart, the inductive invariant holds.
THEOREM IInvHolds == Spec => [](Distinct => IInv)
<1>1. Init => (Distinct => IInv)
  BY InitFits
<1>2. (Distinct => IInv) /\ [Next]_vars => (Distinct => IInv)'
  <2>1. IInv /\ [Next]_vars => IInv'
    BY VariableFits, ObjRefIdFits, MeetMemberFits, NoteMemberFits, ReturnStepFits, FinishFits,
       EndDumpFits, StutterFits
    DEF Next
  <2> QED BY <2>1, DistinctStays
<1> QED BY <1>1, <1>2, PTL DEF Spec

-----------------------------------------------------------------------------
(* What holds of any heap, also if objects share a hash code: then the entry *)
(* that a call is for may be that of another object, with other members.     *)

LayersTyped(p) ==
  p.depth <= setting.nest /\ \A id \in IdsOf(p) : Entry(p, id).layer \in -1..setting.nest

CallTyped(p, call) ==
  /\ call.id \in IdsOf(p)
  /\ call.next \in 1..(Len(graph.field[call.obj]) + 1)
  /\ call.shown => call.next <= Len(graph.field[call.obj])
  /\ call.nPos = call.nObjNumberBak /\ call.nPos \in (call.id + 1)..Len(p.objs)

\* A call found the entries of the calls before it.
Nested(c) == \A j, k \in DOMAIN c : j < k => c[j].nPos <= c[k].nPos

\* The calls have counted up the depth.
CountedBy(b, c, depth) ==
  /\ b \in [0..Len(c) -> Nat] /\ b[Len(c)] = depth
  /\ \A k \in DOMAIN c : b[k] = b[k - 1] + Levels(c[k].obj)

Counted(c, depth) == \E b : CountedBy(b, c, depth)

Typed(p, c) ==
  /\ Indexed(p) /\ LayersTyped(p)
  /\ c \in Seq(CallType) /\ \A k \in DOMAIN c : CallTyped(p, c[k])
  /\ Nested(c) /\ Counted(c, p.depth)

TypeInv ==
  /\ HeapTyped
  /\ Typed(pool, calls)
  /\ root \in Objects \cup {NoObject} /\ phase \in {"variables", "objects"}

\* An entry was changed, and perhaps others were removed that the calls do not need.
LEMMA RewrittenTyped ==
  ASSUME NEW p, NEW c, Typed(p, c), NEW q, NEW n, NEW id, NEW e, Rewritten(p, q, n, id, e),
         setting.byTag => n = Len(p.objs), e.layer \in -1..setting.nest, q.depth <= setting.nest,
         NEW d \in Seq(CallType),
         \A k \in DOMAIN d : CallTyped(p, d[k]) /\ d[k].nPos <= n,
         Nested(d), Counted(d, q.depth)
  PROVE  Typed(q, d)
<1>1. /\ Indexed(q) /\ n \in Nat /\ Len(p.objs) \in Nat
      /\ IdsOf(q) = 0..(n - 1) /\ IdsOf(q) \subseteq IdsOf(p) /\ Entry(q, id) = e
      /\ \A j \in IdsOf(q) : j # id => Entry(q, j) = Entry(p, j)
      /\ Len(q.objs) = n
  <2>1. Indexed(p) /\ Len(q.objs) = n
    BY DEF Typed, Rewritten
  <2> QED BY <2>1, RewrittenIs
<1>2. LayersTyped(q)
  BY <1>1 DEF LayersTyped, Typed
<1>3. ASSUME NEW k \in DOMAIN d PROVE CallTyped(q, d[k])
  <2>1. d[k] \in CallType /\ CallTyped(p, d[k]) /\ d[k].nPos <= n
    OBVIOUS
  <2>2. d[k].nPos \in (d[k].id + 1)..n /\ d[k].id \in 0..(n - 1)
    BY <1>1, <2>1 DEF CallTyped, CallType, IdsOf
  <2> QED BY <1>1, <2>1, <2>2 DEF CallTyped
<1> QED BY <1>1, <1>2, <1>3 DEF Typed

\* Calls that there were
LEMMA TypedCalls ==
  ASSUME NEW p, NEW c, Typed(p, c)
  PROVE  /\ c \in Seq(CallType) /\ DOMAIN c = 1..Len(c) /\ Len(c) \in Nat /\ Len(p.objs) \in Nat
         /\ \A k \in DOMAIN c : /\ c[k] \in CallType /\ CallTyped(p, c[k]) /\ c[k].id \in IdsOf(p)
                                /\ c[k].nPos <= Len(p.objs)
         /\ PoolTyped(p) /\ p.depth \in Nat
<1>1. c \in Seq(CallType) /\ DOMAIN c = 1..Len(c) /\ Len(c) \in Nat /\ PoolTyped(p)
  BY DEF Typed, Indexed
<1>2. Len(p.objs) \in Nat /\ p.depth \in Nat
  BY <1>1 DEF PoolTyped, PoolType
<1>3. ASSUME NEW k \in DOMAIN c
      PROVE  /\ c[k] \in CallType /\ CallTyped(p, c[k]) /\ c[k].id \in IdsOf(p)
             /\ c[k].nPos <= Len(p.objs)
  <2>1. c[k] \in CallType /\ CallTyped(p, c[k])
    BY <1>1 DEF Typed
  <2> QED BY <1>2, <2>1 DEF CallTyped, CallType
<1> QED BY <1>1, <1>2, <1>3

\* The entry that an object gets, or that it is taken for
LEMMA InternTyped ==
  ASSUME HeapTyped, NEW p, NEW c, Typed(p, c), NEW o \in Objects
  PROVE  Typed(Intern(p, o), c) /\ getObjectId(Intern(p, o), o) \in IdsOf(Intern(p, o))
<1>1. CASE Key(p, o) \in DOMAIN p.map
  <2>1. getObjectId(p, o) \in IdsOf(p) /\ Intern(p, o) = p
    BY <1>1, IdIs DEF Typed, Intern
  <2> QED BY <2>1
<1>2. CASE Key(p, o) \notin DOMAIN p.map
  <2> DEFINE q == addObject(p, o)
  <2>1. Intern(p, o) = q
    BY <1>2, IdIs DEF Typed, Intern
  <2>2. Grown(p, q, o) /\ Indexed(q)
    BY <1>2, AddIs DEF Typed
  <2> HIDE DEF q
  <2>3. /\ IdsOf(q) = IdsOf(p) \cup {Len(p.objs)} /\ Len(p.objs) \in Nat
        /\ Obj(q, Len(p.objs)) = o /\ Len(q.objs) = Len(p.objs) + 1
        /\ q.depth = p.depth /\ \A id \in IdsOf(p) : Entry(q, id) = Entry(p, id)
        /\ Entry(q, Len(p.objs)).layer = -1
    BY <2>2, TypedCalls, GrownIds DEF Grown, NewEntry
  <2>4. Key(q, o) \in DOMAIN q.map
    BY <2>2, <2>3 DEF Indexed, Numbered
  <2>5. getObjectId(q, o) \in IdsOf(q)
    BY <2>2, <2>4, IdIs
  <2>6. LayersTyped(q)
    BY <2>3 DEF Typed, LayersTyped, HeapTyped
  <2>7. ASSUME NEW k \in DOMAIN c PROVE CallTyped(q, c[k])
    <3>1. c[k] \in CallType /\ CallTyped(p, c[k])
      BY TypedCalls
    <3>2. c[k].nPos \in (c[k].id + 1)..Len(q.objs)
      BY <2>3, <3>1 DEF CallTyped, CallType
    <3> QED BY <2>3, <3>1, <3>2 DEF CallTyped
  <2> QED BY <2>1, <2>2, <2>3, <2>5, <2>6, <2>7 DEF Typed
<1> QED BY <1>1, <1>2

\* expandObject, whose entry may be that of another object
LEMMA ExpandTyped ==
  ASSUME HeapTyped, NEW p, NEW c, Typed(p, c), NEW id \in IdsOf(p), NEW o \in Objects,
         NEW layer \in 0..setting.nest, expandObject(p, id, o, layer, c)
  PROVE  Typed(pool', calls')
<1> DEFINE r == EnterObject(p, id, layer)
           e == Layered(p, id, layer)
           n == Len(p.objs)
           call == NewCall(p, id, o)
<1>0. /\ Indexed(p) /\ layer \in Nat /\ n \in Nat /\ id \in 0..(n - 1)
      /\ Entry(p, id) \in EntryType /\ setting.nest \in Nat
  BY TypedCalls, EntryTyped DEF Typed, Indexed, IdsOf, HeapTyped
<1>1. /\ Enters(p, r, id, layer) /\ r.depth = p.depth
      /\ \A depth \in Nat : /\ Enters(p, [r EXCEPT !.depth = depth], id, layer)
                            /\ [r EXCEPT !.depth = depth].depth = depth
  BY <1>0, EnterIs
<1>2. e.layer = layer /\ e \in EntryType
  BY <1>0 DEF EntryType, Layered
<1>3. /\ call \in CallType /\ call.id = id /\ call.obj = o /\ call.next = 1 /\ ~call.shown
      /\ call.nPos = n /\ call.nObjNumberBak = n
  BY <1>0, NewCallIs
<1>4. \/ pool' = p /\ calls' = c
      \/ /\ WithinDepth(p, o)
         /\ pool' = [r EXCEPT !.depth = @ + Levels(o)] /\ calls' = Append(c, call)
      \/ pool' = LeaveObject(r, id, o, n, n) /\ calls' = c
  <2> HIDE DEF r, n
  <2> QED BY <1>3 DEF expandObject, r
<1> HIDE DEF r, e, call
<1>5. CASE pool' = p /\ calls' = c
  BY <1>5
<1>6. CASE /\ WithinDepth(p, o)
           /\ pool' = [r EXCEPT !.depth = @ + Levels(o)] /\ calls' = Append(c, call)
  <2> DEFINE depth == p.depth + Levels(o)
             q == [r EXCEPT !.depth = depth]
             d == Append(c, call)
             m == Len(c) + 1
  <2>1. depth \in Nat /\ depth <= setting.nest /\ p.depth \in Nat
    BY <1>6, TypedCalls DEF WithinDepth, Levels
  <2>2. pool' = q /\ calls' = d
    BY <1>1, <1>6
  <2>3. Rewritten(p, q, n, id, e) /\ q.depth = depth
    <3> HIDE DEF depth
    <3> QED BY <1>1, <2>1 DEF Enters, e
  <2>4. /\ c \in Seq(CallType) /\ DOMAIN c = 1..Len(c) /\ Len(c) \in Nat
        /\ \A k \in DOMAIN c : /\ c[k] \in CallType /\ CallTyped(p, c[k]) /\ c[k].nPos <= n
    BY TypedCalls
  <2>5. /\ d \in Seq(CallType) /\ DOMAIN d = DOMAIN c \cup {m} /\ Len(d) = m
        /\ \A k \in DOMAIN c : d[k] = c[k] /\ k < m
        /\ d[m] = call
    BY <1>3, <2>4
  <2> HIDE DEF depth, d, q
  <2>6. CallTyped(p, call)
    <3>1. graph.field[o] \in Seq(Objects \cup {NoObject})
      BY DEF HeapTyped
    <3>2. Len(graph.field[o]) \in Nat
      BY <3>1
    <3> QED BY <1>0, <1>3, <3>2 DEF CallTyped
  <2>7. \A k \in DOMAIN d : CallTyped(p, d[k]) /\ d[k].nPos <= n
    BY <1>0, <1>3, <2>4, <2>5, <2>6
  <2>8. Nested(d)
    <3>1. Nested(c)
      BY DEF Typed
    <3> SUFFICES ASSUME NEW j \in DOMAIN d, NEW k \in DOMAIN d, j < k
                 PROVE  d[j].nPos <= d[k].nPos
      BY DEF Nested
    <3>2. j \in DOMAIN c
      BY <2>4, <2>5
    <3>3. CASE k \in DOMAIN c
      BY <2>5, <3>1, <3>2, <3>3 DEF Nested
    <3>4. CASE k = m
      BY <1>3, <2>4, <2>5, <3>2, <3>4
    <3> QED BY <2>5, <3>3, <3>4
  <2>9. Counted(d, depth)
    <3>1. PICK b : CountedBy(b, c, p.depth)
      BY DEF Typed, Counted
    <3> DEFINE a == [k \in 0..m |-> IF k = m THEN depth ELSE b[k]]
    <3>2. a \in [0..m -> Nat] /\ a[m] = depth /\ \A k \in 0..Len(c) : a[k] = b[k]
      BY <2>1, <2>4, <3>1 DEF CountedBy
    <3> HIDE DEF a
    <3>3. ASSUME NEW k \in DOMAIN c PROVE a[k] = a[k - 1] + Levels(d[k].obj)
      <4>1. k \in 0..Len(c) /\ k - 1 \in 0..Len(c)
        BY <2>4
      <4> QED BY <2>5, <3>1, <3>2, <4>1 DEF CountedBy
    <3>4. a[m] = a[m - 1] + Levels(d[m].obj)
      <4>1. m - 1 = Len(c) /\ Len(c) \in 0..Len(c)
        BY <2>4
      <4>2. a[m - 1] = p.depth
        BY <3>1, <3>2, <4>1 DEF CountedBy
      <4> QED BY <1>3, <2>5, <3>2, <4>2 DEF depth
    <3>5. CountedBy(a, d, depth)
      BY <2>5, <3>2, <3>3, <3>4 DEF CountedBy
    <3> QED BY <3>5 DEF Counted
  <2>10. e.layer \in -1..setting.nest
    BY <1>2
  <2>11. Typed(q, d)
    BY <2>1, <2>3, <2>5, <2>7, <2>8, <2>9, <2>10, RewrittenTyped
  <2> QED BY <2>2, <2>11
<1>7. CASE pool' = LeaveObject(r, id, o, n, n) /\ calls' = c
  <2> DEFINE q == LeaveObject(r, id, o, n, n)
             l == IF Filters(r, id) THEN Bare(r, id, o) ELSE Entry(r, id)
  <2>1. Rewritten(p, r, n, id, e)
    BY <1>1 DEF Enters, e
  <2>2. Indexed(r) /\ IdsOf(r) = IdsOf(p) /\ Entry(r, id) = e /\ Len(r.objs) = n
    <3>1. Len(r.objs) = n
      BY <2>1 DEF Rewritten
    <3> QED BY <1>0, <2>1, <3>1, RewrittenIs
  <2>3. /\ Rewritten(r, q, IF Filters(r, id) THEN n ELSE Len(r.objs), id, l)
        /\ q.depth = r.depth
    <3>1. n \in (id + 1)..Len(r.objs)
      BY <1>0, <2>2
    <3> HIDE DEF n
    <3> QED BY <2>2, <3>1, LeaveIs
  <2>4. Rewritten(r, q, n, id, l)
    <3>1. (IF Filters(r, id) THEN n ELSE Len(r.objs)) = n
      BY <2>2
    <3> QED BY <2>3, <3>1
  <2>5. l.layer = layer
    BY <1>2, <2>2, BareIs DEF Bare
  <2> HIDE DEF q, l
  <2>6. Rewritten(p, q, n, id, l)
    BY <1>0, <2>1, <2>4, RewrittenTwice
  <2>7. /\ q.depth = p.depth /\ p.depth <= setting.nest /\ l.layer \in -1..setting.nest
        /\ Nested(c) /\ Counted(c, p.depth)
    BY <1>0, <1>1, <2>3, <2>5 DEF Typed, LayersTyped
  <2>8. c \in Seq(CallType) /\ \A k \in DOMAIN c : CallTyped(p, c[k]) /\ c[k].nPos <= n
    BY TypedCalls
  <2>9. Typed(q, c)
    BY <2>6, <2>7, <2>8, RewrittenTyped
  <2> QED BY <1>7, <2>9 DEF q
<1> QED BY <1>4, <1>5, <1>6, <1>7

\* Show, with the two above
LEMMA ShowTyped ==
  ASSUME HeapTyped, NEW p, NEW c, Typed(p, c), NEW o \in Objects,
         NEW layer \in 0..setting.nest, Show(p, o, layer, c)
  PROVE  Typed(pool', calls')
<1> DEFINE q == Intern(p, o)
           id == getObjectId(q, o)
<1>1. Typed(q, c) /\ id \in IdsOf(q)
  BY InternTyped
<1>2. expandObject(q, id, o, layer, c)
  BY DEF Show
<1> HIDE DEF q, id
<1> QED BY <1>1, <1>2, ExpandTyped

\* Calls with other members to come to
LEMMA SameCallsTyped ==
  ASSUME NEW p, NEW c, Typed(p, c), NEW d \in Seq(CallType), Len(d) = Len(c), DOMAIN d = DOMAIN c,
         \A k \in DOMAIN c : d[k].obj = c[k].obj /\ d[k].nPos = c[k].nPos
  PROVE  Nested(d) /\ Counted(d, p.depth)
<1>1. Nested(c) /\ Nested(d)
  BY DEF Typed, Nested
<1>2. PICK b : CountedBy(b, c, p.depth)
  BY DEF Typed, Counted
<1>3. CountedBy(b, d, p.depth)
  BY <1>2 DEF CountedBy
<1> QED BY <1>1, <1>3 DEF Counted

\* The innermost call
LEMMA TopTyped ==
  ASSUME TypeInv, Searching
  PROVE  /\ Call = calls[Len(calls)] /\ Len(calls) \in DOMAIN calls /\ calls # <<>>
         /\ Call \in CallType /\ CallTyped(pool, Call) /\ Call.id \in IdsOf(pool)
         /\ Field = graph.field[Call.obj] /\ Field \in Seq(Objects \cup {NoObject})
         /\ Typed(pool, calls) /\ pool.depth \in 0..setting.nest
<1>1. calls # <<>> /\ Typed(pool, calls) /\ HeapTyped
  BY DEF TypeInv, Searching
<1>2. Len(calls) \in DOMAIN calls /\ Call = calls[Len(calls)]
  BY <1>1, TypedCalls DEF Call, Top
<1>3. Call \in CallType /\ CallTyped(pool, Call) /\ Call.id \in IdsOf(pool)
  BY <1>1, <1>2, TypedCalls
<1>4. Field = graph.field[Call.obj] /\ Field \in Seq(Objects \cup {NoObject})
  BY <1>1, <1>3 DEF Field, CallType, HeapTyped
<1>5. pool.depth \in 0..setting.nest
  BY <1>1, TypedCalls DEF Typed, LayersTyped, HeapTyped
<1> QED BY <1>1, <1>2, <1>3, <1>4, <1>5

LEMMA MeetMemberTyped ==
  ASSUME TypeInv, MeetMember
  PROVE  Typed(pool', calls')
<1> DEFINE d == Marked(calls)
<1>1. /\ Searching /\ ~Call.shown /\ Call.next <= Len(Field)
      /\ IF Member = NoObject THEN pool' = pool /\ calls' = d ELSE Show(pool, Member, pool.depth, d)
  BY DEF MeetMember, Marked, Top
<1>2. /\ Call = calls[Len(calls)] /\ Len(calls) \in DOMAIN calls /\ calls # <<>>
      /\ Call \in CallType /\ CallTyped(pool, Call)
      /\ Field = graph.field[Call.obj] /\ Field \in Seq(Objects \cup {NoObject})
      /\ Typed(pool, calls) /\ pool.depth \in 0..setting.nest
  BY <1>1, TopTyped
<1>3. /\ d \in Seq(CallType) /\ Len(d) = Len(calls) /\ DOMAIN d = DOMAIN calls
      /\ \A k \in DOMAIN calls :
           /\ d[k].id = calls[k].id /\ d[k].obj = calls[k].obj /\ d[k].next = calls[k].next
           /\ d[k].nPos = calls[k].nPos /\ d[k].nObjNumberBak = calls[k].nObjNumberBak
           /\ k # Len(calls) => d[k].shown = calls[k].shown
  BY <1>2, MarkedIs DEF Typed
<1> HIDE DEF d
<1>4. Typed(pool, d)
  <2>1. Nested(d) /\ Counted(d, pool.depth)
    BY <1>2, <1>3, SameCallsTyped
  <2>2. ASSUME NEW k \in DOMAIN d PROVE CallTyped(pool, d[k])
    <3>1. CallTyped(pool, calls[k])
      BY <1>2, <1>3, TypedCalls
    <3>2. k = Len(calls) => calls[k].next <= Len(graph.field[calls[k].obj])
      BY <1>1, <1>2
    <3> QED BY <1>3, <3>1, <3>2 DEF CallTyped
  <2> QED BY <1>2, <1>3, <2>1, <2>2 DEF Typed
<1>5. CASE Member = NoObject
  BY <1>1, <1>4, <1>5
<1>6. CASE Member # NoObject
  <2>1. Call.next \in DOMAIN Field
    BY <1>1, <1>2 DEF CallTyped, CallType
  <2>2. Member \in Objects
    BY <1>2, <1>6, <2>1 DEF Member
  <2>3. Show(pool, Member, pool.depth, d)
    BY <1>1, <1>6
  <2> QED BY <1>2, <1>4, <2>2, <2>3, ShowTyped DEF TypeInv
<1> QED BY <1>5, <1>6

LEMMA NoteMemberTyped ==
  ASSUME TypeInv, NoteMember
  PROVE  Typed(pool', calls')
<1> DEFINE d == Moved(calls)
           ref == IF Member = NoObject THEN -1 ELSE getObjectId(pool, Member)
<1>1. /\ Searching /\ Call.shown /\ calls' = d
      /\ pool' = IF Call.once THEN pool ELSE WithRef(pool, Call.id, ref)
  BY DEF NoteMember, Moved, WithRef, Top
<1>2. /\ Call = calls[Len(calls)] /\ Len(calls) \in DOMAIN calls /\ calls # <<>>
      /\ Call \in CallType /\ CallTyped(pool, Call) /\ Call.id \in IdsOf(pool)
      /\ Field = graph.field[Call.obj] /\ Field \in Seq(Objects \cup {NoObject})
      /\ Typed(pool, calls) /\ pool.depth \in 0..setting.nest
  BY <1>1, TopTyped
<1>3. /\ d \in Seq(CallType) /\ Len(d) = Len(calls) /\ DOMAIN d = DOMAIN calls
      /\ d[Len(calls)].next = calls[Len(calls)].next + 1 /\ ~d[Len(calls)].shown
      /\ \A k \in DOMAIN calls :
           /\ d[k].id = calls[k].id /\ d[k].obj = calls[k].obj
           /\ d[k].nPos = calls[k].nPos /\ d[k].nObjNumberBak = calls[k].nObjNumberBak
           /\ k # Len(calls) => d[k] = calls[k]
  BY <1>2, MovedIs DEF Typed
<1>4. ref \in Int
  <2>1. Indexed(pool) /\ Len(pool.objs) \in Nat
    BY <1>2, TypedCalls DEF Typed
  <2>2. getObjectId(pool, Member) \in IdsOf(pool) \cup {-1}
    BY <2>1, IdIs DEF getObjectId
  <2> QED BY <2>1, <2>2 DEF IdsOf
<1> HIDE DEF d, ref
<1>5. Nested(d) /\ Counted(d, pool.depth)
  BY <1>2, <1>3, SameCallsTyped
<1>6. ASSUME NEW k \in DOMAIN d PROVE CallTyped(pool, d[k]) /\ d[k].nPos <= Len(pool.objs)
  <2>1. CallTyped(pool, calls[k]) /\ calls[k].nPos <= Len(pool.objs) /\ calls[k] \in CallType
    BY <1>2, <1>3, TypedCalls
  <2>2. CASE k # Len(calls)
    BY <1>3, <2>1, <2>2
  <2>3. CASE k = Len(calls)
    <3>1. Len(Field) \in Nat /\ Call.next <= Len(Field) /\ Call.next \in Nat
      BY <1>1, <1>2 DEF CallTyped, CallType
    <3>2. d[k].next \in 1..(Len(graph.field[d[k].obj]) + 1) /\ ~d[k].shown
      BY <1>2, <1>3, <2>3, <3>1
    <3> QED BY <1>3, <2>1, <3>2 DEF CallTyped
  <2> QED BY <2>2, <2>3
<1>7. CASE Call.once
  <2>1. pool' = pool
    BY <1>1, <1>7
  <2> QED BY <1>1, <1>2, <1>3, <1>5, <1>6, <2>1 DEF Typed
<1>8. CASE ~Call.once
  <2> DEFINE q == WithRef(pool, Call.id, ref)
             e == Noted(pool, Call.id, ref)
  <2>1. Indexed(pool) /\ Entry(pool, Call.id) \in EntryType
    BY <1>2, EntryTyped DEF Typed, Indexed
  <2>2. Rewritten(pool, q, Len(pool.objs), Call.id, e) /\ q.depth = pool.depth
    BY <1>2, <1>4, <2>1, NoteIs DEF TypeInv
  <2>3. e.layer = Entry(pool, Call.id).layer
    BY <2>1 DEF Noted, EntryType
  <2>4. e.layer \in -1..setting.nest /\ pool.depth <= setting.nest
    BY <1>2, <2>3 DEF Typed, LayersTyped
  <2> HIDE DEF q, e
  <2>5. Typed(q, d)
    BY <1>2, <1>3, <1>5, <1>6, <2>2, <2>4, RewrittenTyped
  <2> QED BY <1>1, <1>8, <2>5 DEF q
<1> QED BY <1>7, <1>8

LEMMA ReturnTyped ==
  ASSUME TypeInv, Return
  PROVE  Typed(pool', calls')
<1> DEFINE id == Call.id
           o == Call.obj
           n == Call.nPos
           r == Complete(pool, id, o)
           q == LeaveObject(r, id, o, n, n)
           d == SubSeq(calls, 1, Len(calls) - 1)
           m == IF Filters(r, id) THEN n ELSE Len(r.objs)
           l == IF Filters(r, id) THEN Bare(r, id, o) ELSE Entry(r, id)
<1>1. Searching /\ calls' = d
  BY DEF Return, Top
<1>2. /\ Call = calls[Len(calls)] /\ Len(calls) \in DOMAIN calls /\ calls # <<>>
      /\ Call \in CallType /\ CallTyped(pool, Call) /\ id \in IdsOf(pool)
      /\ Typed(pool, calls) /\ pool.depth \in 0..setting.nest
  BY <1>1, TopTyped
<1>3. pool' = q /\ Call.nObjNumberBak = n
  BY <1>2 DEF Return, CallTyped
<1>4. /\ d \in Seq(CallType) /\ DOMAIN d = 1..Len(d) /\ DOMAIN calls = 1..Len(calls)
      /\ Len(calls) \in Nat /\ Len(d) \in Nat /\ Len(d) = Len(calls) - 1
      /\ \A k \in DOMAIN d : k \in DOMAIN calls /\ d[k] = calls[k]
  BY <1>2, ButLastIs DEF Typed
<1> HIDE DEF d, id, o, n
<1>5. PICK b : CountedBy(b, calls, pool.depth)
  BY <1>2 DEF Typed, Counted
<1>6. b[Len(calls) - 1] \in Nat /\ pool.depth = b[Len(calls) - 1] + Levels(o) /\ Levels(o) \in 0..1
  <2>1. Len(calls) - 1 \in 0..Len(calls)
    BY <1>2, <1>4
  <2> QED BY <1>2, <1>5, <2>1 DEF CountedBy, Levels, o
<1>7. /\ Rewritten(pool, r, Len(pool.objs), id, Completed(pool, id))
      /\ r.depth = pool.depth - Levels(o) /\ r.filtering = pool.filtering /\ r.owner = pool.owner
  <2>1. Levels(o) <= pool.depth
    BY <1>6
  <2> QED BY <1>2, <2>1, CompleteIs DEF Typed
<1> HIDE DEF r
<1>8. /\ Indexed(pool) /\ Indexed(r) /\ IdsOf(r) = IdsOf(pool)
      /\ Entry(r, id) = Completed(pool, id)
      /\ Len(r.objs) = Len(pool.objs) /\ Entry(pool, id) \in EntryType
      /\ Len(pool.objs) \in Nat /\ id \in Nat
  <2>1. Len(r.objs) = Len(pool.objs)
    BY <1>7 DEF Rewritten
  <2> QED BY <1>2, <1>7, <2>1, TypedCalls, RewrittenIs, EntryTyped DEF Typed, Indexed
<1>9. n \in (id + 1)..Len(r.objs)
  BY <1>2, <1>8 DEF CallTyped, n, id
<1>10. Rewritten(r, q, m, id, l) /\ q.depth = r.depth
  BY <1>2, <1>8, <1>9, LeaveIs
<1>11. Rewritten(pool, q, m, id, l)
  <2> HIDE DEF q, m, l
  <2> QED BY <1>7, <1>8, <1>10, RewrittenTwice
<1>12. /\ Completed(pool, id) \in EntryType
       /\ Completed(pool, id).layer = Entry(pool, id).layer
       /\ Completed(pool, id).obj = Obj(pool, id)
  BY <1>8 DEF Completed, EntryType, Obj
<1>13. l.layer \in -1..setting.nest
  <2>1. Entry(pool, id).layer \in -1..setting.nest
    BY <1>2 DEF Typed, LayersTyped
  <2>2. l.layer = Entry(pool, id).layer
    BY <1>8, <1>12, BareIs DEF Bare
  <2> QED BY <2>1, <2>2
<1>14. setting.byTag => m = Len(pool.objs)
  <2>1. ASSUME IsFiltered(r, id) PROVE ~setting.byTag
    <3>1. Obj(pool, id) \in Objects
      BY <1>2, <1>8, EntryTyped DEF Indexed
    <3>2. Kind(Obj(pool, id)) \in Filtered
      BY <1>8, <1>12, <2>1 DEF IsFiltered, Obj
    <3> QED BY <3>1, <3>2 DEF TypeInv, HeapTyped, HasValues, Kind
  <2> QED BY <1>8, <2>1 DEF Filters
<1>15. ASSUME NEW k \in DOMAIN d PROVE CallTyped(pool, d[k]) /\ d[k].nPos <= m
  <2>1. /\ calls[k] \in CallType /\ CallTyped(pool, calls[k]) /\ calls[k].nPos <= Len(pool.objs)
        /\ d[k] = calls[k] /\ k \in DOMAIN calls
    BY <1>2, <1>4, TypedCalls
  <2>2. calls[k].nPos <= n
    <3>1. k < Len(calls)
      BY <1>4
    <3> QED BY <1>2, <2>1, <3>1 DEF Typed, Nested, n
  <2> QED BY <1>8, <2>1, <2>2
<1>16. Nested(d)
  BY <1>2, <1>4 DEF Typed, Nested
<1>17. Counted(d, q.depth) /\ q.depth <= setting.nest
  <2> DEFINE a == [k \in 0..Len(d) |-> b[k]]
  <2>1. q.depth = b[Len(d)]
    BY <1>4, <1>6, <1>7, <1>10
  <2>2. \A k \in 0..Len(d) : k \in 0..Len(calls)
    BY <1>4
  <2>3. a \in [0..Len(d) -> Nat] /\ \A k \in 0..Len(d) : a[k] = b[k]
    BY <1>5, <2>2 DEF CountedBy
  <2> HIDE DEF a
  <2>4. ASSUME NEW k \in DOMAIN d PROVE a[k] = a[k - 1] + Levels(d[k].obj)
    <3>1. k \in 0..Len(d) /\ k - 1 \in 0..Len(d) /\ k \in DOMAIN calls /\ d[k] = calls[k]
      BY <1>4
    <3> QED BY <1>5, <2>3, <3>1 DEF CountedBy
  <2>5. a[Len(d)] = q.depth
    BY <1>4, <2>1, <2>3
  <2>6. CountedBy(a, d, q.depth)
    BY <2>3, <2>4, <2>5 DEF CountedBy
  <2>7. q.depth <= setting.nest
    <3>1. setting.nest \in Nat
      BY DEF TypeInv, HeapTyped
    <3>2. q.depth = pool.depth - Levels(o)
      BY <1>7, <1>10
    <3> HIDE DEF q
    <3> QED BY <1>2, <1>6, <3>1, <3>2
  <2> QED BY <2>6, <2>7 DEF Counted
<1> HIDE DEF q, m, l
<1>18. Typed(q, d)
  BY <1>2, <1>4, <1>11, <1>13, <1>14, <1>15, <1>16, <1>17, RewrittenTyped
<1> QED BY <1>1, <1>3, <1>18

\* A search starts: there are no calls.
LEMMA NoCallsTyped ==
  ASSUME HeapTyped, NEW p, Indexed(p), LayersTyped(p)
  PROVE  Typed(p, <<>>)
<1>1. CountedBy([k \in 0..0 |-> p.depth], <<>>, p.depth)
  <2>1. p.depth \in Nat
    BY DEF Indexed, PoolTyped, PoolType
  <2> QED BY <2>1 DEF CountedBy
<1>2. Counted(<<>>, p.depth) /\ Nested(<<>>) /\ <<>> \in Seq(CallType)
  BY <1>1 DEF Counted, Nested
<1> QED BY <1>2 DEF Typed

\* A pool without entries
LEMMA EmptyTyped ==
  ASSUME HeapTyped, NEW depth \in 0..setting.nest
  PROVE  Typed(NewPool([o \in Objects |-> 0], depth), <<>>)
<1> DEFINE p == NewPool([o \in Objects |-> 0], depth)
<1>1. setting.nest \in Nat /\ depth \in Nat
  BY DEF HeapTyped
<1>2. /\ p.objs = <<>> /\ p.number = 0 /\ p.map = <<>> /\ p.depth = depth
      /\ p.tag = [o \in Objects |-> 0] /\ p \in PoolType(p.map)
  BY <1>1 DEF NewPool, PoolType
<1> HIDE DEF p
<1>3. Len(p.objs) = 0 /\ IdsOf(p) = {} /\ Present(p) = {}
  BY <1>2 DEF IdsOf, Present
<1>4. Indexed(p)
  BY <1>2, <1>3 DEF Indexed, PoolTyped, Numbered, Tagged
<1>5. LayersTyped(p)
  BY <1>1, <1>2, <1>3 DEF LayersTyped
<1>6. Typed(p, <<>>)
  BY <1>4, <1>5, NoCallsTyped
<1> QED BY <1>6 DEF p

\* The pool that a variable is shown from has the depth 0.
LEMMA DepthTyped ==
  ASSUME HeapTyped, NEW p, Indexed(p), LayersTyped(p)
  PROVE  Typed([p EXCEPT !.depth = 0], <<>>)
<1> DEFINE q == [p EXCEPT !.depth = 0]
<1>1. setting.nest \in Nat /\ p \in PoolType(p.map)
  BY DEF HeapTyped, Indexed, PoolTyped
<1>2. /\ q \in PoolType(p.map) /\ q.objs = p.objs /\ q.number = p.number /\ q.map = p.map
      /\ q.tag = p.tag /\ q.depth = 0
  BY <1>1 DEF PoolType
<1> HIDE DEF q
<1>3. /\ IdsOf(q) = IdsOf(p) /\ Present(q) = Present(p)
      /\ \A id : Entry(q, id) = Entry(p, id) /\ Obj(q, id) = Obj(p, id)
      /\ \A o : Key(q, o) = Key(p, o)
  BY <1>2 DEF IdsOf, Present, Entry, Obj, Key
<1>4. Indexed(q)
  BY <1>2, <1>3 DEF Indexed, PoolTyped, Numbered, Tagged
<1>5. LayersTyped(q)
  BY <1>1, <1>2, <1>3 DEF LayersTyped
<1>6. Typed(q, <<>>)
  BY <1>4, <1>5, NoCallsTyped
<1> QED BY <1>6 DEF q

\* It is enough to show the invariant of the next pool in the heap and setting of this one.
LEMMA TypedSame ==
  ASSUME graph' = graph, setting' = setting, NEW p, NEW c
  PROVE  (HeapTyped' <=> HeapTyped) /\ (Typed(p, c)' <=> Typed(p, c))
<1>1. HeapTyped' <=> HeapTyped
  BY DEF HeapTyped, HasValues, Kind
<1>2. Indexed(p)' <=> Indexed(p)
  BY DEF Indexed, PoolTyped, Numbered, Tagged, Key, IdsOf, Entry, Obj, Present
<1>3. LayersTyped(p)' <=> LayersTyped(p)
  BY DEF LayersTyped, IdsOf, Entry
<1>4. \A k : CallTyped(p, c[k])' <=> CallTyped(p, c[k])
  BY DEF CallTyped, IdsOf
<1>5. Counted(c, p.depth)' <=> Counted(c, p.depth)
  BY DEF Counted, CountedBy, Levels, Kind
<1> QED BY <1>1, <1>2, <1>3, <1>4, <1>5 DEF Typed, Nested

\* The types are kept by every step.
LEMMA TypeInvStep ==
  ASSUME TypeInv, [Next]_vars
  PROVE  TypeInv'
<1>1. graph' = graph /\ setting' = setting
  BY DistinctStays
<1>2. /\ HeapTyped /\ Typed(pool, calls) /\ Indexed(pool) /\ LayersTyped(pool)
      /\ pool.depth \in 0..setting.nest /\ 0 \in 0..setting.nest
  BY TypedCalls DEF TypeInv, Typed, LayersTyped, HeapTyped
<1>3. Typed(pool', calls')
  <2>1. ASSUME NEW o \in Objects, Variable(o) PROVE Typed(pool', calls')
    <3>1. Show([pool EXCEPT !.depth = 0], o, 0, <<>>)
      BY <2>1 DEF Variable
    <3> QED BY <1>2, <3>1, DepthTyped, ShowTyped
  <2>2. ASSUME NEW o \in Objects, ObjRefIdFromObjectPool(o) PROVE Typed(pool', calls')
    <3>1. Show(pool, o, 0, <<>>)
      BY <2>2 DEF ObjRefIdFromObjectPool
    <3> QED BY <1>2, <3>1, NoCallsTyped, ShowTyped
  <2>3. ASSUME Finish PROVE Typed(pool', calls')
    <3>1. pool' = pool /\ calls' = <<>>
      BY <2>3 DEF Finish
    <3> QED BY <1>2, <3>1, NoCallsTyped
  <2>4. ASSUME EndDump PROVE Typed(pool', calls')
    <3>1. pool' = NewPool([o \in Objects |-> 0], pool.depth) /\ calls' = <<>>
      BY <1>2, <2>4, TagsAreCleared DEF EndDump
    <3> QED BY <1>2, <3>1, EmptyTyped
  <2>5. ASSUME UNCHANGED vars PROVE Typed(pool', calls')
    BY <1>2, <2>5 DEF vars
  <2> QED BY <2>1, <2>2, <2>3, <2>4, <2>5, MeetMemberTyped, NoteMemberTyped, ReturnTyped DEF Next
<1>4. root' \in Objects \cup {NoObject} /\ phase' \in {"variables", "objects"}
  BY DEF TypeInv, Next, Variable, ObjRefIdFromObjectPool, Start, MeetMember, NoteMember, Return,
         Finish, EndDump, vars
<1> QED BY <1>1, <1>2, <1>3, <1>4, TypedSame DEF TypeInv

\* The variables have their types, for any heap, and the depth counted while fields and
\* array elements are dumped (Attribute, ObjectPool::addArrayElements) stays within the
\* nest depth.
THEOREM TypesHold == Spec => []TypeOK
<1>1. Init => TypeInv
  <2> SUFFICES ASSUME Init PROVE TypeInv
    OBVIOUS
  <2>1. HeapTyped
    BY InitTyped
  <2>2. 0 \in 0..setting.nest
    BY <2>1 DEF HeapTyped
  <2>3. Typed(NewPool([o \in Objects |-> 0], 0), <<>>)
    BY <2>1, <2>2, EmptyTyped
  <2> QED BY <2>1, <2>3 DEF TypeInv, Init
<1>2. TypeInv /\ [Next]_vars => TypeInv'
  BY TypeInvStep
<1>3. ASSUME TypeInv PROVE TypeOK
  <2>1. HeapTyped /\ Typed(pool, calls) /\ Indexed(pool) /\ LayersTyped(pool)
    BY <1>3 DEF TypeInv, Typed
  <2>2. Ids = IdsOf(pool) /\ PoolTyped(pool)
    BY <2>1 DEF Ids, IdsOf, Indexed
  <2>3. pool.number = Len(pool.objs)
    BY <2>1 DEF Indexed, Numbered
  <2>4. ASSUME NEW id \in Ids
        PROVE  LET e == Entry(pool, id) IN
                 /\ e.obj \in Objects
                 /\ e.layer \in -1..setting.nest
                 /\ e.once \in BOOLEAN /\ e.expanded \in BOOLEAN
                 /\ \A i \in DOMAIN e.refs : e.refs[i] \in Int
    <3>1. Entry(pool, id) \in EntryType
      BY <2>2, EntryTyped
    <3>2. Entry(pool, id).layer \in -1..setting.nest
      BY <2>1, <2>2 DEF LayersTyped
    <3>3. Entry(pool, id).refs \in Seq(Int)
      BY <3>1 DEF EntryType
    <3>4. \A i \in DOMAIN Entry(pool, id).refs : Entry(pool, id).refs[i] \in Int
      BY <3>3
    <3> QED BY <3>1, <3>2, <3>4 DEF EntryType
  <2>5. \A k \in DOMAIN pool.map : pool.map[k] \in Ids
    BY <2>1, <2>2 DEF Indexed, Numbered
  <2>6. pool.depth \in 0..setting.nest /\ pool.tag \in [Objects -> Nat]
    BY <2>1, <2>2 DEF LayersTyped, PoolTyped, PoolType, HeapTyped
  <2>7. ASSUME NEW k \in DOMAIN calls
        PROVE  /\ calls[k].id \in Ids
               /\ calls[k].obj \in Objects
               /\ calls[k].next \in 1..Len(graph.field[calls[k].obj]) + 1
               /\ calls[k].nPos \in Nat /\ calls[k].nObjNumberBak \in Nat
    BY <2>1, <2>2, TypedCalls DEF CallTyped, CallType
  <2>8. root \in Objects \cup {NoObject} /\ phase \in {"variables", "objects"}
    BY <1>3 DEF TypeInv
  <2> QED BY <2>3, <2>4, <2>5, <2>6, <2>7, <2>8 DEF TypeOK
<1> QED BY <1>1, <1>2, <1>3, PTL DEF Spec

-----------------------------------------------------------------------------
(* What the invariant says of a dump *)

\* Values own their parts, said of the sources
LEMMA OwnedParts == ValuesOwnTheirParts <=> PartsOwned(Sources)
BY DEF ValuesOwnTheirParts, PartsOwned, Parts, AtDepth

\* Every reference in a dump names the entry of the object that it stands for, also after
\* ObjectPool::filterUselessObject has removed entries and their numbers were given to
\* others, and at any point of the search.
THEOREM RefsNameTheirObjectsHolds == Spec => []RefsNameTheirObjects
<1>1. ASSUME Distinct => IInv PROVE RefsNameTheirObjects
  <2>1. SUFFICES ASSUME PartsOwned(Sources), Distinct PROVE RightNames
    BY OwnedParts DEF RefsNameTheirObjects
  <2>2. RefsRight(pool) /\ RootsFit(pool, calls, root, roots)
    BY <1>1, <2>1 DEF IInv, PoolFits, Sound
  <2>3. Ids = IdsOf(pool)
    BY DEF Ids, IdsOf
  <2>4. \A id \in Ids : LET e == Entry(pool, id) IN
          \A i \in DOMAIN e.refs : e.refs[i] # -1 =>
            e.refs[i] \in Ids /\ \E j \in DOMAIN graph.field[e.obj] :
                                   Entry(pool, e.refs[i]).obj = graph.field[e.obj][j]
    BY <2>2, <2>3 DEF RefsRight, RefRight, FieldOf, Obj
  <2>5. \A i \in DOMAIN roots :
          roots[i].id \in Ids /\ Entry(pool, roots[i].id).obj = roots[i].obj
    BY <2>2, <2>3 DEF RootsFit, Obj
  <2> QED BY <2>4, <2>5 DEF RightNames
<1> QED BY <1>1, IInvHolds, PTL

\* There are as many objects in the pool as entries.
LEMMA PresentCounted ==
  ASSUME NEW p, Indexed(p)
  PROVE  Cardinality(Present(p)) = Len(p.objs)
<1>1. Len(p.objs) \in Nat
  BY KeysCounted
<1> DEFINE f == [id \in IdsOf(p) |-> Obj(p, id)]
<1>2. f \in Bijection(IdsOf(p), Present(p))
  <2>1. f \in [IdsOf(p) -> Present(p)]
    BY DEF Present
  <2>2. \A i, j \in IdsOf(p) : f[i] = f[j] => i = j
    BY OneEntry
  <2>3. \A o \in Present(p) : \E i \in IdsOf(p) : f[i] = o
    BY DEF Present
  <2> HIDE DEF f
  <2> QED BY <2>1, <2>2, <2>3, Fun_IsBij
<1>3. IsFiniteSet(IdsOf(p)) /\ Cardinality(IdsOf(p)) = Len(p.objs)
  <2>1. 0 \in Int /\ Len(p.objs) - 1 \in Int
    BY <1>1
  <2>2. /\ IsFiniteSet(0..(Len(p.objs) - 1))
        /\ Cardinality(0..(Len(p.objs) - 1)) =
             IF 0 > Len(p.objs) - 1 THEN 0 ELSE Len(p.objs) - 1 - 0 + 1
    BY <2>1, FS_Interval
  <2> QED BY <1>1, <2>2 DEF IdsOf
<1>4. ExistsBijection(IdsOf(p), Present(p))
  BY <1>2 DEF ExistsBijection
<1> QED BY <1>1, <1>3, <1>4, FS_Bijection

\* What a complete search has found at each depth contains what is there.
LEMMA FoundIs ==
  ASSUME HeapFits, NEW p, NEW S \in SUBSET Objects, Fits(p, <<>>), SourcesShown(p, <<>>, S),
         Followed(p, <<>>), NEW d \in 0..setting.nest, NEW o \in Around(S)[d]
  PROVE  \E j \in IdsOf(p) : Obj(p, j) = o /\ (Entry(p, j).expanded \/ Entry(p, j).layer \in 0..d)
<1> DEFINE c == <<>>
           Y == [e \in 0..setting.nest |-> {x \in Objects : Leads(p, c, e, x)}]
<1>0. PoolTyped(p) /\ setting.nest \in Nat
  BY DEF Fits, Indexed, HeapFits, HeapTyped
<1>1. \A e \in 0..setting.nest : \A x : x \in Y[e] <=> x \in Objects /\ Leads(p, c, e, x)
  OBVIOUS
<1> HIDE DEF Y
<1>2. S \subseteq Y[0]
  BY <1>0, <1>1 DEF SourcesShown
<1>3. ASSUME NEW e \in 0..setting.nest, NEW f \in e..setting.nest, NEW x, Leads(p, c, e, x)
      PROVE  Leads(p, c, f, x)
  <2>1. PICK j \in IdsOf(p) : /\ Kept(p, c, j) /\ Obj(p, j) = x
                              /\ Entry(p, j).expanded \/ Entry(p, j).layer \in 0..e
    BY <1>3 DEF Leads
  <2>2. Entry(p, j).layer \in 0..e => Entry(p, j).layer \in 0..f
    OBVIOUS
  <2> QED BY <2>1, <2>2 DEF Leads
\* The objects that an object found at the depth e refers to are found at the depth f.
<1>4. ASSUME NEW e \in 0..setting.nest, NEW x \in Y[e], Kind(x) \in {"array", "plain"},
             NEW f \in 0..setting.nest, e + Levels(x) <= f, NEW i \in DOMAIN graph.field[x],
             graph.field[x][i] # NoObject
      PROVE  graph.field[x][i] \in Y[f]
  <2>1. PICK j \in IdsOf(p) : /\ Kept(p, c, j) /\ Obj(p, j) = x
                              /\ Entry(p, j).expanded \/ Entry(p, j).layer \in 0..e
    BY <1>1 DEF Leads
  <2>2. graph.field[x] \in Seq(Objects \cup {NoObject}) /\ x \in Objects
    BY <1>1 DEF HeapFits, HeapTyped
  <2>3. ~Entry(p, j).expanded
    <3>1. Entry(p, j).expanded => NoMembers(x)
      BY <2>1 DEF Fits, EntriesFit, EntryFits, Obj
    <3>2. ~NoMembers(x)
      <4>1. graph.field[x] # <<>>
        BY <2>2
      <4> QED BY <1>4, <4>1 DEF NoMembers, Arrays
    <3> QED BY <3>1, <3>2
  <2>4. Entry(p, j).layer \in 0..e /\ Levels(x) \in 0..1 /\ (Kind(x) = "plain" => Levels(x) = 1)
    BY <2>1, <2>3 DEF Levels, Arrays
  <2>5. Shows(Entry(p, j))
    <3>1. Kind(x) = "plain" => Entry(p, j).layer < setting.nest
      BY <1>0, <1>4, <2>4
    <3> QED BY <1>4, <2>1, <3>1 DEF Shows, Obj
  <2>6. Met(c, j, i)
    BY DEF Met
  <2>7. Leads(p, c, Entry(p, j).layer + Levels(x), graph.field[x][i])
    <3>1. FollowedFrom(p, c, j) /\ Entry(p, j).obj = x
      BY <2>1 DEF Followed, Obj
    <3> QED BY <1>4, <2>1, <2>4, <2>5, <2>6, <3>1 DEF FollowedFrom
  <2>8. /\ Entry(p, j).layer + Levels(x) \in 0..setting.nest
        /\ f \in (Entry(p, j).layer + Levels(x))..setting.nest
    BY <1>0, <1>4, <2>4
  <2>9. Leads(p, c, f, graph.field[x][i])
    BY <1>3, <2>7, <2>8
  <2>10. graph.field[x][i] \in Objects
    BY <1>4, <2>2
  <2> QED BY <1>1, <2>9, <2>10
<1>5. ASSUME NEW e \in 0..setting.nest PROVE Closed(Y[e], {"array"})
  <2>1. Y[e] \subseteq Objects
    BY <1>1
  <2>2. ASSUME NEW y \in Targets(Y[e] \cap Of({"array"})) PROVE y \in Y[e]
    <3>1. PICK x \in Y[e] \cap Of({"array"}) : \E i \in DOMAIN graph.field[x] : y = graph.field[x][i]
      BY TargetsIs
    <3>2. Kind(x) = "array" /\ e + Levels(x) <= e /\ y # NoObject
      BY <3>1, TargetsIs DEF Of, Levels, Arrays
    <3> QED BY <1>4, <3>1, <3>2
  <2> QED BY <2>1, <2>2 DEF Closed
<1>6. ASSUME NEW e \in 0..setting.nest - 1
      PROVE  Y[e] \cup Targets(Y[e] \cap Of({"plain"})) \subseteq Y[e + 1]
  <2>1. e \in 0..setting.nest /\ e + 1 \in 0..setting.nest /\ e + 1 \in e..setting.nest
    BY <1>0
  <2>2. Y[e] \subseteq Y[e + 1]
    BY <1>1, <1>3, <2>1
  <2>3. ASSUME NEW y \in Targets(Y[e] \cap Of({"plain"})) PROVE y \in Y[e + 1]
    <3>1. PICK x \in Y[e] \cap Of({"plain"}) : \E i \in DOMAIN graph.field[x] : y = graph.field[x][i]
      BY TargetsIs
    <3>2. Kind(x) = "plain" /\ e + Levels(x) <= e + 1 /\ y # NoObject
      BY <2>1, <3>1, TargetsIs DEF Of, Levels, Arrays
    <3> QED BY <1>4, <2>1, <3>1, <3>2
  <2> QED BY <2>2, <2>3
<1>7. o \in Y[d]
  BY <1>2, <1>5, <1>6, AroundLeast
<1> QED BY <1>1, <1>7 DEF Leads

\* The minimum of a set
LEMMA LeastIs ==
  ASSUME NEW T, NEW m \in T, \A x \in T : m <= x, T \subseteq Int
  PROVE  Min(T) = m
<1>1. \A x \in T : Min(T) <= x /\ Min(T) \in T
  <2>1. \E y \in T : \A x \in T : y <= x
    OBVIOUS
  <2> QED BY <2>1 DEF Min
<1>2. Min(T) \in Int /\ m \in Int /\ Min(T) <= m /\ m <= Min(T)
  BY <1>1
<1> QED BY <1>2

\* A dump that is not cut short shows every object once that is within the nest depth by
\* its shortest path, and the references of each object with a depth less than that,
\* though StackTrace::expandObject meets objects on longer paths before.
THEOREM ShownToTheirDepthHolds == Spec => []ShownToTheirDepth
<1>1. ASSUME Distinct => IInv PROVE ShownToTheirDepth
  <2> DEFINE c == <<>>
             A == Around(Sources)
  <2>1. SUFFICES ASSUME root = NoObject, ~pool.thrown, pool.depth = 0, Distinct,
                        PartsOwned(Sources)
                 PROVE  /\ Cardinality(A[setting.nest]) = Len(pool.objs)
                        /\ \A o \in A[setting.nest] : \E id \in IdsOf(pool) :
                             LET e == Entry(pool, id) IN
                             /\ e.obj = o
                             /\ ~e.expanded => e.layer = Depth(o)
                             /\ Kind(o) # "values" =>
                                  Len(e.refs) = IF \/ Kind(o) = "array"
                                                   \/ Kind(o) = "plain" /\ Depth(o) < setting.nest
                                                  THEN Len(graph.field[o]) ELSE 0
    BY OwnedParts DEF ShownToTheirDepth, AtDepth, Ids, IdsOf
  <2>2. calls = c /\ HeapFits /\ Sources \in SUBSET Objects
    BY <1>1, <2>1, SourcesAre DEF IInv, RootsFit
  <2>3. Fits(pool, c) /\ SourcesShown(pool, c, Sources) /\ Sound(pool, c, Sources) /\ Thorough(pool, c)
    <3>1. FromZero(pool, c)
      BY <2>1 DEF FromZero
    <3> QED BY <1>1, <2>1, <2>2, <3>1 DEF IInv, PoolFits
  <2>4. \A id : Kept(pool, c, id) /\ ~OnStack(c, id)
    <3>1. pool.filtering
      BY <2>3 DEF Fits, FilterFits
    <3> QED BY <3>1 DEF Kept, OnStack
  <2>5. /\ Indexed(pool) /\ EntriesFit(pool) /\ PoolTyped(pool) /\ setting.nest \in Nat
    BY <2>2, <2>3 DEF Fits, Indexed, HeapFits, HeapTyped
  <2>6. \A d \in 0..setting.nest : \A o \in A[d] :
          \E j \in IdsOf(pool) : /\ Obj(pool, j) = o
                                 /\ Entry(pool, j).expanded \/ Entry(pool, j).layer \in 0..d
    BY <2>2, <2>3, FoundIs DEF Thorough
  <2>7. \A id \in IdsOf(pool) : /\ Obj(pool, id) \in A[setting.nest]
                                /\ Entry(pool, id).layer >= 0 => Obj(pool, id) \in A[Entry(pool, id).layer]
    BY <2>3, <2>4 DEF Sound, Good, Near
  <2> HIDE DEF A
  <2>8. A[setting.nest] = Present(pool)
    <3>1. setting.nest \in 0..setting.nest
      BY <2>5
    <3> QED BY <2>6, <2>7, <3>1 DEF Present
  <2>9. Cardinality(A[setting.nest]) = Len(pool.objs)
    BY <2>5, <2>8, PresentCounted
  <2>10. ASSUME NEW o \in A[setting.nest], NEW id \in IdsOf(pool), Obj(pool, id) = o
         PROVE  LET e == Entry(pool, id) IN
                /\ e.obj = o
                /\ ~e.expanded => e.layer = Depth(o)
                /\ Kind(o) # "values" =>
                     Len(e.refs) = IF \/ Kind(o) = "array"
                                      \/ Kind(o) = "plain" /\ Depth(o) < setting.nest
                                     THEN Len(graph.field[o]) ELSE 0
    <3> DEFINE e == Entry(pool, id)
    <3>1. /\ e.obj = o /\ o \in Objects /\ e \in EntryType
          /\ EntryFits(e) /\ FieldOf(pool, id) = graph.field[o]
      BY <2>5, <2>10, EntryTyped DEF Obj, EntriesFit, FieldOf
    <3>2. /\ e.expanded <=> NoMembers(o)
          /\ e.expanded => ~e.once
          /\ e.layer \in -1..setting.nest
      BY <3>1 DEF EntryFits
    <3>3. \A d \in 0..setting.nest : o \in A[d] => e.expanded \/ e.layer \in 0..d
      <4> SUFFICES ASSUME NEW d \in 0..setting.nest, o \in A[d] PROVE e.expanded \/ e.layer \in 0..d
        OBVIOUS
      <4>1. PICK j \in IdsOf(pool) : /\ Obj(pool, j) = o
                                     /\ Entry(pool, j).expanded \/ Entry(pool, j).layer \in 0..d
        BY <2>6
      <4>2. j = id
        BY <2>5, <2>10, <4>1, OneEntry
      <4> QED BY <4>1, <4>2
    <3> HIDE DEF e
    <3>4. ASSUME ~e.expanded PROVE e.layer = Depth(o) /\ e.layer >= 0
      <4> DEFINE T == {d \in 0..setting.nest : o \in A[d]}
      <4>1. setting.nest \in 0..setting.nest
        BY <2>5
      <4>2. e.layer \in 0..setting.nest
        BY <3>3, <3>4, <4>1
      <4>3. e.layer \in T
        BY <2>7, <2>10, <4>2 DEF e
      <4>4. \A d \in T : e.layer <= d
        BY <3>3, <3>4
      <4>5. T \subseteq Int
        OBVIOUS
      <4>6. Depth(o) = Min(T)
        BY DEF Depth, AtDepth, A
      <4> HIDE DEF T
      <4>7. Min(T) = e.layer
        <5> DEFINE m == e.layer
        <5>1. m \in T /\ \A d \in T : m <= d
          BY <4>3, <4>4
        <5> HIDE DEF m
        <5>2. Min(T) = m
          BY <4>5, <5>1, LeastIs
        <5> QED BY <5>2 DEF m
      <4> QED BY <4>2, <4>6, <4>7
    <3>5. Kind(o) # "values" => Len(e.refs) = IF e.once THEN Len(graph.field[o]) ELSE 0
      BY <2>3, <2>4, <2>10, <3>1 DEF Fits, RefsCounted, e
    <3>6. e.once /\ Kind(o) = "plain" => e.layer < setting.nest
      BY <2>3, <2>10 DEF Fits, RefsCounted, e
    <3>7. e.layer >= 0 /\ Shows(e) => e.once
      BY <2>3, <2>4 DEF Thorough, ShownOnce, e
    <3>8. Kind(o) = "value" => ~e.once
      BY <2>3, <2>4, <2>10 DEF Sound, Good, ValuesBare, e
    <3>9. Kind(o) \in Kinds
      BY <2>2, <3>1 DEF HeapFits, HeapTyped, Kind
    <3>10. CASE Kind(o) = "array"
      <4>1. CASE e.expanded
        <5>1. graph.field[o] = <<>>
          BY <3>2, <3>10, <4>1 DEF NoMembers
        <5>2. Len(graph.field[o]) = 0
          BY <5>1
        <5> QED BY <3>1, <3>2, <3>5, <3>10, <4>1, <5>2 DEF e
      <4>2. CASE ~e.expanded
        <5>1. e.once
          BY <3>1, <3>4, <3>7, <3>10, <4>2 DEF Shows
        <5> QED BY <3>1, <3>4, <3>5, <3>10, <4>2, <5>1 DEF e
      <4> QED BY <4>1, <4>2
    <3>11. CASE Kind(o) = "plain"
      <4>1. ~e.expanded
        BY <3>2, <3>11 DEF NoMembers, Arrays
      <4>2. e.once <=> Depth(o) < setting.nest
        BY <3>1, <3>4, <3>6, <3>7, <3>11, <4>1 DEF Shows
      <4> QED BY <3>1, <3>4, <3>5, <3>11, <4>1, <4>2 DEF e
    <3>12. CASE Kind(o) \notin {"array", "plain"}
      <4>1. Kind(o) # "values" => ~e.once
        BY <3>2, <3>8, <3>9, <3>12 DEF Kinds, Filtered, NoMembers
      <4> QED BY <3>1, <3>4, <3>5, <3>12, <4>1 DEF e
    <3> QED BY <3>10, <3>11, <3>12
  <2>11. \A o \in A[setting.nest] : \E id \in IdsOf(pool) : Obj(pool, id) = o
    BY <2>8 DEF Present
  <2> QED BY <2>9, <2>10, <2>11 DEF A
<1> QED BY <1>1, IInvHolds, PTL

=============================================================================
