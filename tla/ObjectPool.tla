----------------------------- MODULE ObjectPool -----------------------------
(***************************************************************************)
(* The objects of a dump.  StackTrace::dumpStack shows each object that is *)
(* a variable, a registered instance, the exception or the monitor, with   *)
(* the objects that its fields and array elements refer to, down to the    *)
(* nest depth of the output setting.  Each object gets one entry in the    *)
(* pool, numbered in the order of discovery, and is referred to by that    *)
(* number.  The search is depth first: an entry met again at a lesser      *)
(* depth is expanded again.  Objects of value types (BigDecimal, Date,     *)
(* Integer, ...) are expanded to compute a text, after which what the      *)
(* expansion brought into the pool is removed.                             *)
(*                                                                         *)
(* The pool knows an object by its JVMTI tag or, on other JVMs, by its     *)
(* identity hash code alone.  An object whose hash code is that of one in  *)
(* the pool is taken for it: its members go to the entry of the other.     *)
(*                                                                         *)
(* The search is sequential and runs while all other threads are stopped.  *)
(* Its recursion is the sequence of calls of expandObject that have not    *)
(* returned; a step meets a member of the innermost one, notes the         *)
(* reference to it, or returns.                                            *)
(***************************************************************************)
EXTENDS Integers, Sequences, FiniteSets, SequencesExt, FiniteSetsExt

CONSTANTS
  Objects,   \* Java objects
  NoObject,  \* null
  HashCodes, \* identity hash codes
  Heaps,     \* pairs of graphs, [hash, kind, field] by object, and of settings for them,
             \* [nest, limit, byTag]; see below
  MaxRoots   \* bound: objects that one dump starts from

(* hash: their identity hash codes, which may be equal.                       *)
(* kind: "plain", "array", "string", and those of HelperFunc::isFilterObjType: *)
(* "value" and "values", an array of strings or values.                       *)
(* field: the objects in the fields or elements that are dumped, in order.    *)
(* nest: OutputSetting::attributeNestDepth; limit: what may be added before   *)
(* Config::execeedDumpDataLimit; byTag: Global::getIsIBMJvm, objects are      *)
(* identified by a JVMTI tag and not by their identity hash code.             *)

VARIABLES
  graph,   \* the heap, which does not change during dumps
  setting,
  pool,    \* the pool of the dump
  roots,   \* what was shown, with the number it got
  root,    \* what is being shown, or NoObject
  calls,   \* of expandObject
  phase    \* variables come first, then the exception and the monitor

vars == <<graph, setting, pool, roots, root, calls, phase>>

NewPool(tag, depth) ==
  [objs |-> <<>>,       \* StackTrace::objectDataes
   number |-> 0,        \* objNumber
   map |-> <<>>,        \* objectMap
   filtering |-> TRUE,  \* bNeedFilterObject
   owner |-> -1,        \* expendingObjectId
   size |-> 0,          \* lDumpDataSize
   thrown |-> FALSE,    \* was ExceedMemLimitException thrown?
   tag |-> tag,         \* JVMTI tags, which outlive the pool
   depth |-> depth]     \* Global::curAttrDepth, which is static

Filtered == {"value", "values"} \* HelperFunc::isFilterObjType
Arrays   == {"array", "values"}
Kinds    == {"plain", "array", "string"} \cup Filtered

ASSUME ObjectsAssumption == IsFiniteSet(Objects) /\ NoObject \notin Objects

ASSUME HeapsAssumption ==
  \A h \in Heaps :
    /\ \A g \in h.graphs : /\ g.hash \in [Objects -> HashCodes]
                            /\ g.kind \in [Objects -> Kinds]
                            /\ g.field \in [Objects -> Seq(Objects \cup {NoObject})]
    /\ \A s \in h.settings : s.nest \in Nat /\ s.limit \in Nat /\ s.byTag \in BOOLEAN

HasValues(g) == \E o \in Objects : g.kind[o] \in Filtered

\* Value types and tags do not go together: see the README.
Init ==
  /\ \E h \in Heaps :
       /\ graph \in h.graphs
       /\ setting \in {s \in h.settings : s.byTag => ~HasValues(graph)}
  /\ pool = NewPool([o \in Objects |-> 0], 0)
  /\ roots = <<>> /\ root = NoObject /\ calls = <<>>
  /\ phase = "variables"

-----------------------------------------------------------------------------
(* The pool *)

Kind(o) == graph.kind[o]
Entry(p, id) == p.objs[id + 1]

\* addDumpDataSize, after what is added was added.
Spend(p) == [p EXCEPT !.size = @ + 1, !.thrown = p.size + 1 > setting.limit]

Key(p, o) == IF setting.byTag THEN p.tag[o] ELSE graph.hash[o]

getObjectId(p, o) == IF Key(p, o) \in DOMAIN p.map THEN p.map[Key(p, o)] ELSE -1

\* Strings and arrays without elements need no expansion.
addObject(p, o) ==
  LET q == IF setting.byTag /\ p.tag[o] = 0 THEN [p EXCEPT !.tag[o] = p.number + 1] ELSE p
      k == Key(q, o)
  IN Spend([q EXCEPT
       !.number = @ + 1,
       !.map = [j \in DOMAIN @ \cup {k} |-> IF j \in DOMAIN @ THEN @[j] ELSE p.number],
       !.objs = Append(@, [obj |-> o, refs |-> <<>>, layer |-> -1, once |-> FALSE,
                           expanded |-> \/ Kind(o) = "string"
                                        \/ Kind(o) \in Arrays /\ graph.field[o] = <<>>])])

\* The entry of o, which is added if need be.
Intern(p, o) == IF getObjectId(p, o) < 0 THEN addObject(p, o) ELSE p

\* The text of a value stands for what it refers to; the elements of an array stay, with
\* their texts (setArrayObjValue).
setDumpObjValue(e, o) ==
  [e EXCEPT !.once = FALSE,
            !.refs = IF Kind(o) \notin Arrays THEN <<>>
                     ELSE IF Kind(e.obj) \notin Arrays THEN e.refs
                     ELSE [i \in DOMAIN e.refs |-> IF e.refs[i] > 0 THEN -1 ELSE e.refs[i]]]

\* The entries that were added to compute the text are removed.
filterUselessObject(p, id, o, nPos, nObjNumberBak) ==
  [p EXCEPT !.map = [k \in {j \in DOMAIN p.map : p.map[j] < nPos} |-> p.map[k]],
            !.objs = [SubSeq(p.objs, 1, nPos) EXCEPT ![id + 1] = setDumpObjValue(Entry(p, id), o)],
            !.number = nObjNumberBak]

\* Mutant: an object is expanded once.
KnownOnce(e, currentLayer) == e.layer >= 0

\* Was the object met at this depth or a lesser one?
Known(e, currentLayer) == e.layer >= 0 /\ e.layer <= currentLayer

IsFiltered(p, id) == Kind(Entry(p, id).obj) \in Filtered

\* The first value that is met owns the filter while it is expanded.
EnterObject(p, id, currentLayer) ==
  LET owns == p.filtering /\ IsFiltered(p, id)
  IN [p EXCEPT !.objs[id + 1].layer = currentLayer,
               !.filtering = @ /\ ~owns,
               !.owner = IF owns THEN id ELSE @]

\* The pool had nPos keys and nObjNumberBak objects before the object was expanded.
LeaveObject(p, id, o, nPos, nObjNumberBak) ==
  LET q == [p EXCEPT !.filtering = @ \/ p.owner = id]
  IN IF q.filtering /\ IsFiltered(p, id) THEN filterUselessObject(q, id, o, nPos, nObjNumberBak)
     ELSE q

\* Fields are one level down, elements of an array are at the depth of the array.
Levels(o) == IF Kind(o) \in Arrays THEN 0 ELSE 1

\* Mutant: the depth is compared before it is counted up.
WithinDepthBefore(p, o) == p.depth <= setting.nest

\* Attribute: fields beyond the nest depth are not shown.
WithinDepth(p, o) == p.depth + Levels(o) <= setting.nest

\* An array is not expanded into the entry of an object that has no elements.
HasItems(p, id, o) == Kind(o) \in Arrays => Kind(Entry(p, id).obj) \in Arrays

NewCall(p, id, o) ==
  [id |-> id,
   obj |-> o,                    \* whose members are met
   next |-> 1,                   \* the member that it has come to
   shown |-> FALSE,              \* was that met?
   once |-> Entry(p, id).once,   \* expandedOnce
   nPos |-> Cardinality(DOMAIN p.map), nObjNumberBak |-> p.number]

\* expandObject(o, id, currentLayer), called by the last one of callers: the entry
\* tells what is known and filtered, the object which members there are.
expandObject(p, id, o, currentLayer, callers) ==
  LET q == EnterObject(p, id, currentLayer)
      call == NewCall(p, id, o)
  IN IF p.thrown \/ Entry(p, id).expanded \/ Known(Entry(p, id), currentLayer)
       THEN pool' = p /\ calls' = callers
     ELSE IF WithinDepth(p, o) /\ HasItems(p, id, o)
       THEN pool' = [q EXCEPT !.depth = @ + Levels(o)] /\ calls' = Append(callers, call)
       ELSE pool' = LeaveObject(q, id, o, call.nPos, call.nObjNumberBak) /\ calls' = callers

\* getObjectId, addObject and expandObject for one object
Show(p, o, currentLayer, callers) ==
  LET q == Intern(p, o) IN expandObject(q, getObjectId(q, o), o, currentLayer, callers)

-----------------------------------------------------------------------------
(* The search *)

Top == Len(calls)
Call == calls[Top]
Field == graph.field[Call.obj]
Member == Field[Call.next]

Searching == ~pool.thrown /\ calls # <<>>

\* Attribute::init and addArrayElements come to the next member.
MeetMember ==
  /\ Searching
  /\ ~Call.shown /\ Call.next <= Len(Field)
  /\ LET callers == [calls EXCEPT ![Top].shown = TRUE]
     IN IF Member = NoObject THEN pool' = pool /\ calls' = callers
        ELSE Show(pool, Member, pool.depth, callers)
  /\ UNCHANGED <<graph, setting, roots, root, phase>>

\* TypedElement notes the reference to it, unless that was done before.
NoteMember ==
  /\ Searching
  /\ Call.shown
  /\ LET ref == IF Member = NoObject THEN -1 ELSE getObjectId(pool, Member)
     IN pool' = IF Call.once THEN pool
                ELSE Spend([pool EXCEPT !.objs[Call.id + 1].refs = Append(@, ref)])
  /\ calls' = [calls EXCEPT ![Top].next = @ + 1, ![Top].shown = FALSE]
  /\ UNCHANGED <<graph, setting, roots, root, phase>>

\* The object is complete.
Complete(p, id, o) ==
  [p EXCEPT !.objs[id + 1].once = TRUE, !.depth = @ - Levels(o)]

Return ==
  /\ Searching
  /\ ~Call.shown /\ Call.next > Len(Field)
  /\ pool' = LeaveObject(Complete(pool, Call.id, Call.obj), Call.id, Call.obj,
                         Call.nPos, Call.nObjNumberBak)
  /\ calls' = SubSeq(calls, 1, Top - 1)
  /\ UNCHANGED <<graph, setting, roots, root, phase>>

-----------------------------------------------------------------------------
(* The dump *)

Start(o) ==
  /\ ~pool.thrown /\ root = NoObject
  /\ Len(roots) < MaxRoots
  /\ root' = o
  /\ UNCHANGED <<graph, setting, roots>>

\* A variable of a frame.  Instances are shown in the same way.
Variable(o) ==
  /\ Start(o)
  /\ phase = "variables"
  /\ Show([pool EXCEPT !.depth = 0], o, 0, <<>>)
  /\ UNCHANGED phase

\* The exception and the object whose monitor is held.
ObjRefIdFromObjectPool(o) ==
  /\ Start(o)
  /\ phase' = "objects"
  /\ Show(pool, o, 0, <<>>)

\* The number of the object is noted, that of a variable even if the limit is
\* exceeded.
Finish ==
  /\ root # NoObject
  /\ IF pool.thrown THEN phase = "variables" ELSE calls = <<>>
  /\ roots' = Append(roots, [obj |-> root, id |-> getObjectId(pool, root)])
  /\ root' = NoObject /\ calls' = <<>>
  /\ UNCHANGED <<graph, setting, pool, phase>>

\* Mutant: the tags are not cleared.
TagsKept == pool.tag

\* ~ObjectPool clears the tags that it gave.
TagsCleared ==
  [o \in Objects |-> IF setting.byTag /\ pool.tag[o] \in 1..pool.number THEN 0 ELSE pool.tag[o]]

\* The dump ends, and the next one has a pool of its own.
EndDump ==
  /\ root = NoObject \/ (pool.thrown /\ phase = "objects")
  /\ pool' = NewPool(TagsCleared, pool.depth)
  /\ roots' = <<>> /\ root' = NoObject /\ calls' = <<>>
  /\ phase' = "variables"
  /\ UNCHANGED <<graph, setting>>

Next ==
  \/ \E o \in Objects : Variable(o) \/ ObjRefIdFromObjectPool(o)
  \/ MeetMember \/ NoteMember \/ Return
  \/ Finish \/ EndDump

Spec == Init /\ [][Next]_vars

-----------------------------------------------------------------------------
(* Properties *)

Ids == 0..(Len(pool.objs) - 1)

\* The variables have their types, and the depth counted in the static variable of
\* Global stays within the nest depth.
TypeOK ==
  /\ pool.number = Len(pool.objs)
  /\ \A id \in Ids :
       LET e == Entry(pool, id) IN
         /\ e.obj \in Objects
         /\ e.layer \in -1..setting.nest
         /\ e.once \in BOOLEAN /\ e.expanded \in BOOLEAN
         /\ \A i \in DOMAIN e.refs : e.refs[i] \in Int
  /\ \A k \in DOMAIN pool.map : pool.map[k] \in Ids
  /\ pool.depth \in 0..setting.nest
  /\ pool.tag \in [Objects -> Nat]
  /\ root \in Objects \cup {NoObject}
  /\ \A k \in DOMAIN calls :
       /\ calls[k].id \in Ids
       /\ calls[k].obj \in Objects
       /\ calls[k].next \in 1..Len(graph.field[calls[k].obj]) + 1
       /\ calls[k].nPos \in Nat /\ calls[k].nObjNumberBak \in Nat
  /\ phase \in {"variables", "objects"}

Targets(S) == (UNION {ToSet(graph.field[o]) : o \in S}) \ {NoObject}

Of(kinds) == {o \in Objects : Kind(o) \in kinds}

\* S with what objects of the kinds lead to: the least set that is closed
Reach(S, kinds) ==
  {o \in Objects :
     \A T \in SUBSET Objects : S \subseteq T /\ Targets(T \cap Of(kinds)) \subseteq T => o \in T}

\* What the dump started from
Sources == {roots[i].obj : i \in DOMAIN roots} \cup ({root} \ {NoObject})

\* What is at most d fields away from S, not counting the parts of values
Around(S) ==
  LET A[d \in 0..setting.nest] ==
        IF d = 0 THEN Reach(S, {"array"})
        ELSE LET T == A[d - 1] IN Reach(T \cup Targets(T \cap Of({"plain"})), {"array"})
  IN A

AtDepth == Around(Sources)

Depth(o) == Min({d \in 0..setting.nest : o \in AtDepth[d]})

\* The parts of a value are strings or belong to values alone.  A part that is
\* shown elsewhere too may lose the entries that it refers to with the value.
ValuesOwnTheirParts ==
  Reach(Targets(Of(Filtered)), Kinds) \cap AtDepth[setting.nest] \subseteq Of({"string"})

\* Objects are told apart by their keys.  (Objects may be taken to be those that the
\* dump reaches; but the hash codes of a JVM have 25 to 32 bits and do collide.)
HashesDiffer == \A a, b \in Objects : graph.hash[a] = graph.hash[b] => a = b

Distinct == setting.byTag \/ HashesDiffer

RightNames ==
  /\ \A id \in Ids :
       LET e == Entry(pool, id) IN
       \A i \in DOMAIN e.refs : e.refs[i] # -1 =>
         e.refs[i] \in Ids /\ \E j \in DOMAIN graph.field[e.obj] :
                                Entry(pool, e.refs[i]).obj = graph.field[e.obj][j]
  /\ \A i \in DOMAIN roots :
       roots[i].id \in Ids /\ Entry(pool, roots[i].id).obj = roots[i].obj

\* If objects have tags, or hash codes of their own, and values own their parts,
\* every reference in a dump names the entry of the object it stands for, also
\* after entries were removed and their numbers given to other objects, and at any
\* point of the search.
RefsNameTheirObjects == RightNames \/ ~Distinct \/ ~ValuesOwnTheirParts

\* Under the same conditions a dump that is not cut short shows every object once
\* that is within the nest depth by its shortest path, and the references of each
\* object with a depth less than that, though the search is depth first and meets
\* objects on longer paths before.
ShownToTheirDepth ==
  root = NoObject /\ ~pool.thrown /\ pool.depth = 0 /\ Distinct /\ ValuesOwnTheirParts =>
    /\ Cardinality(AtDepth[setting.nest]) = Len(pool.objs)
    /\ \A o \in AtDepth[setting.nest] : \E id \in Ids :
         LET e == Entry(pool, id) IN
         /\ e.obj = o
         /\ ~e.expanded => e.layer = Depth(o)
         /\ Kind(o) # "values" =>
              Len(e.refs) = IF \/ Kind(o) = "array"
                               \/ Kind(o) = "plain" /\ Depth(o) < setting.nest
                              THEN Len(graph.field[o]) ELSE 0

=============================================================================
