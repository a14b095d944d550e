----------------------- MODULE ClassRedefinitionProofs -----------------------
(***************************************************************************)
(* Proofs about ClassRedefinition, for any classes, loaders, definitions,  *)
(* configuration files and number of reloads: between reloads every class  *)
(* carries the bytecode that the installed Config prescribes, and its      *)
(* methods are known by its key.                                           *)
(***************************************************************************)
EXTENDS ClassRedefinition, WellFoundedInduction, TLAPS

LoadInfo == [classes : SUBSET Classes, urls : SUBSET Classes]

Typed ==
  /\ contents \in [0..MaxReloads -> Configs]
  /\ installed \in 0..MaxReloads
  /\ callbacks = (phase # "start")
  /\ pending \subseteq {Name[c] : c \in Classes}
  /\ stage \in [Classes -> Stages]
  /\ match \in [Classes -> Info]
  /\ code \in [Classes -> {Plain} \cup Definition]
  /\ methodDumpInfo \in [Classes -> Info]
  /\ loadedClassInfo \in [Keys -> LoadInfo]
  /\ phase \in {"start", "idle", "old", "new"}
  /\ todo \subseteq Keys
  /\ work \subseteq Classes /\ raced \subseteq Classes

\* The entries are of classes that their keys cover and whose loaders are known.
Listed ==
  /\ \A c \in Classes : stage[c] # "no" => Loader[c] \in loaders
  /\ \A c \in work : Loader[c] \in loaders
  /\ \A k \in Keys :
       /\ loadedClassInfo[k].classes \subseteq Covers[k]
       /\ loadedClassInfo[k].urls \subseteq loadedClassInfo[k].classes
       /\ \A c \in loadedClassInfo[k].classes : Loader[c] \in loaders

\* A hook that inserts holds a definition of some Config that fits the class.
Matched ==
  \A c \in Classes :
    /\ (match[c] # NoInfo) = (stage[c] = "insert")
    /\ stage[c] = "insert" =>
         /\ match[c].config \in 0..installed
         /\ match[c].key \in Instrumentable(match[c].config, c)
    /\ stage[c] \in {"no", "url", "insert"} => code[c] = Plain

\* Before VMInit nothing is instrumented, and what should be is put off.
Starting ==
  phase = "start" =>
    /\ installed = 0 /\ work = {}
    /\ \A c \in Classes :
         /\ stage[c] \in {"no", "define", "loaded"}
         /\ code[c] = Plain
         /\ stage[c] # "no" /\ isRedefineClassName(0, Name[c]) => Name[c] \in pending

\* c is instrumented, but for positions, and noted, as Config g prescribes.
AsIn(c, g) ==
  /\ Carries(c, g)
  /\ \A k \in getMonitorClassInfo(g, c) :
       /\ c \in loadedClassInfo[k].classes
       /\ contents[g][k].methods # {} => methodDumpInfo[c].key = k

\* c is still as the old Config prescribed, and the loops will come to a key
\* of it if need be.
Ahead(c) ==
  /\ AsIn(c, installed - 1)
  /\ \/ /\ phase = "old"
        /\ getMonitorClassInfo(installed - 1, c) \ Defined(installed) \subseteq todo
     \/ /\ phase = "new"
        /\ getMonitorClassInfo(installed - 1, c) \subseteq Defined(installed)
        /\ getMonitorClassInfo(installed, c) \subseteq todo

Safe(c) == c \in work \/ AsIn(c, installed) \/ Ahead(c)

Judged(c) == stage[c] \in {"define", "loaded"} /\ c \notin raced /\ WellDefined(c)

Treated == phase # "start" => \A c \in Classes : Judged(c) => Safe(c)

\* What a reload goes through last are definitions of the Config it has installed.
Reloading ==
  /\ phase \in {"old", "new"} => installed >= 1
  /\ phase = "new" => todo \subseteq Defined(installed)

IInv == Typed /\ Listed /\ Matched /\ Starting /\ Reloading /\ Treated

-----------------------------------------------------------------------------
(* Definitions *)

\* The Configs that may come are fixed, so what they prescribe is.
LEMMA SameDefinitions ==
  ASSUME UNCHANGED contents, NEW g, NEW c
  PROVE  /\ Defined(g)' = Defined(g)
         /\ getMonitorClassInfo(g, c)' = getMonitorClassInfo(g, c)
         /\ Instrumentable(g, c)' = Instrumentable(g, c)
         /\ Prescribed(g, c)' = Prescribed(g, c)
         /\ isRedefineClassName(g, c)' = isRedefineClassName(g, c)
         /\ \A k, e : OnlyMoved(k, e, g)' = OnlyMoved(k, e, g)
         /\ code'[c] = code[c] => Carries(c, g)' = Carries(c, g)
<1>1. /\ Defined(g)' = Defined(g)
      /\ getMonitorClassInfo(g, c)' = getMonitorClassInfo(g, c)
      /\ Instrumentable(g, c)' = Instrumentable(g, c)
      /\ Prescribed(g, c)' = Prescribed(g, c)
      /\ isRedefineClassName(g, c)' = isRedefineClassName(g, c)
  BY DEF Defined, getMonitorClassInfo, Instrumentable, Prescribed, isRedefineClassName
<1>2. \A k, e : OnlyMoved(k, e, g)' = OnlyMoved(k, e, g)
  BY DEF OnlyMoved, Defined
<1> QED BY <1>1, <1>2 DEF Carries

LEMMA Definitions ==
  ASSUME Typed, NEW g \in 0..MaxReloads
  PROVE  /\ Defined(g) \subseteq Keys
         /\ \A k \in Defined(g) : /\ contents[g][k] \in Definition
                                  /\ contents[g][k].type = 1 => contents[g][k].methods = {}
         /\ \A c : getMonitorClassInfo(g, c) \subseteq Defined(g)
         /\ \A c : Instrumentable(g, c) \subseteq getMonitorClassInfo(g, c)
<1>1. contents[g] \in Configs
  BY DEF Typed
<1>2. /\ DOMAIN contents[g] \subseteq Keys
      /\ \A k \in DOMAIN contents[g] :
           contents[g][k] \in Definition /\ (contents[g][k].type = 1 => contents[g][k].methods = {})
  BY <1>1, ConfigsAssumption DEF ConfigsAssumption
<1>3. \A c : getMonitorClassInfo(g, c) \subseteq Defined(g)
  BY DEF getMonitorClassInfo
<1>4. \A c : Instrumentable(g, c) \subseteq getMonitorClassInfo(g, c)
  BY DEF Instrumentable
<1> QED BY <1>2, <1>3, <1>4 DEF Defined

\* What a definition that fits prescribes.
LEMMA Fitting ==
  ASSUME NEW g, NEW c, NEW k \in Instrumentable(g, c)
  PROVE  /\ Instrumentable(g, c) = {k} /\ getMonitorClassInfo(g, c) = {k}
         /\ Prescribed(g, c) = contents[g][k]
<1>1. getMonitorClassInfo(g, c) = {k}
  BY DEF Instrumentable
<1>2. Instrumentable(g, c) = {k}
  BY <1>1 DEF Instrumentable
<1>3. (CHOOSE j \in Instrumentable(g, c) : TRUE) = k
  BY <1>2
<1> QED BY <1>1, <1>2, <1>3 DEF Prescribed

\* What a class carries has the methods that are prescribed, whose positions may
\* be others.
LEMMA CarriesMethods ==
  ASSUME NEW g \in Nat, NEW c, Carries(c, g)
  PROVE  /\ code[c].methods = Prescribed(g, c).methods
         /\ Instrumentable(g, c) = {} => code[c] = Plain
<1>1. CASE code[c] = Prescribed(g, c)
  BY <1>1 DEF Prescribed
<1>2. ASSUME NEW k \in Instrumentable(g, c), NEW e \in 0..g, OnlyMoved(k, e, g),
             code[c] = contents[e][k]
      PROVE  code[c].methods = Prescribed(g, c).methods
  <2>1. Prescribed(g, c) = contents[g][k]
    BY <1>2, Fitting
  <2> QED BY <1>2, <2>1 DEF OnlyMoved
<1> QED BY <1>1, <1>2 DEF Carries

LEMMA NotFitting ==
  ASSUME NEW g, NEW c, Instrumentable(g, c) = {}
  PROVE  Prescribed(g, c) = Plain
BY DEF Prescribed

\* A class that is well defined has, in each Config, one fitting definition or none.
LEMMA WellDefinedCases ==
  ASSUME NEW c, WellDefined(c), NEW g \in 0..installed
  PROVE  \/ getMonitorClassInfo(g, c) = {} /\ Prescribed(g, c) = Plain
         \/ \E k : k \in Instrumentable(g, c) /\ getMonitorClassInfo(g, c) = {k}
<1>1. CASE getMonitorClassInfo(g, c) = {}
  <2>1. Instrumentable(g, c) = {}
    BY <1>1 DEF Instrumentable
  <2> QED BY <1>1, <2>1, NotFitting
<1>2. CASE getMonitorClassInfo(g, c) # {}
  <2>1. PICK k \in getMonitorClassInfo(g, c) : TRUE
    BY <1>2
  <2>2. Instrumentable(g, c) = {k}
    BY <2>1 DEF WellDefined
  <2> QED BY <2>2, Fitting
<1> QED BY <1>1, <1>2

\* Configs that came later only add conditions.
LEMMA WellDefinedBefore ==
  ASSUME UNCHANGED contents, installed \in Nat,
         installed' = installed \/ installed' = installed + 1,
         NEW c, WellDefined(c)'
  PROVE  WellDefined(c)
<1>1. 0..installed \subseteq 0..(installed')
  OBVIOUS
<1> QED BY <1>1, SameDefinitions DEF WellDefined

\* The names of a class and of its keys are the same.
LEMMA CoverNames ==
  ASSUME Typed, NEW g \in 0..MaxReloads, NEW c, ~isRedefineClassName(g, Name[c])
  PROVE  getMonitorClassInfo(g, c) = {}
<1> SUFFICES ASSUME NEW k \in getMonitorClassInfo(g, c) PROVE FALSE
  OBVIOUS
<1>1. k \in Defined(g) /\ k \in Keys /\ c \in Covers[k]
  BY Definitions DEF getMonitorClassInfo
<1>2. Name[c] = Name[k]
  BY <1>1, ClassesAssumption DEF ClassesAssumption
<1> QED BY <1>1, <1>2 DEF isRedefineClassName

\* The loops have a next key.
LEMMA FirstIsTodo ==
  ASSUME todo \subseteq Keys, todo # {}
  PROVE  First \in todo
<1> DEFINE Places == {KeyOrder[k] : k \in todo}
<1>1. KeyOrder \in [Keys -> Nat]
  BY ClassesAssumption DEF ClassesAssumption
<1>2. Places \subseteq Nat /\ Places # {}
  BY <1>1
<1>3. PICK x \in Places : \A y \in Places : ~(<<y, x>> \in OpToRel(<, Nat))
  <2> HIDE DEF Places
  <2> QED BY <1>2, NatLessThanWellFounded, WFMin
<1>4. \A y \in Places : ~(y < x)
  <2> HIDE DEF Places
  <2> QED BY <1>2, <1>3 DEF OpToRel
<1>5. PICK k \in todo : KeyOrder[k] = x
  OBVIOUS
<1>6. \A j \in todo : KeyOrder[k] <= KeyOrder[j]
  <2> SUFFICES ASSUME NEW j \in todo PROVE KeyOrder[k] <= KeyOrder[j]
    OBVIOUS
  <2>1. KeyOrder[k] \in Nat /\ KeyOrder[j] \in Nat
    BY <1>1
  <2>2. ~(KeyOrder[j] < KeyOrder[k])
    BY <1>4, <1>5
  <2> QED BY <2>1, <2>2
<1> HIDE DEF Places
<1> QED BY <1>5, <1>6 DEF First
-----------------------------------------------------------------------------
(* What other steps leave alone *)

LEMMA AsInKept ==
  ASSUME UNCHANGED contents, NEW c, code'[c] = code[c], methodDumpInfo'[c] = methodDumpInfo[c],
         NEW g, \A k \in getMonitorClassInfo(g, c) :
                  c \in loadedClassInfo[k].classes => c \in loadedClassInfo'[k].classes,
         AsIn(c, g)
  PROVE  AsIn(c, g)'
BY SameDefinitions DEF AsIn

LEMMA SafeKept ==
  ASSUME Typed, UNCHANGED <<contents, installed, phase, todo>>, NEW c,
         phase \in {"old", "new"} => installed >= 1,
         code'[c] = code[c], methodDumpInfo'[c] = methodDumpInfo[c],
         c \in work => c \in work',
         \A k \in Keys : c \in loadedClassInfo[k].classes => c \in loadedClassInfo'[k].classes,
         Safe(c)
  PROVE  Safe(c)'
<1>1. installed \in 0..MaxReloads
  BY DEF Typed
<1>2. getMonitorClassInfo(installed, c) \subseteq Keys
  BY <1>1, Definitions
<1>3. AsIn(c, installed) => AsIn(c, installed)'
  BY <1>2, AsInKept
<1>4. Ahead(c) => Ahead(c)'
  <2> SUFFICES ASSUME Ahead(c) PROVE Ahead(c)'
    OBVIOUS
  <2>1. installed - 1 \in 0..MaxReloads
    <3>1. installed >= 1 /\ MaxReloads \in Nat
      BY ConfigsAssumption DEF Ahead, ConfigsAssumption
    <3> QED BY <1>1, <3>1
  <2>2. getMonitorClassInfo(installed - 1, c) \subseteq Keys
    BY <2>1, Definitions
  <2>3. AsIn(c, installed - 1)'
    BY <2>2, AsInKept DEF Ahead
  <2> QED BY <2>3, SameDefinitions DEF Ahead
<1> QED BY <1>3, <1>4 DEF Safe

\* Classes that a step does not load stay judged by it.
LEMMA JudgedKept ==
  ASSUME UNCHANGED <<contents, installed>>, NEW c, stage'[c] = stage[c],
         c \in raced => c \in raced', Judged(c)'
  PROVE  Judged(c)
BY SameDefinitions DEF Judged, WellDefined

LEMMA InitIInv == Init => IInv
<1> SUFFICES ASSUME Init PROVE IInv
  OBVIOUS
<1>1. 0 \in 0..MaxReloads
  BY ConfigsAssumption DEF ConfigsAssumption
<1>2. Typed
  BY <1>1 DEF Init, Typed, Stages, Info, LoadInfo
<1>3. \A c \in Classes : stage[c] = "no" /\ match[c] = NoInfo /\ code[c] = Plain
  BY DEF Init
<1>4. \A k \in Keys : loadedClassInfo[k].classes = {} /\ loadedClassInfo[k].urls = {}
  BY DEF Init
<1>5. work = {} /\ phase = "start" /\ installed = 0
  BY DEF Init
<1>6. Listed
  BY <1>3, <1>4, <1>5 DEF Listed
<1>7. Matched /\ Starting /\ Reloading /\ Treated
  BY <1>3, <1>5 DEF Matched, Starting, Reloading, Treated
<1> QED BY <1>2, <1>6, <1>7 DEF IInv
-----------------------------------------------------------------------------
(* Steps of the hook *)

LEMMA LoadClassKeepsIInv ==
  ASSUME NEW c \in Classes, IInv, LoadClass(c)
  PROVE  IInv'
<1>1. Typed /\ Listed /\ Matched /\ Starting /\ Reloading /\ Treated
  BY DEF IInv
<1>2. /\ stage[c] = "no" /\ loaders' = loaders \cup {Loader[c]}
      /\ UNCHANGED <<match, code, loadedClassInfo, methodDumpInfo, contents, installed,
                     callbacks, phase, todo, work, raced>>
  BY DEF LoadClass, tables, reload
<1>3. PICK place \in {"url", "define"} : stage' = [stage EXCEPT ![c] = place]
  BY DEF LoadClass
<1>4. /\ stage' \in [Classes -> Stages] /\ stage'[c] = place
      /\ \A d \in Classes \ {c} : stage'[d] = stage[d]
  BY <1>1, <1>3 DEF Typed, Stages
<1>5. /\ pending' \subseteq {Name[d] : d \in Classes} /\ pending \subseteq pending'
      /\ isRedefineClassName(installed, Name[c]) =>
           (callbacks /\ place = "url") \/ Name[c] \in pending'
      /\ place = "url" => callbacks
  <2>1. CASE ~isRedefineClassName(installed, Name[c])
    <3>1. stage'[c] = "define" /\ UNCHANGED pending
      BY <1>1, <2>1 DEF LoadClass, Typed
    <3> QED BY <1>1, <1>4, <2>1, <3>1 DEF Typed
  <2>2. CASE isRedefineClassName(installed, Name[c]) /\ callbacks
    <3>1. stage'[c] = "url" /\ UNCHANGED pending
      BY <1>1, <2>2 DEF LoadClass, Typed
    <3> QED BY <1>1, <1>4, <2>2, <3>1 DEF Typed
  <2>3. CASE isRedefineClassName(installed, Name[c]) /\ ~callbacks
    <3>1. stage'[c] = "define" /\ pending' = pending \cup {Name[c]}
      BY <1>1, <2>3 DEF LoadClass, Typed
    <3> QED BY <1>1, <1>4, <2>3, <3>1 DEF Typed
  <2> QED BY <2>1, <2>2, <2>3
<1>6. Typed'
  BY <1>1, <1>2, <1>4, <1>5 DEF Typed, Info
<1>7. Listed'
  BY <1>1, <1>2, <1>4 DEF Listed
<1>8. Matched'
  BY <1>1, <1>2, <1>4, SameDefinitions DEF Matched
<1>9. Starting'
  <2> SUFFICES ASSUME phase = "start" PROVE Starting'
    BY <1>2 DEF Starting
  <2>1. ~callbacks /\ installed = 0
    BY <1>1 DEF Typed, Starting
  <2>2. isRedefineClassName(0, Name[c]) => Name[c] \in pending'
    BY <1>5, <2>1
  <2>3. place = "define"
    BY <1>5, <2>1
  <2> QED BY <1>1, <1>2, <1>4, <1>5, <2>2, <2>3, SameDefinitions DEF Starting
<1>10. Treated'
  <2> SUFFICES ASSUME phase # "start", NEW d \in Classes, Judged(d)' PROVE Safe(d)'
    BY <1>1, <1>2 DEF Treated
  <2>1. CASE d # c
    BY <1>1, <1>2, <1>4, <2>1, SafeKept, JudgedKept DEF Reloading, Treated
  <2>2. CASE d = c
    <3>1. place = "define"
      BY <1>4, <2>2 DEF Judged
    <3>2. callbacks /\ installed \in 0..MaxReloads
      BY <1>1 DEF Typed
    <3>3. ~isRedefineClassName(installed, Name[c])
      <4>1. ~isRedefineClassName(installed, Name[c]) \/ (callbacks /\ stage'[c] = "url")
        BY <1>1, <3>2 DEF LoadClass, Typed
      <4> QED BY <1>4, <3>1, <4>1
    <3>4. getMonitorClassInfo(installed, c) = {}
      BY <1>1, <3>2, <3>3, CoverNames
    <3>5. Instrumentable(installed, c) = {}
      BY <3>4 DEF Instrumentable
    <3>6. code[c] = Plain
      BY <1>1, <1>2 DEF Matched
    <3>7. AsIn(c, installed)
      BY <3>4, <3>5, <3>6, NotFitting DEF AsIn, Carries
    <3> QED BY <1>1, <1>2, <2>2, <3>7, SafeKept DEF Safe, Reloading
  <2> QED BY <2>1, <2>2
<1>11. Reloading'
  BY <1>1, <1>2, SameDefinitions DEF Reloading
<1> QED BY <1>6, <1>7, <1>8, <1>9, <1>10, <1>11 DEF IInv

LEMMA MatchClassKeepsIInv ==
  ASSUME NEW c \in Classes, IInv, MatchClass(c)
  PROVE  IInv'
<1>1. Typed /\ Listed /\ Matched /\ Starting /\ Reloading /\ Treated
  BY DEF IInv
<1>2. /\ stage[c] = "url" /\ phase # "start"
      /\ UNCHANGED <<code, loaders, pending, loadedClassInfo, methodDumpInfo, contents, installed,
                     callbacks, phase, todo, work, raced>>
  BY <1>1 DEF MatchClass, tables, reload, Starting
<1>3. installed \in 0..MaxReloads /\ installed \in 0..installed /\ code[c] = Plain
      /\ match[c] = NoInfo
  BY <1>1, <1>2 DEF Typed, Matched
<1>4. Reloading'
  BY <1>1, <1>2, SameDefinitions DEF Reloading
<1>5. CASE \E k \in Instrumentable(installed, c) :
             /\ match' = [match EXCEPT ![c] = [key |-> k, config |-> installed]]
             /\ stage' = [stage EXCEPT ![c] = "insert"]
  <2>1. PICK k \in Instrumentable(installed, c) :
             /\ match' = [match EXCEPT ![c] = [key |-> k, config |-> installed]]
             /\ stage' = [stage EXCEPT ![c] = "insert"]
    BY <1>5
  <2> DEFINE found == [key |-> k, config |-> installed]
  <2>2. k \in Keys
    BY <1>1, <1>3, Definitions
  <2>3. found \in Info /\ found.key = k /\ found.config = installed
    BY <1>3, <2>2 DEF Info
  <2>4. found # NoInfo
    BY <1>3, <2>3 DEF NoInfo
  <2>5. match' = [match EXCEPT ![c] = found]
    BY <2>1
  <2> HIDE DEF found
  <2>6. /\ stage' \in [Classes -> Stages] /\ stage'[c] = "insert"
        /\ match' \in [Classes -> Info] /\ match'[c] = found
        /\ \A d \in Classes \ {c} : stage'[d] = stage[d] /\ match'[d] = match[d]
    BY <1>1, <2>1, <2>3, <2>5 DEF Typed, Stages
  <2>7. Typed'
    BY <1>1, <1>2, <2>6 DEF Typed, Info
  <2>8. Listed'
    BY <1>1, <1>2, <2>6 DEF Listed
  <2>9. Matched'
    BY <1>1, <1>2, <1>3, <2>1, <2>3, <2>4, <2>6, SameDefinitions DEF Matched
  <2>10. Starting'
    BY <1>2 DEF Starting
  <2>11. Treated'
    <3> SUFFICES ASSUME NEW d \in Classes, Judged(d)' PROVE Safe(d)'
      BY <1>1, <1>2 DEF Treated
    <3>1. d # c
      BY <2>6 DEF Judged
    <3> QED BY <1>1, <1>2, <2>6, <3>1, SafeKept, JudgedKept DEF Reloading, Treated
  <2> QED BY <1>4, <2>7, <2>8, <2>9, <2>10, <2>11 DEF IInv
<1>6. CASE /\ Instrumentable(installed, c) = {}
           /\ stage' = [stage EXCEPT ![c] = "define"]
           /\ UNCHANGED match
  <2>1. /\ stage' \in [Classes -> Stages] /\ stage'[c] = "define"
        /\ \A d \in Classes \ {c} : stage'[d] = stage[d]
    BY <1>1, <1>6 DEF Typed, Stages
  <2>2. Typed'
    BY <1>1, <1>2, <1>6, <2>1 DEF Typed, Info
  <2>3. Listed'
    BY <1>1, <1>2, <2>1 DEF Listed
  <2>4. Matched'
    BY <1>1, <1>2, <1>3, <1>6, <2>1, SameDefinitions DEF Matched
  <2>5. Starting'
    BY <1>2 DEF Starting
  <2>6. Treated'
    <3> SUFFICES ASSUME NEW d \in Classes, Judged(d)' PROVE Safe(d)'
      BY <1>1, <1>2 DEF Treated
    <3>1. CASE d # c
      BY <1>1, <1>2, <2>1, <3>1, SafeKept, JudgedKept DEF Reloading, Treated
    <3>2. CASE d = c
      <4>1. WellDefined(c)
        BY <1>2, <3>2, SameDefinitions DEF Judged, WellDefined
      <4>2. getMonitorClassInfo(installed, c) = {} /\ Prescribed(installed, c) = Plain
        BY <1>3, <1>6, <4>1, WellDefinedCases
      <4>3. AsIn(c, installed)
        BY <1>3, <4>2 DEF AsIn, Carries
      <4> QED BY <1>1, <1>2, <3>2, <4>3, SafeKept DEF Safe, Reloading
    <3> QED BY <3>1, <3>2
  <2> QED BY <1>4, <2>2, <2>3, <2>4, <2>5, <2>6 DEF IInv
<1> QED BY <1>5, <1>6 DEF MatchClass

\* What the end of the hook notes for a class.
LEMMA Recorded ==
  ASSUME Typed, NEW c \in Classes, NEW g \in 0..installed, NEW k \in Instrumentable(g, c),
         Record(c, k, g)
  PROVE  /\ k \in Keys /\ c \in Covers[k] /\ contents[g][k] \in Definition
         /\ methodDumpInfo' \in [Classes -> Info]
         /\ loadedClassInfo' \in [Keys -> LoadInfo]
         /\ \A d \in Classes \ {c} : methodDumpInfo'[d] = methodDumpInfo[d]
         /\ \A j \in Keys \ {k} : loadedClassInfo'[j] = loadedClassInfo[j]
         /\ loadedClassInfo'[k].classes = loadedClassInfo[k].classes \cup {c}
         /\ loadedClassInfo'[k].urls \subseteq loadedClassInfo[k].urls \cup {c}
         /\ contents[g][k].methods # {} => methodDumpInfo'[c].key = k
<1>1. g \in 0..MaxReloads
  BY ConfigsAssumption DEF Typed, ConfigsAssumption
<1>2. k \in getMonitorClassInfo(g, c) /\ k \in Keys /\ contents[g][k] \in Definition
  BY <1>1, Definitions
<1>3. c \in Covers[k]
  BY <1>2 DEF getMonitorClassInfo
<1>4. /\ loadedClassInfo[k] \in LoadInfo
      /\ addClassUrl(loadedClassInfo[k].urls, c) \subseteq loadedClassInfo[k].urls \cup {c}
  BY <1>2 DEF Typed, addClassUrl
<1> DEFINE entry == [classes |-> loadedClassInfo[k].classes \cup {c},
                     urls |-> addClassUrl(loadedClassInfo[k].urls, c)]
<1>5. /\ entry \in LoadInfo /\ entry.classes = loadedClassInfo[k].classes \cup {c}
      /\ entry.urls \subseteq loadedClassInfo[k].urls \cup {c}
  BY <1>4 DEF LoadInfo
<1>6. loadedClassInfo' = [loadedClassInfo EXCEPT ![k] = entry]
  BY DEF Record
<1> HIDE DEF entry
<1>7. /\ loadedClassInfo' \in [Keys -> LoadInfo] /\ loadedClassInfo'[k] = entry
      /\ \A j \in Keys \ {k} : loadedClassInfo'[j] = loadedClassInfo[j]
  BY <1>2, <1>5, <1>6 DEF Typed
<1>8. /\ methodDumpInfo' \in [Classes -> Info]
      /\ \A d \in Classes \ {c} : methodDumpInfo'[d] = methodDumpInfo[d]
      /\ contents[g][k].methods # {} => methodDumpInfo'[c].key = k
  <2>1. CASE contents[g][k].methods = {}
    BY <2>1 DEF Record, Typed
  <2>2. CASE contents[g][k].methods # {}
    <3> DEFINE note == [key |-> k, config |-> g]
    <3>1. note \in Info /\ note.key = k
      BY <1>2 DEF Info
    <3>2. methodDumpInfo' = [d \in Classes |-> IF d \in {c} THEN note ELSE methodDumpInfo[d]]
      BY <2>2 DEF Record, addMethodDumpInfo
    <3> HIDE DEF note
    <3> QED BY <3>1, <3>2 DEF Typed
  <2> QED BY <2>1, <2>2
<1> QED BY <1>2, <1>3, <1>5, <1>7, <1>8

\* A class that is instrumented and noted for its only definition is as prescribed.
LEMMA RecordedAsIn ==
  ASSUME Typed, UNCHANGED contents, NEW c \in Classes, NEW g \in 0..installed,
         NEW k \in Instrumentable(g, c), Record(c, k, g), code'[c] = contents[g][k]
  PROVE  AsIn(c, g)'
<1>1. getMonitorClassInfo(g, c)' = {k} /\ Prescribed(g, c)' = contents[g][k]
  BY Fitting, SameDefinitions
<1> QED BY <1>1, Recorded DEF AsIn, Carries

LEMMA RecordClassKeepsIInv ==
  ASSUME NEW c \in Classes, IInv, RecordClass(c)
  PROVE  IInv'
<1>1. Typed /\ Listed /\ Matched /\ Starting /\ Reloading /\ Treated
  BY DEF IInv
<1>0. PICK g \in 0..installed : g = match[c].config /\ match[c].key \in Instrumentable(g, c)
  BY <1>1 DEF RecordClass, Matched
<1>2. PICK k \in Instrumentable(g, c) : k = match[c].key
  BY <1>0
<1>3. /\ stage[c] = "insert" /\ phase # "start" /\ Record(c, k, g)
      /\ code' = [code EXCEPT ![c] = contents[g][k]]
      /\ stage' = [stage EXCEPT ![c] = "define"] /\ match' = [match EXCEPT ![c] = NoInfo]
      /\ raced' = IF g = installed THEN raced ELSE raced \cup {c}
      /\ UNCHANGED <<loaders, pending, contents, installed, callbacks, phase, todo, work>>
  BY <1>1, <1>0, <1>2 DEF RecordClass, reload, Starting
<1>4. /\ k \in Keys /\ c \in Covers[k] /\ contents[g][k] \in Definition
      /\ methodDumpInfo' \in [Classes -> Info]
      /\ loadedClassInfo' \in [Keys -> LoadInfo]
      /\ \A d \in Classes \ {c} : methodDumpInfo'[d] = methodDumpInfo[d]
      /\ \A j \in Keys \ {k} : loadedClassInfo'[j] = loadedClassInfo[j]
      /\ loadedClassInfo'[k].classes = loadedClassInfo[k].classes \cup {c}
      /\ loadedClassInfo'[k].urls \subseteq loadedClassInfo[k].urls \cup {c}
  BY <1>1, <1>3, <1>2, Recorded
<1>5. /\ stage' \in [Classes -> Stages] /\ stage'[c] = "define"
      /\ match' \in [Classes -> Info] /\ match'[c] = NoInfo
      /\ code' \in [Classes -> {Plain} \cup Definition] /\ code'[c] = contents[g][k]
      /\ \A d \in Classes \ {c} :
           stage'[d] = stage[d] /\ match'[d] = match[d] /\ code'[d] = code[d]
  BY <1>1, <1>3, <1>4 DEF Typed, Stages, Info
<1>6. Typed'
  BY <1>1, <1>3, <1>4, <1>5 DEF Typed, Info
<1>7. Listed'
  BY <1>1, <1>3, <1>4, <1>5 DEF Listed
<1>8. Matched'
  BY <1>1, <1>3, <1>5, SameDefinitions DEF Matched
<1>9. Starting' /\ Reloading'
  BY <1>1, <1>3, SameDefinitions DEF Starting, Reloading
<1>10. Treated'
  <2> SUFFICES ASSUME NEW d \in Classes, Judged(d)' PROVE Safe(d)'
    BY <1>3 DEF Treated
  <2>1. CASE d # c
    BY <1>1, <1>3, <1>4, <1>5, <2>1, SafeKept, JudgedKept DEF Reloading, Treated
  <2>2. CASE d = c
    <3>1. g = installed
      BY <1>3, <2>2 DEF Judged
    <3>2. AsIn(c, g)'
      BY <1>1, <1>3, <1>2, <1>5, RecordedAsIn
    <3> QED BY <1>3, <2>2, <3>1, <3>2 DEF Safe, AsIn
  <2> QED BY <2>1, <2>2
<1> QED BY <1>6, <1>7, <1>8, <1>9, <1>10 DEF IInv

LEMMA DefineClassKeepsIInv ==
  ASSUME NEW c \in Classes, IInv, DefineClass(c)
  PROVE  IInv'
<1>1. Typed /\ Listed /\ Matched /\ Starting /\ Reloading /\ Treated
  BY DEF IInv
<1>2. /\ stage[c] = "define" /\ stage' = [stage EXCEPT ![c] = "loaded"]
      /\ UNCHANGED <<match, code, loaders, pending, loadedClassInfo, methodDumpInfo, contents,
                     installed, callbacks, phase, todo, work, raced>>
  BY DEF DefineClass, tables, reload
<1>3. /\ stage' \in [Classes -> Stages] /\ stage'[c] = "loaded"
      /\ \A d \in Classes \ {c} : stage'[d] = stage[d]
  BY <1>1, <1>2 DEF Typed, Stages
<1>4. Typed'
  BY <1>1, <1>2, <1>3 DEF Typed, Info
<1>5. Listed'
  BY <1>1, <1>2, <1>3 DEF Listed
<1>6. Matched'
  BY <1>1, <1>2, <1>3, SameDefinitions DEF Matched
<1>7. Starting' /\ Reloading'
  BY <1>1, <1>2, <1>3, SameDefinitions DEF Starting, Reloading
<1>8. Treated'
  <2> SUFFICES ASSUME phase # "start", NEW d \in Classes, Judged(d)' PROVE Safe(d)'
    BY <1>2 DEF Treated
  <2>1. Judged(d)
    BY <1>2, <1>3, SameDefinitions DEF Judged, WellDefined
  <2> QED BY <1>1, <1>2, <2>1, SafeKept DEF Reloading, Treated
<1> QED BY <1>4, <1>5, <1>6, <1>7, <1>8 DEF IInv
-----------------------------------------------------------------------------
(* Steps of monitorThread *)

LEMMA VmInitKeepsIInv ==
  ASSUME IInv, VmInit
  PROVE  IInv'
<1>1. Typed /\ Listed /\ Matched /\ Starting /\ Reloading /\ Treated
  BY DEF IInv
<1>2. /\ phase = "start" /\ callbacks' = TRUE /\ pending' = {} /\ phase' = "idle"
      /\ work' = Found({c \in Classes : Name[c] \in pending}, installed)
      /\ UNCHANGED <<stage, match, code, loaders, loadedClassInfo, methodDumpInfo, contents,
                     installed, todo, raced>>
  BY DEF VmInit, tables
<1>3. installed = 0 /\ 0 \in 0..MaxReloads
  BY <1>1, <1>2, ConfigsAssumption DEF Starting, ConfigsAssumption
<1>4. work' \subseteq Classes /\ \A c \in work' : Loader[c] \in loaders
  BY <1>2 DEF Found
<1>5. Typed'
  BY <1>1, <1>2, <1>4 DEF Typed, Info
<1>6. Listed'
  BY <1>1, <1>2, <1>4 DEF Listed
<1>7. Matched'
  BY <1>1, <1>2, SameDefinitions DEF Matched
<1>8. Starting' /\ Reloading'
  BY <1>2 DEF Starting, Reloading
<1>9. Treated'
  <2> SUFFICES ASSUME NEW c \in Classes, Judged(c)' PROVE Safe(c)'
    BY DEF Treated
  <2>1. stage[c] # "no" /\ code[c] = Plain /\ Loader[c] \in loaders
    BY <1>1, <1>2 DEF Judged, Starting, Listed
  <2>2. CASE getMonitorClassInfo(0, c) = {}
    <3>1. Instrumentable(0, c) = {}
      BY <2>2 DEF Instrumentable
    <3>2. Prescribed(0, c) = Plain
      BY <3>1, NotFitting
    <3>3. AsIn(c, 0)
      BY <2>1, <2>2, <3>2 DEF AsIn, Carries
    <3>4. AsIn(c, 0)'
      BY <1>2, <3>3, AsInKept
    <3> QED BY <1>2, <1>3, <3>4 DEF Safe, AsIn
  <2>3. CASE getMonitorClassInfo(0, c) # {}
    <3>1. isRedefineClassName(0, Name[c])
      BY <1>1, <1>3, <2>3, CoverNames
    <3>2. Name[c] \in pending
      BY <1>1, <1>2, <2>1, <3>1 DEF Starting
    <3>3. c \in work'
      BY <1>2, <1>3, <2>1, <2>3, <3>2 DEF Found
    <3> QED BY <3>3 DEF Safe
  <2> QED BY <2>2, <2>3
<1> QED BY <1>5, <1>6, <1>7, <1>8, <1>9 DEF IInv

LEMMA RedefineClassKeepsIInv ==
  ASSUME NEW c \in Classes, IInv, RedefineClass(c)
  PROVE  IInv'
<1>1. Typed /\ Listed /\ Matched /\ Starting /\ Reloading /\ Treated
  BY DEF IInv
<1>2. /\ c \in work /\ stage[c] \in {"no", "loaded"} /\ phase # "start"
      /\ work' = work \ {c} /\ raced' = raced \ {c}
      /\ stage' = [stage EXCEPT ![c] = "loaded"]
      /\ code' = [code EXCEPT ![c] = Prescribed(installed, c)]
      /\ UNCHANGED <<match, loaders, pending, contents, installed, callbacks, phase, todo>>
  BY <1>1 DEF RedefineClass, Starting
<1>3. /\ installed \in 0..MaxReloads /\ installed \in 0..installed /\ Loader[c] \in loaders
      /\ match[c] = NoInfo
  BY <1>1, <1>2 DEF Typed, Listed, Matched
<1>4. /\ Prescribed(installed, c) \in {Plain} \cup Definition
      /\ methodDumpInfo' \in [Classes -> Info]
      /\ loadedClassInfo' \in [Keys -> LoadInfo]
      /\ \A d \in Classes \ {c} : methodDumpInfo'[d] = methodDumpInfo[d]
      /\ \A j \in Keys :
           /\ loadedClassInfo[j].classes \subseteq loadedClassInfo'[j].classes
           /\ loadedClassInfo'[j].classes \subseteq Covers[j]
           /\ loadedClassInfo'[j].urls \subseteq loadedClassInfo'[j].classes
           /\ \A d \in loadedClassInfo'[j].classes : Loader[d] \in loaders
  <2>1. CASE \E k \in Instrumentable(installed, c) : Record(c, k, installed)
    <3>1. PICK k \in Instrumentable(installed, c) : Record(c, k, installed)
      BY <2>1
    <3>2. Prescribed(installed, c) = contents[installed][k]
      BY Fitting
    <3>3. /\ k \in Keys /\ c \in Covers[k] /\ contents[installed][k] \in Definition
          /\ methodDumpInfo' \in [Classes -> Info]
          /\ loadedClassInfo' \in [Keys -> LoadInfo]
          /\ \A d \in Classes \ {c} : methodDumpInfo'[d] = methodDumpInfo[d]
          /\ \A j \in Keys \ {k} : loadedClassInfo'[j] = loadedClassInfo[j]
          /\ loadedClassInfo'[k].classes = loadedClassInfo[k].classes \cup {c}
          /\ loadedClassInfo'[k].urls \subseteq loadedClassInfo[k].urls \cup {c}
      BY <1>1, <1>3, <3>1, Recorded
    <3> QED BY <1>1, <1>3, <3>2, <3>3 DEF Listed
  <2>2. CASE Instrumentable(installed, c) = {} /\ UNCHANGED tables
    <3>1. Prescribed(installed, c) = Plain
      BY <2>2, NotFitting
    <3> QED BY <1>1, <2>2, <3>1 DEF Typed, Listed, tables
  <2> QED BY <2>1, <2>2 DEF RedefineClass
<1>5. /\ stage' \in [Classes -> Stages] /\ stage'[c] = "loaded"
      /\ code' \in [Classes -> {Plain} \cup Definition] /\ code'[c] = Prescribed(installed, c)
      /\ \A d \in Classes \ {c} : stage'[d] = stage[d] /\ code'[d] = code[d]
  BY <1>1, <1>2, <1>4 DEF Typed, Stages
<1>6. Typed'
  BY <1>1, <1>2, <1>4, <1>5 DEF Typed, Info
<1>7. Listed'
  BY <1>1, <1>2, <1>3, <1>4, <1>5 DEF Listed
<1>8. Matched'
  BY <1>1, <1>2, <1>3, <1>5, SameDefinitions DEF Matched
<1>9. Starting' /\ Reloading'
  BY <1>1, <1>2, SameDefinitions DEF Starting, Reloading
<1>10. Treated'
  <2> SUFFICES ASSUME NEW d \in Classes, Judged(d)' PROVE Safe(d)'
    BY DEF Treated
  <2>1. CASE d # c
    <3>1. Judged(d)
      BY <1>2, <1>5, <2>1, SameDefinitions DEF Judged, WellDefined
    <3> QED BY <1>1, <1>2, <1>4, <1>5, <2>1, <3>1, SafeKept DEF Reloading, Treated
  <2>2. CASE d = c
    <3>1. WellDefined(c)
      BY <1>2, <2>2, SameDefinitions DEF Judged, WellDefined
    <3>2. CASE \E k \in Instrumentable(installed, c) : Record(c, k, installed)
      <4>1. PICK g \in 0..installed : g = installed
        BY <1>3
      <4>2. PICK k \in Instrumentable(g, c) : Record(c, k, g)
        BY <3>2, <4>1
      <4>3. code'[c] = contents[g][k]
        BY <1>5, <4>1, Fitting
      <4>4. AsIn(c, g)'
        BY <1>1, <1>2, <4>2, <4>3, RecordedAsIn
      <4> QED BY <1>2, <2>2, <4>1, <4>4 DEF Safe, AsIn
    <3>3. CASE Instrumentable(installed, c) = {}
      <4>1. getMonitorClassInfo(installed, c) = {} /\ Prescribed(installed, c) = Plain
        BY <1>3, <3>1, <3>3, WellDefinedCases
      <4>2. AsIn(c, installed)'
        BY <1>2, <1>5, <2>2, <4>1, SameDefinitions DEF AsIn, Carries
      <4> QED BY <2>2, <4>2 DEF Safe
    <3> QED BY <3>2, <3>3 DEF RedefineClass
  <2> QED BY <2>1, <2>2
<1> QED BY <1>6, <1>7, <1>8, <1>9, <1>10 DEF IInv

LEMMA InstallConfigKeepsIInv ==
  ASSUME IInv, InstallConfig
  PROVE  IInv'
<1>1. Typed /\ Listed /\ Matched /\ Starting /\ Reloading /\ Treated
  BY DEF IInv
<1>2. /\ phase = "idle" /\ work = {} /\ installed < MaxReloads
      /\ installed' = installed + 1 /\ phase' = "old" /\ todo' = Defined(installed)
      /\ UNCHANGED <<stage, match, code, loaders, pending, loadedClassInfo, methodDumpInfo,
                     contents, callbacks, work, raced>>
  BY DEF InstallConfig, loading, tables
<1>3. /\ installed \in Nat /\ installed \in 0..MaxReloads /\ installed' \in 0..MaxReloads
      /\ installed' - 1 = installed /\ 0..installed \subseteq 0..(installed')
  BY <1>1, <1>2, ConfigsAssumption DEF Typed, ConfigsAssumption
<1>4. Info \subseteq Info'
  BY <1>3 DEF Info
<1>5. Typed'
  <2>1. todo' \subseteq Keys
    BY <1>1, <1>2, <1>3, Definitions
  <2> HIDE DEF Info
  <2> QED BY <1>1, <1>2, <1>3, <1>4, <2>1 DEF Typed
<1>6. Listed'
  BY <1>1, <1>2 DEF Listed
<1>7. Matched'
  BY <1>1, <1>2, <1>3, SameDefinitions DEF Matched
<1>8. Starting' /\ Reloading'
  BY <1>2, <1>3 DEF Starting, Reloading
<1>9. Treated'
  <2> SUFFICES ASSUME NEW c \in Classes, Judged(c)' PROVE Safe(c)'
    BY DEF Treated
  <2>1. WellDefined(c)
    BY <1>2, <1>3, WellDefinedBefore DEF Judged
  <2>2. AsIn(c, installed)
    BY <1>1, <1>2, <2>1 DEF Judged, Treated, Safe, Ahead
  <2>3. PICK g \in 0..MaxReloads : g = installed
    BY <1>3
  <2>4. AsIn(c, g)'
    BY <1>2, <2>2, <2>3, AsInKept
  <2>5. AsIn(c, installed - 1)'
    BY <1>3, <2>3, <2>4 DEF AsIn
  <2>6. (getMonitorClassInfo(installed - 1, c) \ Defined(installed) \subseteq todo)'
    BY <1>1, <1>2, <1>3, <2>3, Definitions, SameDefinitions
  <2> QED BY <1>2, <2>5, <2>6 DEF Safe, Ahead
<1> QED BY <1>5, <1>6, <1>7, <1>8, <1>9 DEF IInv

LEMMA OldDefinitionsDoneKeepsIInv ==
  ASSUME IInv, OldDefinitionsDone
  PROVE  IInv'
<1>1. Typed /\ Listed /\ Matched /\ Starting /\ Reloading /\ Treated
  BY DEF IInv
<1>2. /\ phase = "old" /\ todo = {} /\ work = {} /\ phase' = "new" /\ todo' = Defined(installed)
      /\ UNCHANGED <<stage, match, code, loaders, pending, loadedClassInfo, methodDumpInfo,
                     contents, installed, callbacks, work, raced>>
  BY DEF OldDefinitionsDone, loading, tables
<1>3. installed \in 0..MaxReloads /\ installed >= 1 /\ todo' \subseteq Keys
  BY <1>1, <1>2, Definitions DEF Typed, Reloading
<1>4. Typed'
  BY <1>1, <1>2, <1>3 DEF Typed, Info
<1>5. Listed'
  BY <1>1, <1>2 DEF Listed
<1>6. Matched'
  BY <1>1, <1>2, SameDefinitions DEF Matched
<1>7. Starting' /\ Reloading'
  BY <1>2, <1>3, SameDefinitions DEF Starting, Reloading
<1>8. Treated'
  <2> SUFFICES ASSUME NEW c \in Classes, Judged(c)' PROVE Safe(c)'
    BY DEF Treated
  <2>1. Judged(c)
    BY <1>2, SameDefinitions DEF Judged, WellDefined
  <2>2. AsIn(c, installed) \/ Ahead(c)
    BY <1>1, <1>2, <2>1 DEF Treated, Safe
  <2>3. CASE AsIn(c, installed)
    BY <1>2, <2>3, SameDefinitions DEF Safe, AsIn
  <2>4. CASE Ahead(c)
    <3>1. AsIn(c, installed - 1)'
      BY <1>2, <2>4, SameDefinitions DEF Ahead, AsIn
    <3>2. getMonitorClassInfo(installed - 1, c) \subseteq Defined(installed)
      BY <1>2, <2>4 DEF Ahead
    <3>3. getMonitorClassInfo(installed, c) \subseteq todo'
      BY <1>1, <1>2, <1>3, Definitions
    <3> QED BY <1>2, <3>1, <3>2, <3>3, SameDefinitions DEF Safe, Ahead
  <2> QED BY <2>2, <2>3, <2>4
<1> QED BY <1>4, <1>5, <1>6, <1>7, <1>8 DEF IInv

LEMMA FinishReloadKeepsIInv ==
  ASSUME IInv, FinishReload
  PROVE  IInv'
<1>1. Typed /\ Listed /\ Matched /\ Starting /\ Reloading /\ Treated
  BY DEF IInv
<1>2. /\ phase = "new" /\ todo = {} /\ work = {} /\ phase' = "idle"
      /\ UNCHANGED <<stage, match, code, loaders, pending, loadedClassInfo, methodDumpInfo,
                     contents, installed, callbacks, todo, work, raced>>
  BY DEF FinishReload, loading, tables
<1>3. installed \in 0..MaxReloads /\ installed >= 1 /\ installed - 1 \in 0..MaxReloads
  BY <1>1, <1>2, ConfigsAssumption DEF Typed, Reloading, ConfigsAssumption
<1>4. Typed'
  BY <1>1, <1>2, <1>3 DEF Typed, Info
<1>5. Listed'
  BY <1>1, <1>2 DEF Listed
<1>6. Matched'
  BY <1>1, <1>2, SameDefinitions DEF Matched
<1>7. Starting' /\ Reloading'
  BY <1>2, <1>3 DEF Starting, Reloading
<1>8. Treated'
  <2> SUFFICES ASSUME NEW c \in Classes, Judged(c)' PROVE Safe(c)'
    BY DEF Treated
  <2>1. Judged(c)
    BY <1>2, SameDefinitions DEF Judged, WellDefined
  <2>2. AsIn(c, installed) \/ Ahead(c)
    BY <1>1, <1>2, <2>1 DEF Treated, Safe
  \* No key of either Config covers a class that is ahead.
  <2>3. ASSUME Ahead(c) PROVE AsIn(c, installed)
    <3>1. getMonitorClassInfo(installed, c) = {}
      BY <1>2, <2>3 DEF Ahead
    <3>2. getMonitorClassInfo(installed - 1, c) = {}
      BY <1>2, <2>3, <3>1 DEF Ahead, getMonitorClassInfo
    <3>3. Instrumentable(installed, c) = {} /\ Instrumentable(installed - 1, c) = {}
      BY <3>1, <3>2 DEF Instrumentable
    <3>4. Prescribed(installed, c) = Plain /\ Prescribed(installed - 1, c) = Plain
      BY <3>3 DEF Prescribed
    <3>5. code[c] = Plain
      <4>1. installed - 1 \in Nat
        BY <1>1, <1>2, ConfigsAssumption DEF Typed, Reloading, ConfigsAssumption
      <4> QED BY <2>3, <3>3, <4>1, CarriesMethods DEF Ahead, AsIn
    <3> QED BY <3>1, <3>4, <3>5 DEF AsIn, Carries
  <2>4. AsIn(c, installed)
    BY <2>2, <2>3
  <2> QED BY <1>2, <2>4, SameDefinitions DEF Safe, AsIn
<1> QED BY <1>4, <1>5, <1>6, <1>7, <1>8 DEF IInv

\* redefineClasses of an entry forgets its classes and leaves the others alone.
LEMMA Forgotten ==
  ASSUME Typed, NEW k \in Keys, RedefineOld(k)
  PROVE  /\ methodDumpInfo' \in [Classes -> Info]
         /\ loadedClassInfo' \in [Keys -> LoadInfo]
         /\ \A c \in Classes : methodDumpInfo[c].key # k => methodDumpInfo'[c] = methodDumpInfo[c]
         /\ \A j \in Keys \ {k} : loadedClassInfo'[j] = loadedClassInfo[j]
         /\ loadedClassInfo'[k].classes = {} /\ loadedClassInfo'[k].urls = {}
         /\ work' = loadedClassInfo[k].classes /\ work' \subseteq Classes
<1> DEFINE none == [classes |-> {}, urls |-> {}]
<1>1. none \in LoadInfo /\ none.classes = {} /\ none.urls = {}
  BY DEF LoadInfo
<1>2. loadedClassInfo' = [loadedClassInfo EXCEPT ![k] = none]
  BY DEF RedefineOld
<1> HIDE DEF none
<1>3. /\ loadedClassInfo' \in [Keys -> LoadInfo] /\ loadedClassInfo'[k] = none
      /\ \A j \in Keys \ {k} : loadedClassInfo'[j] = loadedClassInfo[j]
  BY <1>1, <1>2 DEF Typed
<1>4. NoInfo \in Info
  BY DEF Info
<1>5. /\ methodDumpInfo' \in [Classes -> Info]
      /\ \A c \in Classes : methodDumpInfo[c].key # k => methodDumpInfo'[c] = methodDumpInfo[c]
  <2> HIDE DEF Info
  <2> QED BY <1>4 DEF RedefineOld, Forget, Typed
<1>6. work' = loadedClassInfo[k].classes /\ work' \subseteq Classes
  BY DEF RedefineOld, Typed, LoadInfo
<1> QED BY <1>1, <1>3, <1>5, <1>6

\* A class that Config g defines by other keys only is left as g prescribes.
LEMMA ForgottenAsIn ==
  ASSUME Typed, UNCHANGED <<contents, code>>, NEW k \in Keys, RedefineOld(k),
         NEW c \in Classes, NEW g \in 0..MaxReloads, k \notin getMonitorClassInfo(g, c), AsIn(c, g)
  PROVE  AsIn(c, g)'
<1>1. getMonitorClassInfo(g, c) \subseteq Keys
  BY Definitions
<1>2. \A j \in getMonitorClassInfo(g, c) : c \in loadedClassInfo'[j].classes
  BY <1>1, Forgotten DEF AsIn
<1>3. \A j \in getMonitorClassInfo(g, c) :
        contents[g][j].methods # {} => methodDumpInfo'[c].key = j
  BY <1>1, Forgotten DEF AsIn
<1> QED BY <1>2, <1>3, SameDefinitions DEF AsIn

\* What both loops leave alone
LEMMA LoopSteps ==
  ASSUME IInv, NEW at \in {"old", "new"}, Take(at),
         methodDumpInfo' \in [Classes -> Info], loadedClassInfo' \in [Keys -> LoadInfo],
         work' \subseteq {c \in Classes : Loader[c] \in loaders},
         \A j \in Keys : loadedClassInfo'[j] = loadedClassInfo[j] \/
           (loadedClassInfo'[j].classes = {} /\ loadedClassInfo'[j].urls = {}),
         Treated'
  PROVE  IInv'
<1>1. Typed /\ Listed /\ Matched /\ Starting /\ Reloading /\ Treated
  BY DEF IInv
<1>2. /\ phase = at /\ todo' \subseteq todo
      /\ UNCHANGED <<stage, match, code, loaders, pending, contents, installed, callbacks,
                     phase, raced>>
  BY DEF Take, loading
<1>3. Typed'
  BY <1>1, <1>2 DEF Typed, Info
<1>4. Listed'
  BY <1>1, <1>2 DEF Listed
<1>5. Matched'
  BY <1>1, <1>2, SameDefinitions DEF Matched
<1>6. Starting' /\ Reloading'
  BY <1>1, <1>2, SameDefinitions DEF Starting, Reloading
<1> QED BY <1>3, <1>4, <1>5, <1>6 DEF IInv

\* Which classes the loops have to look at
LEMMA LoopClasses ==
  ASSUME IInv, NEW at \in {"old", "new"}, Take(at), NEW c \in Classes, Judged(c)'
  PROVE  /\ WellDefined(c) /\ Loader[c] \in loaders
         /\ AsIn(c, installed) \/ Ahead(c)
<1>1. Typed /\ Listed /\ Matched /\ Starting /\ Reloading /\ Treated
  BY DEF IInv
<1>2. UNCHANGED <<contents, installed, stage, raced>> /\ phase # "start" /\ work = {}
  BY DEF Take, loading
<1>3. Judged(c)
  BY <1>2, SameDefinitions DEF Judged, WellDefined
<1>4. stage[c] # "no"
  BY <1>3 DEF Judged
<1> QED BY <1>1, <1>2, <1>3, <1>4 DEF Judged, Treated, Safe, Listed

LEMMA OldDefinitionKeepsIInv ==
  ASSUME IInv, OldDefinition
  PROVE  IInv'
<1>1. Typed /\ Listed /\ Matched /\ Starting /\ Reloading /\ Treated
  BY DEF IInv
<1>2. /\ Take("old") /\ phase = "old" /\ work = {} /\ todo # {} /\ todo' = todo \ {First}
      /\ UNCHANGED <<contents, code, installed, phase>>
  BY DEF OldDefinition, Take, loading
<1>3. First \in todo /\ First \in Keys
  BY <1>1, <1>2, FirstIsTodo DEF Typed
<1>4. /\ installed \in 0..MaxReloads /\ installed >= 1 /\ installed - 1 \in 0..MaxReloads
  BY <1>1, <1>2, ConfigsAssumption DEF Typed, Reloading, ConfigsAssumption
<1>5. PICK k \in Keys : k = First
  BY <1>3
<1>6. PICK g \in 0..MaxReloads : g = installed
  BY <1>4
<1>7. PICK h \in 0..MaxReloads : h = installed - 1
  BY <1>4
<1>8. CASE k \in Defined(g)
  <2>1. UNCHANGED <<loadedClassInfo, methodDumpInfo, work>>
    BY <1>5, <1>6, <1>8 DEF OldDefinition, tables
  <2>2. Treated'
    <3> SUFFICES ASSUME NEW c \in Classes, Judged(c)' PROVE Safe(c)'
      BY DEF Treated
    <3>1. AsIn(c, installed) \/ Ahead(c)
      BY <1>2, LoopClasses
    <3>2. CASE AsIn(c, installed)
      BY <1>2, <2>1, <3>2, SameDefinitions DEF Safe, AsIn
    <3>3. CASE Ahead(c)
      <4>1. AsIn(c, installed - 1)'
        BY <1>2, <2>1, <3>3, SameDefinitions DEF Ahead, AsIn
      <4>2. getMonitorClassInfo(installed - 1, c) \ Defined(installed) \subseteq todo'
        BY <1>2, <1>5, <1>6, <1>8, <3>3 DEF Ahead
      <4> QED BY <1>2, <4>1, <4>2, SameDefinitions DEF Safe, Ahead
    <3> QED BY <3>1, <3>2, <3>3
  <2> QED BY <1>1, <1>2, <2>1, <2>2, LoopSteps DEF Typed
<1>9. CASE k \notin Defined(g)
  <2>1. RedefineOld(k)
    BY <1>5, <1>6, <1>9 DEF OldDefinition
  <2>2. /\ methodDumpInfo' \in [Classes -> Info]
        /\ loadedClassInfo' \in [Keys -> LoadInfo]
        /\ \A j \in Keys \ {k} : loadedClassInfo'[j] = loadedClassInfo[j]
        /\ loadedClassInfo'[k].classes = {} /\ loadedClassInfo'[k].urls = {}
        /\ work' = loadedClassInfo[k].classes /\ work' \subseteq Classes
    BY <1>1, <2>1, Forgotten
  <2>3. work' \subseteq {c \in Classes : Loader[c] \in loaders}
    BY <1>1, <2>2 DEF Listed
  <2>4. Treated'
    <3> SUFFICES ASSUME NEW c \in Classes, Judged(c)' PROVE Safe(c)'
      BY DEF Treated
    <3>1. AsIn(c, installed) \/ Ahead(c)
      BY <1>2, LoopClasses
    <3>2. CASE AsIn(c, installed)
      <4>1. k \notin getMonitorClassInfo(g, c)
        BY <1>9 DEF getMonitorClassInfo
      <4>2. AsIn(c, g)'
        BY <1>1, <1>2, <1>6, <2>1, <3>2, <4>1, ForgottenAsIn
      <4> QED BY <1>2, <1>6, <4>2 DEF Safe, AsIn
    <3>3. CASE Ahead(c) /\ k \in getMonitorClassInfo(h, c)
      BY <1>7, <2>2, <3>3 DEF Safe, Ahead, AsIn
    <3>4. CASE Ahead(c) /\ k \notin getMonitorClassInfo(h, c)
      <4>1. AsIn(c, h)'
        BY <1>1, <1>2, <1>7, <2>1, <3>4, ForgottenAsIn DEF Ahead
      <4>2. AsIn(c, installed - 1)'
        BY <1>2, <1>7, <4>1 DEF AsIn
      <4>3. getMonitorClassInfo(installed - 1, c) \ Defined(installed) \subseteq todo'
        BY <1>2, <1>5, <1>7, <3>4 DEF Ahead
      <4> QED BY <1>2, <4>2, <4>3, SameDefinitions DEF Safe, Ahead
    <3> QED BY <3>1, <3>2, <3>3, <3>4
  <2> QED BY <1>2, <2>2, <2>3, <2>4, LoopSteps
<1> QED BY <1>8, <1>9

\* A definition that is not to be redefined is the same as before, but for positions.
LEMMA SameDefinition ==
  ASSUME Typed, NEW g \in 0..MaxReloads, NEW h \in 0..MaxReloads,
         NEW k \in Defined(g), k \in Defined(h), ~needRedefine(contents[g][k], contents[h][k])
  PROVE  /\ contents[g][k].type = contents[h][k].type
         /\ contents[g][k].methods = contents[h][k].methods
<1>1. /\ contents[g][k] \in Definition /\ contents[h][k] \in Definition
      /\ contents[g][k].type = 1 => contents[g][k].methods = {}
      /\ contents[h][k].type = 1 => contents[h][k].methods = {}
  BY Definitions
<1> QED BY <1>1 DEF needRedefine

\* What has only moved up to the old Config has only moved up to the new one.
LEMMA StillOnlyMoved ==
  ASSUME NEW g \in Nat \ {0}, NEW k \in Defined(g), NEW e \in 0..(g - 1), OnlyMoved(k, e, g - 1),
         contents[g][k].type = contents[g - 1][k].type,
         contents[g][k].methods = contents[g - 1][k].methods
  PROVE  OnlyMoved(k, e, g)
<1>1. \A i \in e..g : i \in e..(g - 1) \/ i = g
  OBVIOUS
<1> QED BY <1>1 DEF OnlyMoved

LEMMA NewDefinitionKeepsIInv ==
  ASSUME IInv, NewDefinition
  PROVE  IInv'
<1>1. Typed /\ Listed /\ Matched /\ Starting /\ Reloading /\ Treated
  BY DEF IInv
<1>2. /\ Take("new") /\ phase = "new" /\ work = {} /\ todo # {} /\ todo' = todo \ {First}
      /\ UNCHANGED <<contents, code, loaders, installed, phase>>
  BY DEF NewDefinition, Take, loading
<1>3. First \in todo /\ First \in Keys /\ First \in Defined(installed)
  BY <1>1, <1>2, FirstIsTodo DEF Typed, Reloading
<1>4. /\ installed \in 0..MaxReloads /\ installed >= 1 /\ installed - 1 \in 0..MaxReloads
      /\ installed \in 0..installed /\ installed - 1 \in 0..installed
  BY <1>1, <1>2, ConfigsAssumption DEF Typed, Reloading, ConfigsAssumption
<1>5. PICK k \in Keys : k = First
  BY <1>3
<1>6. PICK g \in 0..MaxReloads : g = installed
  BY <1>4
<1>7. PICK h \in 0..MaxReloads : h = installed - 1
  BY <1>4
<1>8. k \in Defined(g)
  BY <1>3, <1>5, <1>6
\* A class that is ahead and not covered by k stays ahead, if it is noted as before.
<1>9. ASSUME NEW c \in Classes, Ahead(c), k \notin getMonitorClassInfo(g, c), AsIn(c, h)'
      PROVE  Ahead(c)'
  <2>1. AsIn(c, installed - 1)'
    BY <1>2, <1>7, <1>9 DEF AsIn
  <2>2. /\ getMonitorClassInfo(installed - 1, c) \subseteq Defined(installed)
        /\ getMonitorClassInfo(installed, c) \subseteq todo'
    BY <1>2, <1>5, <1>6, <1>9 DEF Ahead
  <2> QED BY <1>2, <2>1, <2>2, SameDefinitions DEF Ahead
<1>10. CASE redefineClassesNew(k)
  <2>1. /\ UNCHANGED <<loadedClassInfo, methodDumpInfo>>
        /\ work' = {c \in Covers[k] : Loader[c] \in loaders /\ getMonitorClassInfo(g, c) # {}}
    BY <1>6, <1>10 DEF redefineClassesNew, tables, Found
  <2>2. work' \subseteq {c \in Classes : Loader[c] \in loaders}
    BY <2>1, ClassesAssumption DEF ClassesAssumption
  <2>3. Treated'
    <3> SUFFICES ASSUME NEW c \in Classes, Judged(c)' PROVE Safe(c)'
      BY DEF Treated
    <3>1. (AsIn(c, installed) \/ Ahead(c)) /\ Loader[c] \in loaders
      BY <1>2, LoopClasses
    <3>2. CASE AsIn(c, installed)
      BY <1>2, <2>1, <3>2, SameDefinitions DEF Safe, AsIn
    <3>3. CASE k \in getMonitorClassInfo(g, c)
      BY <2>1, <3>1, <3>3 DEF Safe, getMonitorClassInfo
    <3>4. CASE Ahead(c) /\ k \notin getMonitorClassInfo(g, c)
      <4>1. AsIn(c, h)'
        BY <1>2, <1>7, <2>1, <3>4, SameDefinitions DEF Ahead, AsIn
      <4> QED BY <1>9, <3>4, <4>1 DEF Safe
    <3> QED BY <3>1, <3>2, <3>3, <3>4
  <2> QED BY <1>1, <1>2, <2>1, <2>2, <2>3, LoopSteps DEF Typed
<1>11. CASE k \in Defined(h) /\ RedefineOld(k)
  <2>1. /\ methodDumpInfo' \in [Classes -> Info]
        /\ loadedClassInfo' \in [Keys -> LoadInfo]
        /\ \A j \in Keys \ {k} : loadedClassInfo'[j] = loadedClassInfo[j]
        /\ loadedClassInfo'[k].classes = {} /\ loadedClassInfo'[k].urls = {}
        /\ work' = loadedClassInfo[k].classes /\ work' \subseteq Classes
    BY <1>1, <1>11, Forgotten
  <2>2. work' \subseteq {c \in Classes : Loader[c] \in loaders}
    BY <1>1, <2>1 DEF Listed
  <2>3. Treated'
    <3> SUFFICES ASSUME NEW c \in Classes, Judged(c)' PROVE Safe(c)'
      BY DEF Treated
    <3>1. AsIn(c, installed) \/ Ahead(c)
      BY <1>2, LoopClasses
    <3>2. CASE k \in getMonitorClassInfo(g, c)
      \* Both Configs cover c by k.
      <4>1. k \in getMonitorClassInfo(h, c)
        BY <1>11, <3>2 DEF getMonitorClassInfo
      <4>2. c \in loadedClassInfo[k].classes
        BY <1>6, <1>7, <3>1, <3>2, <4>1 DEF AsIn, Ahead
      <4> QED BY <2>1, <4>2 DEF Safe
    <3>3. CASE AsIn(c, installed) /\ k \notin getMonitorClassInfo(g, c)
      <4>1. AsIn(c, g)'
        BY <1>1, <1>2, <1>6, <1>11, <3>3, ForgottenAsIn
      <4> QED BY <1>2, <1>6, <4>1 DEF Safe, AsIn
    <3>4. CASE Ahead(c) /\ k \notin getMonitorClassInfo(g, c)
      <4>1. k \notin getMonitorClassInfo(h, c)
        BY <1>8, <3>4 DEF getMonitorClassInfo
      <4>2. AsIn(c, h)'
        BY <1>1, <1>2, <1>7, <1>11, <3>4, <4>1, ForgottenAsIn DEF Ahead
      <4> QED BY <1>9, <3>4, <4>2 DEF Safe
    <3> QED BY <3>1, <3>2, <3>3, <3>4
  <2> QED BY <1>2, <2>1, <2>2, <2>3, LoopSteps
<1>12. CASE /\ k \in Defined(h) /\ ~needRedefine(contents[g][k], contents[h][k])
            /\ methodDumpInfo' = IF contents[g][k].type = 1 THEN methodDumpInfo
                 ELSE addMethodDumpInfo(methodDumpInfo, k, g, loadedClassInfo[k].urls)
            /\ UNCHANGED <<loadedClassInfo, work>>
  <2>1. /\ contents[g][k].type = contents[h][k].type
        /\ contents[g][k].methods = contents[h][k].methods
        /\ contents[g][k].type = 1 => contents[g][k].methods = {}
    BY <1>1, <1>8, <1>12, SameDefinition, Definitions
  <2> DEFINE note == [key |-> k, config |-> g]
  <2>2. note \in Info /\ note.key = k
    BY <1>4, <1>6 DEF Info
  <2>3. /\ methodDumpInfo' \in [Classes -> Info]
        /\ \A c \in Classes \ loadedClassInfo[k].urls : methodDumpInfo'[c] = methodDumpInfo[c]
        /\ contents[g][k].type # 1 => \A c \in loadedClassInfo[k].urls : methodDumpInfo'[c] = note
    <3>1. CASE contents[g][k].type = 1
      BY <1>1, <1>12, <3>1 DEF Typed
    <3>2. CASE contents[g][k].type # 1
      <4>1. methodDumpInfo' =
              [c \in Classes |-> IF c \in loadedClassInfo[k].urls THEN note ELSE methodDumpInfo[c]]
        BY <1>12, <3>2 DEF addMethodDumpInfo
      <4>2. loadedClassInfo[k].urls \subseteq Classes
        BY <1>1 DEF Typed, LoadInfo
      <4> HIDE DEF note
      <4> QED BY <1>1, <2>2, <3>2, <4>1, <4>2 DEF Typed
    <3> QED BY <3>1, <3>2
  <2> HIDE DEF note
  <2>4. Treated'
    <3> SUFFICES ASSUME NEW c \in Classes, Judged(c)' PROVE Safe(c)'
      BY DEF Treated
    <3>1. (AsIn(c, installed) \/ Ahead(c)) /\ WellDefined(c)
      BY <1>2, LoopClasses
    <3>2. CASE k \in getMonitorClassInfo(g, c)
      <4>1. k \in getMonitorClassInfo(h, c)
        BY <1>12, <3>2 DEF getMonitorClassInfo
      <4>2. k \in Instrumentable(g, c) /\ k \in Instrumentable(h, c)
        BY <1>4, <1>6, <1>7, <3>1, <3>2, <4>1 DEF WellDefined
      <4>3. /\ getMonitorClassInfo(g, c) = {k} /\ Prescribed(g, c) = contents[g][k]
            /\ Prescribed(h, c) = contents[h][k]
        BY <4>2, Fitting
      <4>4. /\ Carries(c, g) \/ Carries(c, h)
            /\ c \in loadedClassInfo[k].classes
            /\ contents[g][k].methods # {} => methodDumpInfo[c].key = k
        BY <1>6, <1>7, <2>1, <3>1, <3>2, <4>1, <4>3 DEF AsIn, Ahead
      <4>5. contents[g][k].methods # {} => methodDumpInfo'[c].key = k
        BY <2>1, <2>2, <2>3, <4>4
      \* What was carried as of the old Config has only moved since.
      <4>6. Carries(c, h) => Carries(c, g)
        <5>1. h = g - 1 /\ g \in Nat \ {0} /\ h \in 0..g /\ h \in Nat
          BY <1>4, <1>6, <1>7
        <5>2. ASSUME NEW e \in 0..h, OnlyMoved(k, e, h), code[c] = contents[e][k]
              PROVE  Carries(c, g)
          <6>1. OnlyMoved(k, e, g)
            BY <1>8, <2>1, <5>1, <5>2, StillOnlyMoved
          <6>2. e \in 0..g
            BY <5>1
          <6> QED BY <4>2, <5>2, <6>1, <6>2 DEF Carries
        <5>3. OnlyMoved(k, h, h)
          BY <1>12, <5>1 DEF OnlyMoved
        <5>4. Instrumentable(h, c) = {k}
          BY <4>2, Fitting
        <5>5. h \in 0..h
          BY <5>1
        <5> QED BY <4>3, <5>2, <5>3, <5>4, <5>5 DEF Carries
      <4>7. AsIn(c, g)'
        BY <1>2, <1>12, <4>3, <4>4, <4>5, <4>6, SameDefinitions DEF AsIn
      <4> QED BY <1>2, <1>6, <4>7 DEF Safe, AsIn
    <3>3. CASE k \notin getMonitorClassInfo(g, c)
      <4>1. c \notin loadedClassInfo[k].urls
        BY <1>1, <1>8, <3>3 DEF Listed, getMonitorClassInfo
      <4>2. methodDumpInfo'[c] = methodDumpInfo[c]
        BY <2>3, <4>1
      <4>3. CASE AsIn(c, installed)
        BY <1>2, <1>12, <4>2, <4>3, SameDefinitions DEF Safe, AsIn
      <4>4. CASE Ahead(c)
        <5>1. AsIn(c, h)'
          BY <1>2, <1>7, <1>12, <4>2, <4>4, SameDefinitions DEF Ahead, AsIn
        <5> QED BY <1>9, <3>3, <4>4, <5>1 DEF Safe
      <4> QED BY <3>1, <4>3, <4>4
    <3> QED BY <3>2, <3>3
  <2>5. work' \subseteq {c \in Classes : Loader[c] \in loaders}
    BY <1>2, <1>12
  <2> QED BY <1>2, <1>12, <2>3, <2>4, <2>5, <1>1, LoopSteps DEF Typed
<1> QED BY <1>5, <1>6, <1>7, <1>10, <1>11, <1>12 DEF NewDefinition
-----------------------------------------------------------------------------
(* Output settings *)

\* What methodDumpInfo has for a class is a definition of methods of its Config.
Known ==
  \A c \in Classes : methodDumpInfo[c] # NoInfo =>
    /\ methodDumpInfo[c].config \in 0..installed
    /\ methodDumpInfo[c].key \in Defined(methodDumpInfo[c].config)
    /\ contents[methodDumpInfo[c].config][methodDumpInfo[c].key].type # 1

Noted(c, k) ==
  /\ c \notin raced /\ code[c].methods # {}
  /\ methodDumpInfo[c].key = k /\ c \in loadedClassInfo[k].urls

\* A setting of the old Config, whose class is to be redefined or whose key the loops
\* will come to.
Waits(c, k) ==
  /\ methodDumpInfo[c].config = installed - 1
  /\ \/ phase \in {"old", "new"} /\ c \in work
     \/ phase = "old" /\ (k \in todo \/ k \in Defined(installed))
     \/ phase = "new" /\ k \in todo

Renewed ==
  \A c \in Classes, k \in Keys :
    Noted(c, k) => methodDumpInfo[c].config = installed \/ Waits(c, k)

SInv == Known /\ Renewed

LEMMA NoneIsNoKey ==
  ASSUME NEW k \in Keys, NEW info, info.key = k
  PROVE  info # NoInfo
BY ClassesAssumption DEF ClassesAssumption, NoInfo

\* Steps that leave the tables and the reload alone
LEMMA TablesKeptSInv ==
  ASSUME SInv, UNCHANGED <<methodDumpInfo, loadedClassInfo, code, raced, contents, installed,
                           phase, todo, work>>
  PROVE  SInv'
<1>1. Known'
  BY SameDefinitions DEF SInv, Known
<1>2. Renewed'
  BY SameDefinitions DEF SInv, Renewed, Noted, Waits
<1> QED BY <1>1, <1>2 DEF SInv

\* A hook that ends notes a setting of the Config whose definition it inserted.
LEMMA RecordedSInv ==
  ASSUME IInv, SInv, NEW c \in Classes, NEW g \in 0..installed, NEW k \in Instrumentable(g, c),
         Record(c, k, g), UNCHANGED <<contents, installed, phase, todo>>,
         code' = [code EXCEPT ![c] = contents[g][k]],
         raced' \subseteq raced \cup {c}, raced \ {c} \subseteq raced', work \ {c} \subseteq work',
         g = installed \/ c \in raced'
  PROVE  SInv'
<1>1. Typed
  BY DEF IInv
<1>2. g \in 0..MaxReloads
  BY <1>1, ConfigsAssumption DEF Typed, ConfigsAssumption
<1>3. /\ k \in Keys /\ k \in Defined(g) /\ contents[g][k] \in Definition
      /\ contents[g][k].type = 1 => contents[g][k].methods = {}
  BY <1>1, <1>2, Definitions
<1>4. /\ \A d \in Classes \ {c} : methodDumpInfo'[d] = methodDumpInfo[d] /\ code'[d] = code[d]
      /\ \A j \in Keys \ {k} : loadedClassInfo'[j] = loadedClassInfo[j]
      /\ loadedClassInfo'[k].urls \subseteq loadedClassInfo[k].urls \cup {c}
      /\ code'[c] = contents[g][k]
  BY <1>1, Recorded DEF Typed
<1>5. \/ contents[g][k].methods = {} /\ methodDumpInfo'[c] = methodDumpInfo[c]
      \/ /\ contents[g][k].methods # {} /\ contents[g][k].type # 1
         /\ methodDumpInfo'[c].key = k /\ methodDumpInfo'[c].config = g
  <2>1. CASE contents[g][k].methods = {}
    BY <2>1 DEF Record
  <2>2. CASE contents[g][k].methods # {}
    BY <1>3, <2>2 DEF Record, addMethodDumpInfo
  <2> QED BY <2>1, <2>2
<1>6. Known'
  <2> SUFFICES ASSUME NEW d \in Classes, methodDumpInfo'[d] # NoInfo
               PROVE  /\ methodDumpInfo'[d].config \in 0..installed
                      /\ methodDumpInfo'[d].key \in Defined(methodDumpInfo'[d].config)
                      /\ contents[methodDumpInfo'[d].config][methodDumpInfo'[d].key].type # 1
    BY DEF Known, Defined
  <2>1. CASE methodDumpInfo'[d] = methodDumpInfo[d]
    BY <2>1 DEF SInv, Known
  <2>2. CASE methodDumpInfo'[d] # methodDumpInfo[d]
    BY <1>3, <1>4, <1>5, <2>2
  <2> QED BY <2>1, <2>2
<1>7. Renewed'
  <2> SUFFICES ASSUME NEW d \in Classes, NEW j \in Keys, Noted(d, j)'
               PROVE  (methodDumpInfo[d].config = installed \/ Waits(d, j))'
    BY DEF Renewed
  <2>1. CASE d = c
    BY <1>4, <1>5, <2>1 DEF Noted
  <2>2. CASE d # c
    <3>1. Noted(d, j)
      BY <1>4, <2>2 DEF Noted
    <3>2. methodDumpInfo[d].config = installed \/ Waits(d, j)
      BY <3>1 DEF SInv, Renewed
    <3> QED BY <1>4, <2>2, <3>2, SameDefinitions DEF Waits
  <2> QED BY <2>1, <2>2
<1> QED BY <1>6, <1>7 DEF SInv

LEMMA HookStepSInv ==
  ASSUME IInv, SInv, NEW c \in Classes,
         LoadClass(c) \/ MatchClass(c) \/ RecordClass(c) \/ DefineClass(c) \/ RedefineClass(c)
  PROVE  SInv'
<1>1. Typed /\ Matched
  BY DEF IInv
<1>2. CASE LoadClass(c) \/ MatchClass(c) \/ DefineClass(c)
  BY <1>2, TablesKeptSInv DEF LoadClass, MatchClass, DefineClass, tables, reload
<1>3. CASE RecordClass(c)
  <2>1. PICK g \in 0..installed : g = match[c].config /\ match[c].key \in Instrumentable(g, c)
    BY <1>1, <1>3 DEF RecordClass, Matched
  <2>2. PICK k \in Instrumentable(g, c) : k = match[c].key
    BY <2>1
  <2>3. /\ Record(c, k, g) /\ UNCHANGED <<contents, installed, phase, todo, work>>
        /\ code' = [code EXCEPT ![c] = contents[g][k]]
        /\ raced' = IF g = installed THEN raced ELSE raced \cup {c}
    BY <1>3, <2>1, <2>2 DEF RecordClass, reload
  <2> QED BY <2>3, RecordedSInv
<1>4. CASE RedefineClass(c)
  <2>1. /\ work' = work \ {c} /\ raced' = raced \ {c}
        /\ code' = [code EXCEPT ![c] = Prescribed(installed, c)]
        /\ UNCHANGED <<contents, installed, phase, todo>>
    BY <1>4 DEF RedefineClass
  <2>2. CASE \E k \in Instrumentable(installed, c) : Record(c, k, installed)
    <3>1. PICK g \in 0..installed : g = installed
      BY <1>1, ConfigsAssumption DEF Typed, ConfigsAssumption
    <3>2. PICK k \in Instrumentable(g, c) : Record(c, k, g)
      BY <2>2, <3>1
    <3>3. Prescribed(g, c) = contents[g][k]
      BY Fitting
    <3> QED BY <2>1, <3>1, <3>2, <3>3, RecordedSInv
  <2>3. CASE Instrumentable(installed, c) = {} /\ UNCHANGED tables
    <3>1. code'[c].methods = {} /\ \A d \in Classes \ {c} : code'[d] = code[d]
      BY <1>1, <2>1, <2>3, NotFitting DEF Typed, Plain
    <3>2. Known'
      BY <2>1, <2>3, SameDefinitions DEF SInv, Known, tables
    <3>3. Renewed'
      BY <2>1, <2>3, <3>1, SameDefinitions DEF SInv, Renewed, Noted, Waits, tables
    <3> QED BY <3>2, <3>3 DEF SInv
  <2> QED BY <1>4, <2>2, <2>3 DEF RedefineClass
<1> QED BY <1>2, <1>3, <1>4

\* The steps between the loops: tables are left alone.
LEMMA BetweenLoopsSInv ==
  ASSUME IInv, SInv, InstallConfig \/ OldDefinitionsDone \/ FinishReload
  PROVE  SInv'
<1>1. Typed /\ Known /\ Renewed
  BY DEF IInv, SInv
<1>2. UNCHANGED <<contents, methodDumpInfo, loadedClassInfo, code, raced, work>> /\ work = {}
  BY DEF InstallConfig, OldDefinitionsDone, FinishReload, loading, tables
<1>3. \A c \in Classes, k \in Keys : Noted(c, k)' <=> Noted(c, k)
  BY <1>2 DEF Noted
<1>4. CASE InstallConfig
  <2>1. /\ phase = "idle" /\ installed' = installed + 1 /\ phase' = "old"
        /\ todo' = Defined(installed) /\ installed \in Nat
    BY <1>1, <1>4, ConfigsAssumption DEF InstallConfig, Typed, ConfigsAssumption
  <2>2. Known'
    <3>1. 0..installed \subseteq 0..(installed')
      BY <2>1
    <3> QED BY <1>1, <1>2, <3>1, SameDefinitions DEF Known
  <2>3. Renewed'
    <3> SUFFICES ASSUME NEW c \in Classes, NEW k \in Keys, Noted(c, k)
                 PROVE  Waits(c, k)'
      BY <1>3 DEF Renewed
    <3>1. methodDumpInfo[c].config = installed /\ methodDumpInfo[c].key = k
      BY <1>1, <2>1 DEF Renewed, Waits, Noted
    <3>2. k \in Defined(installed)
      BY <1>1, <3>1, NoneIsNoKey DEF Known
    <3>3. installed' - 1 = installed
      BY <2>1
    <3> QED BY <1>2, <2>1, <3>1, <3>2, <3>3 DEF Waits
  <2> QED BY <2>2, <2>3 DEF SInv
<1>5. CASE OldDefinitionsDone
  <2>1. /\ phase = "old" /\ todo = {} /\ phase' = "new" /\ todo' = Defined(installed)
        /\ UNCHANGED installed
    BY <1>5 DEF OldDefinitionsDone
  <2>2. Known'
    BY <1>1, <1>2, <2>1, SameDefinitions DEF Known
  <2>3. Renewed'
    BY <1>1, <1>2, <1>3, <2>1 DEF Renewed, Waits
  <2> QED BY <2>2, <2>3 DEF SInv
<1>6. CASE FinishReload
  <2>1. phase = "new" /\ todo = {} /\ UNCHANGED installed
    BY <1>6 DEF FinishReload
  <2>2. Known'
    BY <1>1, <1>2, <2>1, SameDefinitions DEF Known
  <2>3. Renewed'
    BY <1>1, <1>2, <1>3, <2>1 DEF Renewed, Waits
  <2> QED BY <2>2, <2>3 DEF SInv
<1> QED BY <1>4, <1>5, <1>6

\* A turn of a loop after which no class is listed for its key any more, or none was.
LEMMA TurnSInv ==
  ASSUME IInv, SInv, NEW at \in {"old", "new"}, Take(at), NEW k \in Keys, k = First,
         RedefineOld(k) \/ UNCHANGED tables,
         loadedClassInfo'[k].urls = {} \/ (at = "old" /\ k \in Defined(installed))
           \/ k \notin Defined(installed - 1)
  PROVE  SInv'
<1>1. Typed /\ Known /\ Renewed
  BY DEF IInv, SInv
<1>2. /\ phase = at /\ work = {} /\ todo' = todo \ {k}
      /\ UNCHANGED <<contents, code, installed, phase, raced>>
  BY DEF Take, loading
<1>3. \A c \in Classes : methodDumpInfo'[c] = methodDumpInfo[c] \/ methodDumpInfo'[c] = NoInfo
  BY DEF RedefineOld, Forget, tables
<1>4. \A j \in Keys : loadedClassInfo'[j].urls \subseteq loadedClassInfo[j].urls
  <2>1. CASE RedefineOld(k)
    BY <1>1, <2>1, Forgotten
  <2>2. CASE UNCHANGED tables
    BY <2>2 DEF tables
  <2> QED BY <2>1, <2>2
<1>5. Known'
  BY <1>1, <1>2, <1>3, SameDefinitions DEF Known
<1>6. Renewed'
  <2> SUFFICES ASSUME NEW c \in Classes, NEW j \in Keys, Noted(c, j)'
               PROVE  (methodDumpInfo[c].config = installed \/ Waits(c, j))'
    BY DEF Renewed
  <2>1. methodDumpInfo'[c] = methodDumpInfo[c]
    BY <1>3, NoneIsNoKey DEF Noted
  <2>2. Noted(c, j)
    BY <1>2, <1>4, <2>1 DEF Noted
  <2>3. methodDumpInfo[c].config = installed \/ Waits(c, j)
    BY <1>1, <2>2 DEF Renewed
  <2>4. CASE methodDumpInfo[c].config = installed
    BY <1>2, <2>1, <2>4
  <2>5. CASE Waits(c, j) /\ j # k
    BY <1>2, <2>1, <2>5, SameDefinitions DEF Waits
  <2>6. CASE Waits(c, j) /\ j = k
    <3>1. k \in Defined(installed - 1)
      BY <1>1, <2>2, <2>6, NoneIsNoKey DEF Known, Waits, Noted
    <3>2. loadedClassInfo'[k].urls # {}
      BY <2>6 DEF Noted
    <3>3. at = "old" /\ k \in Defined(installed)
      BY <3>1, <3>2
    <3> QED BY <1>2, <2>1, <2>6, <3>3, SameDefinitions DEF Waits
  <2> QED BY <2>3, <2>4, <2>5, <2>6
<1> QED BY <1>5, <1>6 DEF SInv

LEMMA LoopStepSInv ==
  ASSUME IInv, SInv, OldDefinition \/ NewDefinition
  PROVE  SInv'
<1>1. Typed /\ Listed /\ Reloading /\ Known /\ Renewed
  BY DEF IInv, SInv
<1>2. /\ todo # {} /\ work = {} /\ todo' = todo \ {First}
      /\ UNCHANGED <<contents, code, installed, phase, raced>>
  BY DEF OldDefinition, NewDefinition, Take, loading
<1>3. PICK k \in Keys : k = First
  BY <1>1, <1>2, FirstIsTodo DEF Typed
<1>4. CASE OldDefinition
  <2>1. CASE k \in Defined(installed)
    BY <1>3, <1>4, <2>1, TurnSInv DEF OldDefinition, tables
  <2>2. CASE k \notin Defined(installed)
    <3>1. Take("old") /\ RedefineOld(k)
      BY <1>3, <1>4, <2>2 DEF OldDefinition
    <3> QED BY <1>1, <1>3, <3>1, Forgotten, TurnSInv
  <2> QED BY <2>1, <2>2
<1>5. CASE NewDefinition
  <2>1. Take("new") /\ phase = "new" /\ installed >= 1 /\ k \in Defined(installed)
    BY <1>1, <1>2, <1>3, <1>5, FirstIsTodo DEF NewDefinition, Take, Reloading, Typed
  <2>2. CASE k \notin Defined(installed - 1) /\ redefineClassesNew(k)
    BY <1>3, <2>1, <2>2, TurnSInv DEF redefineClassesNew
  <2>3. CASE loadedClassInfo[k].classes = {} /\ redefineClassesNew(k)
    BY <1>1, <1>3, <2>1, <2>3, TurnSInv DEF redefineClassesNew, Listed, tables
  <2>4. CASE RedefineOld(k)
    BY <1>1, <1>3, <2>1, <2>4, Forgotten, TurnSInv
  <2>5. CASE /\ k \in Defined(installed - 1)
             /\ ~needRedefine(contents[installed][k], contents[installed - 1][k])
             /\ methodDumpInfo' = IF contents[installed][k].type = 1 THEN methodDumpInfo
                  ELSE addMethodDumpInfo(methodDumpInfo, k, installed, loadedClassInfo[k].urls)
             /\ UNCHANGED <<loadedClassInfo, work>>
    <3>1. contents[installed][k].type = contents[installed - 1][k].type
      BY <2>5 DEF needRedefine
    <3>2. \A c \in Classes :
            \/ /\ methodDumpInfo'[c] = methodDumpInfo[c]
               /\ contents[installed][k].type = 1 \/ c \notin loadedClassInfo[k].urls
            \/ /\ contents[installed][k].type # 1
               /\ methodDumpInfo'[c].key = k /\ methodDumpInfo'[c].config = installed
      BY <2>5 DEF addMethodDumpInfo
    <3>3. installed \in 0..installed
      BY <1>1, ConfigsAssumption DEF Typed, ConfigsAssumption
    <3>4. Known'
      <4> SUFFICES ASSUME NEW c \in Classes, methodDumpInfo'[c] # NoInfo
                   PROVE  /\ methodDumpInfo'[c].config \in 0..installed
                          /\ methodDumpInfo'[c].key \in Defined(methodDumpInfo'[c].config)
                          /\ contents[methodDumpInfo'[c].config][methodDumpInfo'[c].key].type # 1
        BY <1>2 DEF Known, Defined
      <4> QED BY <1>1, <2>1, <3>2, <3>3 DEF Known
    <3>5. Renewed'
      <4> SUFFICES ASSUME NEW c \in Classes, NEW j \in Keys, Noted(c, j)'
                   PROVE  (methodDumpInfo[c].config = installed \/ Waits(c, j))'
        BY DEF Renewed
      <4>1. CASE methodDumpInfo'[c].config = installed
        BY <1>2, <4>1
      <4>2. CASE methodDumpInfo'[c] = methodDumpInfo[c]
        <5>1. Noted(c, j)
          BY <1>2, <2>5, <4>2 DEF Noted
        <5>2. methodDumpInfo[c].config = installed \/ Waits(c, j)
          BY <1>1, <5>1 DEF Renewed
        <5>3. CASE Waits(c, j) /\ j = k
          \* Its type was not 1, so it has been noted anew.
          <6>1. contents[installed - 1][k].type # 1
            BY <1>1, <5>1, <5>3, NoneIsNoKey DEF Known, Waits, Noted
          <6>2. methodDumpInfo'[c].config = installed
            BY <3>1, <3>2, <5>1, <5>3, <6>1 DEF Noted
          <6> QED BY <4>1, <6>2
        <5>4. CASE Waits(c, j) /\ j # k
          BY <1>2, <1>3, <2>1, <4>2, <5>4, SameDefinitions DEF Waits
        <5> QED BY <1>2, <4>2, <5>2, <5>3, <5>4
      <4> QED BY <3>2, <4>1, <4>2
    <3> QED BY <3>4, <3>5 DEF SInv
  <2> QED BY <1>3, <1>5, <2>2, <2>3, <2>4, <2>5 DEF NewDefinition
<1> QED BY <1>4, <1>5

\* Before VMInit nothing is instrumented, so nothing is noted.
LEMMA VmInitSInv ==
  ASSUME IInv, SInv, VmInit
  PROVE  SInv'
<1>1. /\ phase = "start"
      /\ UNCHANGED <<methodDumpInfo, code, contents, installed>>
  BY DEF VmInit, tables
<1>2. \A c \in Classes : code'[c].methods = {}
  BY <1>1 DEF IInv, Starting, Plain
<1>3. Known'
  BY <1>1, SameDefinitions DEF SInv, Known
<1>4. Renewed'
  BY <1>2 DEF Renewed, Noted
<1> QED BY <1>3, <1>4 DEF SInv

LEMMA NextSInv == IInv /\ SInv /\ [Next]_vars => SInv'
<1> SUFFICES ASSUME IInv, SInv, [Next]_vars PROVE SInv'
  OBVIOUS
<1>1. CASE UNCHANGED vars
  BY <1>1, TablesKeptSInv DEF vars, tables, loading, reload
<1> QED BY <1>1, HookStepSInv, BetweenLoopsSInv, LoopStepSInv, VmInitSInv DEF Next
-----------------------------------------------------------------------------
(* Theorems *)

\* Every step preserves the inductive invariant.
LEMMA NextIInv == IInv /\ [Next]_vars => IInv'
<1> SUFFICES ASSUME IInv, [Next]_vars PROVE IInv'
  OBVIOUS
<1>1. ASSUME NEW c \in Classes, LoadClass(c) PROVE IInv'
  BY <1>1, LoadClassKeepsIInv
<1>2. ASSUME NEW c \in Classes, MatchClass(c) PROVE IInv'
  BY <1>2, MatchClassKeepsIInv
<1>3. ASSUME NEW c \in Classes, RecordClass(c) PROVE IInv'
  BY <1>3, RecordClassKeepsIInv
<1>4. ASSUME NEW c \in Classes, DefineClass(c) PROVE IInv'
  BY <1>4, DefineClassKeepsIInv
<1>5. ASSUME NEW c \in Classes, RedefineClass(c) PROVE IInv'
  BY <1>5, RedefineClassKeepsIInv
<1>6. CASE VmInit
  BY <1>6, VmInitKeepsIInv
<1>7. CASE InstallConfig
  BY <1>7, InstallConfigKeepsIInv
<1>8. CASE OldDefinition
  BY <1>8, OldDefinitionKeepsIInv
<1>9. CASE OldDefinitionsDone
  BY <1>9, OldDefinitionsDoneKeepsIInv
<1>10. CASE NewDefinition
  BY <1>10, NewDefinitionKeepsIInv
<1>11. CASE FinishReload
  BY <1>11, FinishReloadKeepsIInv
<1>12. CASE UNCHANGED vars
  <2>1. UNCHANGED <<stage, match, code, loaders, pending, loadedClassInfo, methodDumpInfo,
                    contents, installed, callbacks, phase, todo, work, raced>>
    BY <1>12 DEF vars, loading, tables, reload
  <2>2. Typed /\ Listed /\ Matched /\ Starting /\ Reloading /\ Treated
    BY DEF IInv
  <2>3. Typed' /\ Listed'
    BY <2>1, <2>2 DEF Typed, Listed, Info
  <2>4. Matched' /\ Starting' /\ Reloading'
    BY <2>1, <2>2, SameDefinitions DEF Matched, Starting, Reloading
  <2>5. Treated'
    <3> SUFFICES ASSUME phase # "start", NEW c \in Classes, Judged(c)' PROVE Safe(c)'
      BY <2>1 DEF Treated
    <3>1. Judged(c)
      BY <2>1, SameDefinitions DEF Judged, WellDefined
    <3> QED BY <2>1, <2>2, <3>1, SafeKept DEF Reloading, Treated
  <2> QED BY <2>3, <2>4, <2>5 DEF IInv
<1> QED BY <1>1, <1>2, <1>3, <1>4, <1>5, <1>6, <1>7, <1>8, <1>9, <1>10, <1>11, <1>12 DEF Next

\* In every reachable state each class that the hook has treated is as the installed Config
\* prescribes, or about to be redefined, or a running reload will come to it.
THEOREM IInvHolds == Spec => []IInv
<1>1. Init => IInv
  BY InitIInv
<1>2. IInv /\ [Next]_vars => IInv'
  BY NextIInv
<1> QED BY <1>1, <1>2, PTL DEF Spec

\* The variables have their types, and the tables list classes that their keys cover
\* (classFileLoadHook, addClassUrl, addMethodDumpInfo).
THEOREM TypesHold == Spec => []TypeOK
<1>1. IInv => TypeOK
  BY DEF IInv, Typed, Listed, Matched, TypeOK
<1> QED BY <1>1, IInvHolds, PTL

\* However loading and earlier reloads interleaved, a class carries the bytecode that the
\* installed Config prescribes, though redefineClasses leaves equal definitions alone.
THEOREM ClassesStayInstrumented == Spec => []InstrumentedAsConfigured
<1>1. IInv => InstrumentedAsConfigured
  BY DEF IInv, Treated, Judged, Safe, Ahead, AsIn, Settled, InstrumentedAsConfigured
<1> QED BY <1>1, IInvHolds, PTL

\* dumpstackForMethod finds the definition of the class whose method was called
\* (methodDumpInfo, addMethodDumpInfo and the removal by redefineClasses).
THEOREM MethodsStayKnown == Spec => []MethodsAreKnown
<1>1. IInv => MethodsAreKnown
  <2> SUFFICES ASSUME IInv, phase = "idle", NEW c \in Settled, code[c].methods # {}, c \notin work,
                      WellDefined(c)
               PROVE  Instrumentable(installed, c) = {methodDumpInfo[c].key}
    BY DEF MethodsAreKnown
  <2>1. AsIn(c, installed) /\ installed \in 0..installed
    BY DEF IInv, Typed, Treated, Judged, Safe, Ahead, Settled
  <2>2. Prescribed(installed, c).methods # {}
    <3>1. installed \in Nat
      BY ConfigsAssumption DEF IInv, Typed, ConfigsAssumption
    <3> QED BY <2>1, <3>1, CarriesMethods DEF AsIn
  <2>3. PICK k \in Instrumentable(installed, c) : TRUE
    BY <2>2, NotFitting DEF Plain
  <2>4. /\ Instrumentable(installed, c) = {k} /\ getMonitorClassInfo(installed, c) = {k}
        /\ contents[installed][k].methods # {}
    BY <2>2, Fitting
  <2> QED BY <2>1, <2>4 DEF AsIn
<1> QED BY <1>1, IInvHolds, PTL

\* The setting that dumpstackForMethod finds belongs to the installed Config, and not to
\* one that a reload has deleted, although equal definitions are not redefined.
THEOREM SettingsStayCurrent == Spec => []SettingsAreCurrent
<1>1. Init => SInv
  <2>1. Init => /\ \A c \in Classes : methodDumpInfo[c] = NoInfo /\ code[c].methods = {}
    BY DEF Init, Plain
  <2> QED BY <2>1 DEF SInv, Known, Renewed, Noted
<1>2. SInv => SettingsAreCurrent
  BY DEF SInv, Renewed, Noted, Waits, Settled, SettingsAreCurrent
<1> QED BY <1>1, <1>2, NextSInv, IInvHolds, PTL DEF Spec
=============================================================================
