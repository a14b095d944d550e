-------------------------- MODULE ClassRedefinition --------------------------
(***************************************************************************)
(* Which classes carry the agent's bytecode.  classFileLoadHook instruments *)
(* a class when application threads load it, and again whenever it is       *)
(* redefined; monitorThread compares the definitions of the old and the new *)
(* Config and redefines what differs.  Two tables connect them:             *)
(* loadedClassInfo, by definition, the classes that were instrumented, and  *)
(* methodDumpInfo, by class, the Config that has the output setting for     *)
(* the dumps of its methods.                                                *)
(*                                                                          *)
(* The hook runs in the thread that loads the class, takes no lock and      *)
(* calls Java code, so that a reload may happen in the middle of it.  The   *)
(* JVM makes who asks for a class wait while another thread loads it.       *)
(*                                                                          *)
(* A class is identified by its url.  A definition is named by its key, the *)
(* class name and the classLoadString, a part of the urls it is meant for.  *)
(* The registered instances, which a reload forgets with a definition, are  *)
(* no part of this module.                                                  *)
(***************************************************************************)
EXTENDS Integers, FiniteSets

CONSTANTS
  Classes,    \* classes with different urls
  Keys,       \* class names with classLoadStrings
  Name,       \* the class name of each class and key
  Covers,     \* the classes of its name whose url contains the key's string
  KeyOrder,   \* MonitoringClass::operator<, as a number for each key
  UrlOrder,   \* strcmp, as a number for the url of each class
  Loader,     \* the class loader of each class
  Boot,       \* NULL, the loader that is always known
  Methods,
  Has,        \* the methods of each class, none for an interface
  Interfaces,
  Configs,    \* what configuration files may define
  MaxReloads  \* bound: how often the configuration file changes

\* Types of monitoring: 1 instances, 2 methods, 3 both.  The calls of a method are
\* inserted at 0 both its ends, 1 its start, 2 its end; "at" counts for the methods
\* of the definition alone.
Definition == [type : 1..3, methods : SUBSET Methods, at : [Methods -> 0..2]]

ASSUME ClassesAssumption ==
  /\ IsFiniteSet(Classes)
  /\ Interfaces \subseteq Classes
  /\ \A k \in Keys : Covers[k] \subseteq {c \in Classes : Name[c] = Name[k]}
  /\ KeyOrder \in [Keys -> Nat]
  /\ "none" \notin Keys  \* see NoInfo

ASSUME ConfigsAssumption ==
  /\ MaxReloads \in Nat
  /\ \A f \in Configs :
       /\ DOMAIN f \subseteq Keys
       /\ \A k \in DOMAIN f : f[k] \in Definition /\ (f[k].type = 1 => f[k].methods = {})

VARIABLES
  contents,   \* the definitions of each Config
  installed,  \* Global::config
  callbacks,  \* has the class Callbacks been loaded (callbacksclass)?
  pending,    \* classToRedefine
  loaders,    \* the keys of AgentCallbackHandler::loaders
  stage,      \* how far each class is loaded
  match,      \* the definition that its hook holds a pointer to
  code,       \* the bytecode of a loaded class
  loadedClassInfo,
  methodDumpInfo,
  phase,      \* what monitorThread does; "start" before VMInit
  todo,       \* keys that the loops of redefineClasses have not come to
  work,       \* classes that it is about to redefine
  raced       \* history: classes recorded for a Config that was replaced meanwhile

tables  == <<loadedClassInfo, methodDumpInfo>>
loading == <<stage, match, code, loaders, pending>>
reload  == <<contents, installed, callbacks, phase, todo, work>>
vars    == <<loading, tables, reload, raced>>

NoInfo == [key |-> "none", config |-> -1]
Plain  == [type |-> 0, methods |-> {}, at |-> [m \in Methods |-> 1]]

Init ==
  /\ contents \in [0..MaxReloads -> Configs]
  /\ installed = 0
  /\ callbacks = FALSE
  /\ pending = {}
  /\ loaders = {Boot}
  /\ stage = [c \in Classes |-> "no"]
  /\ match = [c \in Classes |-> NoInfo]
  /\ code = [c \in Classes |-> Plain]
  /\ loadedClassInfo = [k \in Keys |-> [classes |-> {}, urls |-> {}]]
  /\ methodDumpInfo = [c \in Classes |-> NoInfo]
  /\ phase = "start"
  /\ todo = {}
  /\ work = {}
  /\ raced = {}

-----------------------------------------------------------------------------
(* Definitions *)

Defined(g) == DOMAIN contents[g]

\* Config::getMonitorClassInfo
getMonitorClassInfo(g, c) == {k \in Defined(g) : c \in Covers[k]}

isRedefineClassName(g, name) == \E k \in Defined(g) : Name[k] = name

\* A class is instrumented as its only definition says, unless it is an interface
\* or lacks one of the methods.
Instrumentable(g, c) ==
  {k \in getMonitorClassInfo(g, c) :
     /\ getMonitorClassInfo(g, c) = {k}
     /\ c \notin Interfaces
     /\ contents[g][k].methods \subseteq Has[c]}

Prescribed(g, c) ==
  IF Instrumentable(g, c) = {} THEN Plain
  ELSE contents[g][CHOOSE k \in Instrumentable(g, c) : TRUE]

-----------------------------------------------------------------------------
(* The hook *)

\* MonitoringClassLoadInfo::addClassUrl inserts before a greater url, and does
\* not append.
addClassUrl(urls, c) ==
  IF urls = {} \/ \E u \in urls : UrlOrder[c] < UrlOrder[u] THEN urls \cup {c} ELSE urls

\* Mutant: the output setting of a method is only noted the first time.
addMethodDumpInfoOnce(info, k, g, S) ==
  [c \in Classes |-> IF c \in S /\ info[c] = NoInfo THEN [key |-> k, config |-> g] ELSE info[c]]

\* What addMethodDumpInfo notes for each class of S
addMethodDumpInfo(info, k, g, S) ==
  [c \in Classes |-> IF c \in S THEN [key |-> k, config |-> g] ELSE info[c]]

\* Mutant: the methods are noted for the first class of a definition.
RecordFirst(c, k, g) ==
  /\ loadedClassInfo' = [loadedClassInfo EXCEPT
       ![k] = [classes |-> @.classes \cup {c}, urls |-> addClassUrl(@.urls, c)]]
  /\ methodDumpInfo' = IF contents[g][k].methods = {} \/ loadedClassInfo[k].classes # {}
                         THEN methodDumpInfo
                         ELSE addMethodDumpInfo(methodDumpInfo, k, g, {c})

\* The end of the hook: class c is noted as instrumented for key k of Config g.
Record(c, k, g) ==
  /\ loadedClassInfo' = [loadedClassInfo EXCEPT
       ![k] = [classes |-> @.classes \cup {c}, urls |-> addClassUrl(@.urls, c)]]
  /\ methodDumpInfo' = IF contents[g][k].methods = {} THEN methodDumpInfo
                         ELSE addMethodDumpInfo(methodDumpInfo, k, g, {c})

\* A class is loaded, and the Config asked if it defines the name.  Until Callbacks
\* is loaded the name is put off.
LoadClass(c) ==
  /\ stage[c] = "no"
  /\ loaders' = loaders \cup {Loader[c]}
  /\ IF isRedefineClassName(installed, Name[c])
       THEN IF callbacks
              THEN stage' = [stage EXCEPT ![c] = "url"] /\ UNCHANGED pending
              ELSE /\ stage' = [stage EXCEPT ![c] = "define"]
                   /\ pending' = pending \cup {Name[c]}
       ELSE stage' = [stage EXCEPT ![c] = "define"] /\ UNCHANGED pending
  /\ UNCHANGED <<match, code, tables, reload, raced>>

\* Java code has found the url; the Config, maybe another one, is asked again.
MatchClass(c) ==
  /\ stage[c] = "url"
  /\ \/ \E k \in Instrumentable(installed, c) :
          /\ match' = [match EXCEPT ![c] = [key |-> k, config |-> installed]]
          /\ stage' = [stage EXCEPT ![c] = "insert"]
     \/ /\ Instrumentable(installed, c) = {}
        /\ stage' = [stage EXCEPT ![c] = "define"]
        /\ UNCHANGED match
  /\ UNCHANGED <<code, loaders, pending, tables, reload, raced>>

\* The bytecode has been inserted as the definition says.  It may belong to a Config
\* that is freed already, and is taken to be readable still: see the README.
RecordClass(c) ==
  /\ stage[c] = "insert"
  /\ Record(c, match[c].key, match[c].config)
  /\ code' = [code EXCEPT ![c] = contents[match[c].config][match[c].key]]
  /\ stage' = [stage EXCEPT ![c] = "define"]
  /\ match' = [match EXCEPT ![c] = NoInfo]
  /\ raced' = IF match[c].config = installed THEN raced ELSE raced \cup {c}
  /\ UNCHANGED <<loaders, pending, reload>>

\* The JVM takes the bytes that the hook returned.
DefineClass(c) ==
  /\ stage[c] = "define"
  /\ stage' = [stage EXCEPT ![c] = "loaded"]
  /\ UNCHANGED <<match, code, loaders, pending, tables, reload, raced>>

-----------------------------------------------------------------------------
(* Redefinition *)

\* The classes of a name that a known loader finds, loaded or not, and that some
\* definition matches: redefineClass of name and classLoadString.
Found(S, g) ==
  {c \in S : Loader[c] \in loaders /\ getMonitorClassInfo(g, c) # {}}

\* vmInitCallBack: Callbacks is loaded, the classes put off are redefined and
\* monitorThread is started.
VmInit ==
  /\ phase = "start"
  /\ callbacks' = TRUE
  /\ work' = Found({c \in Classes : Name[c] \in pending}, installed)
  /\ pending' = {}
  /\ phase' = "idle"
  /\ UNCHANGED <<stage, match, code, loaders, tables, contents, installed, todo, raced>>

\* RedefineClasses of one class, which is loaded if need be, with the hook that
\* the JVM calls for it.
RedefineClass(c) ==
  /\ c \in work
  /\ stage[c] \in {"no", "loaded"}
  /\ work' = work \ {c}
  /\ stage' = [stage EXCEPT ![c] = "loaded"]
  /\ code' = [code EXCEPT ![c] = Prescribed(installed, c)]
  /\ \/ \E k \in Instrumentable(installed, c) : Record(c, k, installed)
     \/ Instrumentable(installed, c) = {} /\ UNCHANGED tables
  /\ raced' = raced \ {c}
  /\ UNCHANGED <<match, loaders, pending, contents, installed, callbacks, phase, todo>>

\* The new Config is installed, under configMonitor, and the old definitions gone through.
InstallConfig ==
  /\ phase = "idle"
  /\ work = {}
  /\ installed < MaxReloads
  /\ installed' = installed + 1
  /\ phase' = "old"
  /\ todo' = Defined(installed)
  /\ UNCHANGED <<loading, tables, contents, callbacks, work, raced>>

First == CHOOSE k \in todo : \A j \in todo : KeyOrder[k] <= KeyOrder[j]

\* The vectors of definitions are sorted: the loops take the next key.
Take(where) ==
  /\ phase = where
  /\ work = {}
  /\ todo # {}
  /\ todo' = todo \ {First}
  /\ UNCHANGED <<loading, contents, installed, callbacks, phase, raced>>

Forget(k) ==
  [c \in Classes |-> IF c \in loadedClassInfo[k].urls /\ methodDumpInfo[c].key = k
                       THEN NoInfo ELSE methodDumpInfo[c]]

\* Mutant: the urls of the entry are not cleared.
RedefineOldHalf(k) ==
  /\ work' = loadedClassInfo[k].classes
  /\ methodDumpInfo' = Forget(k)
  /\ loadedClassInfo' = [loadedClassInfo EXCEPT ![k].classes = {}]

\* redefineClasses of an old definition: forget its classes and redefine them.
RedefineOld(k) ==
  /\ work' = loadedClassInfo[k].classes
  /\ methodDumpInfo' = Forget(k)
  /\ loadedClassInfo' = [loadedClassInfo EXCEPT ![k] = [classes |-> {}, urls |-> {}]]

redefineClassesNew(k) ==
  /\ work' = Found(Covers[k], installed)
  /\ UNCHANGED tables

\* Definitions that the new Config does not have.
OldDefinition ==
  /\ Take("old")
  /\ IF First \in Defined(installed) THEN UNCHANGED <<tables, work>> ELSE RedefineOld(First)

OldDefinitionsDone ==
  /\ phase = "old" /\ todo = {} /\ work = {}
  /\ phase' = "new"
  /\ todo' = Defined(installed)
  /\ UNCHANGED <<loading, tables, contents, installed, callbacks, work, raced>>

\* Mutant: only the type of monitoring is compared.
needRedefineType(new, old) == new.type # old.type

\* MonitoringMethod::needRedefine and MonitoringInstance::needRedefine: names and
\* signatures of the methods are compared, the positions of their calls are not.
needRedefine(new, old) ==
  \/ new.type # old.type
  \/ new.type # 1 /\ new.methods # old.methods

\* Definitions of the new Config: they are new, or changed, or their output
\* settings are replaced.
NewDefinition ==
  LET k == First IN
  /\ Take("new")
  /\ \/ /\ k \notin Defined(installed - 1)
        /\ redefineClassesNew(k)
     \/ /\ k \in Defined(installed - 1)
        /\ needRedefine(contents[installed][k], contents[installed - 1][k])
        /\ IF loadedClassInfo[k].classes = {} THEN redefineClassesNew(k) ELSE RedefineOld(k)
     \/ /\ k \in Defined(installed - 1)
        /\ ~needRedefine(contents[installed][k], contents[installed - 1][k])
        /\ methodDumpInfo' = IF contents[installed][k].type = 1 THEN methodDumpInfo
             ELSE addMethodDumpInfo(methodDumpInfo, k, installed, loadedClassInfo[k].urls)
        /\ UNCHANGED <<loadedClassInfo, work>>

\* The old Config is deleted and configMonitor released.
FinishReload ==
  /\ phase = "new" /\ todo = {} /\ work = {}
  /\ phase' = "idle"
  /\ UNCHANGED <<loading, tables, contents, installed, callbacks, todo, work, raced>>

Next ==
  \/ \E c \in Classes :
       LoadClass(c) \/ MatchClass(c) \/ RecordClass(c) \/ DefineClass(c) \/ RedefineClass(c)
  \/ VmInit \/ InstallConfig \/ OldDefinition \/ OldDefinitionsDone \/ NewDefinition
  \/ FinishReload

Spec == Init /\ [][Next]_vars

-----------------------------------------------------------------------------
(* Properties *)

Stages == {"no", "url", "insert", "define", "loaded"}
Info == {NoInfo} \cup [key : Keys, config : 0..installed]

\* The variables have their types, and loadedClassInfo lists urls of its classes.
TypeOK ==
  /\ contents \in [0..MaxReloads -> Configs]
  /\ installed \in 0..MaxReloads
  /\ callbacks = (phase # "start")
  /\ pending \subseteq {Name[c] : c \in Classes}
  /\ stage \in [Classes -> Stages]
  /\ \A c \in Classes :
       /\ match[c] \in Info /\ (match[c] # NoInfo) = (stage[c] = "insert")
       /\ code[c] \in {Plain} \cup Definition
       /\ methodDumpInfo[c] \in Info
  /\ \A k \in Keys :
       /\ loadedClassInfo[k].classes \subseteq Covers[k]
       /\ loadedClassInfo[k].urls \subseteq loadedClassInfo[k].classes
  /\ phase \in {"start", "idle", "old", "new"}
  /\ todo \subseteq Keys
  /\ work \cup raced \subseteq Classes

\* Classes that the hook has treated, not for a Config that was replaced meanwhile
Settled == {c \in Classes : stage[c] = "loaded"} \ raced

\* Every definition that a Config up to now had for c was its only one and fitted it.
WellDefined(c) ==
  \A g \in 0..installed : \A k \in getMonitorClassInfo(g, c) : Instrumentable(g, c) = {k}

\* From Config e to Config g the definition of key k has had the same type and
\* methods, though their calls may have moved.
OnlyMoved(k, e, g) ==
  \A h \in e..g :
    /\ k \in Defined(h)
    /\ contents[h][k].type = contents[g][k].type
    /\ contents[h][k].methods = contents[g][k].methods

\* c carries the bytecode that Config g prescribes, or that an earlier one did if
\* its definition has changed in nothing but positions since then.
Carries(c, g) ==
  \/ code[c] = Prescribed(g, c)
  \/ \E k \in Instrumentable(g, c), e \in 0..g :
       OnlyMoved(k, e, g) /\ code[c] = contents[e][k]

\* Between reloads every loaded class is as the installed Config prescribes, and as
\* it was compiled if that does not define it; what monitorThread overlooks is that
\* nothing but the positions of calls has changed, however the loading interleaved
\* with earlier reloads.
InstrumentedAsConfigured ==
  phase = "idle" /\ work = {} =>
    \A c \in Settled : WellDefined(c) => Carries(c, installed)

\* An instrumented method finds the definition of its class when configMonitor
\* is free: dumpstackForMethod is not called in vain.
MethodsAreKnown ==
  phase = "idle" =>
    \A c \in Settled : code[c].methods # {} /\ c \notin work /\ WellDefined(c) =>
      Instrumentable(installed, c) = {methodDumpInfo[c].key}

\* The output setting it finds then is one of the installed Config, not of one
\* that was deleted, if the agent has listed the url of the class.
SettingsAreCurrent ==
  phase = "idle" =>
    \A c \in Settled, k \in Keys :
      /\ code[c].methods # {}
      /\ methodDumpInfo[c].key = k
      /\ c \in loadedClassInfo[k].urls
      => methodDumpInfo[c].config = installed

=============================================================================
