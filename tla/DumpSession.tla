---------------------------- MODULE DumpSession -----------------------------
(***************************************************************************)
(* What the locks of the agent promise, without the locks: dumps and       *)
(* reloads are sessions, one at a time.  Within its session a thread       *)
(* chooses the output setting, stops all other threads and resumes them;   *)
(* the installed configuration changes only at the start of a session of   *)
(* the thread that reloads it, and takes the chosen setting away.          *)
(***************************************************************************)
EXTENDS Integers

CONSTANTS
  Threads,
  Reloader,   \* the thread that replaces the configuration
  NoThread,
  MayLeak     \* may a session end with the others still stopped?

VARIABLES
  holder,     \* the thread whose session it is
  version,    \* the installed configuration
  chooser,    \* who chose the output setting of that configuration
  stopped     \* the threads that do not run

session == <<holder, version, chooser, stopped>>

Init ==
  /\ holder = NoThread
  /\ version = 0
  /\ chooser = NoThread
  /\ stopped = {}

Begin(t) ==
  /\ holder = NoThread
  /\ t \notin stopped
  /\ holder' = t
  /\ UNCHANGED <<version, chooser, stopped>>

Reload ==
  /\ holder = NoThread
  /\ Reloader \notin stopped
  /\ holder' = Reloader
  /\ version' = version + 1
  /\ chooser' = NoThread
  /\ UNCHANGED stopped

Choose(t) ==
  /\ holder = t
  /\ chooser' = t
  /\ UNCHANGED <<holder, version, stopped>>

StopOthers(t) ==
  /\ holder = t
  /\ chooser = t
  /\ stopped' = Threads \ {t}
  /\ UNCHANGED <<holder, version, chooser>>

Resume(t) ==
  /\ holder = t
  /\ stopped' = {}
  /\ UNCHANGED <<holder, version, chooser>>

End(t) ==
  /\ holder = t
  /\ MayLeak \/ stopped = {}
  /\ holder' = NoThread
  /\ UNCHANGED <<version, chooser, stopped>>

Next ==
  \/ Reload
  \/ \E t \in Threads :
       Begin(t) \/ Choose(t) \/ StopOthers(t) \/ Resume(t) \/ End(t)

Spec == Init /\ [][Next]_session

=============================================================================
