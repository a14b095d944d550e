CONSTANTS
  a1 = a1
  a2 = a2
  App <- MCApp
  Signal = Signal
  Monitor = Monitor
  NoThread = NoThread
  Targets <- MCTargets
  Throwable = "Throwable"
  Overflow <- MCOverflow
  NoTarget = "none"
  Contents <- MCContents
  MaxReloads = 1
  NestedRaises = {"mail", "redefine"}
  MaxNesting = 2
  Faults = TRUE
SYMMETRY AppSymmetry
CHECK_DEADLOCK FALSE
SPECIFICATION Spec
INVARIANTS
  TypeOK
  LocksBalanced
  InMyselfCounts
  DumperRunsAlone
  NoNestedCallbackDump
  SettingIsOwn
PROPERTIES
  DumpsAreSessions
