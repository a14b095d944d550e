CONSTANTS
  a1 = a1
  a2 = a2
  App <- MCApp
  Signal = Signal
  Monitor = Monitor
  NoThread = NoThread
  Targets <- MCTargets
  Throwable = "Throwable"
  Overflow <- MCOverflow
  NoTarget = "none"
  Contents <- MCTwoContents
  MaxReloads = 1
  NestedRaises = {"mail"}
  MaxNesting = 1
  Faults = FALSE
CHECK_DEADLOCK FALSE
SPECIFICATION FairSpec
INVARIANTS
  InstalledConfigLive
PROPERTIES
  ConfigMonitorFreed
  WorldResumed
