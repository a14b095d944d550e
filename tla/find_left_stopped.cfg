CONSTANTS
  a1 = a1
  a2 = a2
  App <- MCApp
  Signal = Signal
  Monitor = Monitor
  NoThread = NoThread
  Targets <- MCTargets
  Throwable = "Throwable"
  Overflow <- MCOverflow
  NoTarget = "none"
  Contents <- MCContents
  MaxReloads = 1
  NestedRaises = {}
  MaxNesting = 1
  Faults = TRUE
SPECIFICATION Spec
INVARIANT StoppedOnlyInDump
