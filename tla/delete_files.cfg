CONSTANTS
  f1 = f1
  f2 = f2
  Dumps <- MCDumps
  NoDump = NoDump
  SaveDays = 1
  HalfDay = 2
  SleepTime = 1
  MaxTime = 9
SYMMETRY DumpSymmetry
SPECIFICATION Spec
INVARIANTS
  TypeOK
  ListedForDeletion
PROPERTY NotDeletedEarly
