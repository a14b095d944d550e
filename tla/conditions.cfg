CONSTANTS
  Dumpers = {d1, d2}
  monitor = monitor
  Worlds <- MCWorlds
  FieldValues <- MCFieldValues
  MaxDumpCount = 1
  None = None
  Null = Null
SPECIFICATION Spec
CHECK_DEADLOCK FALSE
SYMMETRY Threads
INVARIANTS
  TypeOK
  EvaluatedAsWritten
  RejectedIsWrong
  EnvIsOwn
  DumpsWithinLimit
