SPECIFICATION FairSpec
INVARIANTS
  TypeOK
  FreedAfterItsUse
PROPERTY UnloadEnds
CHECK_DEADLOCK FALSE
