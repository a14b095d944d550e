CONSTANTS
  t1 = t1
  t2 = t2
  s1 = s1
  s2 = s2
  Threads <- MCThreads
  Stacks <- MCStacks
  Limits = {0, 1, 2}
  MaxTime = 4
SYMMETRY CacheSymmetry
SPECIFICATION Spec
INVARIANTS
  TypeOK
  EntriesOfLiveThreads
PROPERTIES
  DuplicatesSuppressed
  SuppressionEnds
