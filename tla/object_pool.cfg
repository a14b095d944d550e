CONSTANTS
  o1 = o1
  o2 = o2
  o3 = o3
  o4 = o4
  NoObject = NoObject
  Objects <- MCObjects
  HashCodes <- MCObjects
  Heaps <- MCHeaps
  MaxRoots = 2
SYMMETRY ObjectSymmetry
SPECIFICATION Spec
INVARIANTS
  TypeOK
  RefsNameTheirObjects
  ShownToTheirDepth
