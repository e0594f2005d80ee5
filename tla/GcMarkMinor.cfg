SPECIFICATION Spec
CONSTANTS
  o1 = o1
  o2 = o2
  o3 = o3
  t1 = t1
  t2 = t2
  f1 = f1
  f2 = f2
  s1 = s1
  Fields = {f1}
  Slots = {s1}
  Threads <- MCThreads
  Nobody = nobody
  Null = null
  Objects <- MCThree
  Minor = TRUE
  RootSlip = FALSE
  MaxCycles = 3
SYMMETRY SymBlocks
INVARIANTS NoDangling
CONSTRAINTS NoRoots SmallStacks Alternating NoStoreAtSetup
CHECK_DEADLOCK FALSE
