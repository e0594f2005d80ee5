CONSTANTS
  b1 = b1
  b2 = b2
  b3 = b3
  t1 = t1
  t2 = t2
  Nil = Nil
  GC = GC
  Blocks <- ThreeBlocks
  Threads <- OneThread
  Concurrent = TRUE
SPECIFICATION Spec
SYMMETRY Symmetry
CONSTRAINTS HandlesAreLeaves NoTornFinalizer NoPauseAtHead WeakOrFinalizers 
INVARIANTS
  CallersSafe
  WeakIsLive
PROPERTY SweepComplete
