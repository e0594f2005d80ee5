CONSTANTS
  b1 = b1
  b2 = b2
  b3 = b3
  t1 = t1
  t2 = t2
  Nil = Nil
  GC = GC
  Blocks <- TwoBlocks
  Threads <- OneThread
  Concurrent = TRUE
SPECIFICATION Spec
SYMMETRY Symmetry
CONSTRAINTS NoFinalizers NoWeak
INVARIANT NoUseAfterFree
