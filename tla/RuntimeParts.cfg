CONSTANTS
  Parts = {"epoch", "spans", "linked", "segmented", "balanced", "patterns", "wire", "json", "tidy", "web", "server"}
  TornEnd = FALSE
  b1 = b1
  b2 = b2
  thr1 = thr1
  thr2 = thr2
  Blocks <- TwoBlocks
  Last = 10
  MaxMinors = 2
  MaxAborts = 3
SPECIFICATION PartSpec
SYMMETRY Symmetry
CHECK_DEADLOCK FALSE
INVARIANTS
  HeapSound
  SomeoneMoves
  RedBlack
  LibrarySound
PROPERTIES
  WhiteAtSetup
  ImplementsMarkSet
  ImplementsOrderedMap
  ImplementsAtomicMap
  LockSound
