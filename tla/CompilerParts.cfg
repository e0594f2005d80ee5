CONSTANTS
  Parts = {"handle", "frames", "spill", "static", "layout", "temps", "numbers", "types", "calls", "captures", "mirror"}
  t1 = t1
  t2 = t2
  r1 = r1
  r2 = r2
  r3 = r3
  NaN = NaN
  Poison = Poison
  Nil = Nil
  Threads <- TwoThreads
  Raws <- ThreeRaws
  Joinable = TRUE
  Ordered = TRUE
SPECIFICATION PartSpec
SYMMETRY Symmetry
CHECK_DEADLOCK FALSE
INVARIANTS
  ReleasedOnce
  NoLeak
  UnwindSound
  OperandsSound
  InitBeforeUse
  LayoutSound
  RulesSound
  MeaningKept
PROPERTIES
  ImplementsTryFinally
