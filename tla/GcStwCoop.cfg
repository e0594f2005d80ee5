SPECIFICATION Spec
CONSTANTS
  main = main
  a = a
  b = b
  Threads <- MCThreads
  Main = main
  NoThread = none
  Signals = FALSE
  StwSweep = FALSE
  Rounds = 2
  TermRetries = 2
  MaxCycles = 2
SYMMETRY MCSymmetry
INVARIANTS ParkedSafely NothingLeftBehind
PROPERTIES SweepSeesAllStacks
