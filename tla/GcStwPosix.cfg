SPECIFICATION FairSpec
CONSTANTS
  main = main
  a = a
  b = b
  Threads <- MCTwoThreads
  Main = main
  NoThread = none
  Signals = TRUE
  StwSweep = TRUE
  Rounds = 2
  TermRetries = 2
  MaxCycles = 2
PROPERTIES ReleasedUnlessWedged
CHECK_DEADLOCK FALSE
