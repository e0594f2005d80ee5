CONSTANTS
  Workers = {w1, w2}
  Clients = {a, b}
  Tasks = {x, y}
  TaskCalls = {"submit"}
  ClientsOrdered = TRUE
  SelfJoinReturns = TRUE
  Collects = TRUE
  Nil = Nil
CHECK_DEADLOCK FALSE
SPECIFICATION FairSpec
INVARIANTS
  MemorySafe
  WorkersAvailable
PROPERTIES
  ShutdownEnds
  AcceptedFinishes
