CONSTANTS
  p = p
  q = q
  r = r
  c1 = c1
  c2 = c2
  v1 = v1
  v2 = v2
  None = None
  Threads <- ThreePeers
  Chans <- TwoChans
  Values <- TwoValues
  Cap <- MixedCap
  Requests <- Selecting
  Collects = FALSE
SPECIFICATION Spec
INVARIANTS
  NoDanglingWaiter
PROPERTIES
  RendezvousTaken
