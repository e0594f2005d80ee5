CONSTANTS
  p = p
  q = q
  r = r
  c1 = c1
  c2 = c2
  v1 = v1
  v2 = v2
  None = None
  Threads <- ThreePeers
  Chans <- OneChan
  Values <- TwoValues
  Cap <- Cap2
  Requests <- Queueing
  Collects = TRUE
SPECIFICATION FairSpec
INVARIANTS
  RootBalance
  NoLostWakeup
PROPERTIES
  KeepsPromise
  CloseReleases
