CONSTANTS
  p = p
  q = q
  r = r
  c1 = c1
  c2 = c2
  v1 = v1
  v2 = v2
  None = None
  Threads <- ThreePeers
  Chans <- OneChan
  Values <- TwoValues
  Cap <- Cap0
  Requests <- TwoSenders
  Collects = FALSE
SPECIFICATION Spec
INVARIANT NoLostWakeup
