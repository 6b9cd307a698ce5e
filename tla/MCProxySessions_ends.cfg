SPECIFICATION FairSpec
CONSTANTS
  s1 = s1
  s2 = s2
  c1 = c1
  c2 = c2
  c3 = c3
  w1 = w1
  w2 = w2
  v1 = v1
  None = None
  Sessions = {s1}
  Conns = {c1, c2, c3}
  Workers = {w1}
  VMs = {}
  Closers = {"reaper"}
INVARIANTS
  
  ActiveHasRelay
  SessionInv
PROPERTIES
  BrokenSessionsGo
CHECK_DEADLOCK FALSE
