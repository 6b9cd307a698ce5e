SPECIFICATION Spec
CONSTANTS
  s1 = s1
  s2 = s2
  c1 = c1
  c2 = c2
  c3 = c3
  w1 = w1
  w2 = w2
  v1 = v1
  None = None
  Sessions = {s1}
  Conns = {c1, c2}
  Workers = {w1}
  VMs = {v1}
  Closers = {"reaper", "register", "terminal"}
SYMMETRY MCSymmetry
INVARIANTS
  ClosedExactlyOnce
CHECK_DEADLOCK FALSE
