SPECIFICATION LiveSpec
CONSTANTS
  p1 = p1
  p2 = p2
  c1 = c1
  c2 = c2
  t1 = t1
  t2 = t2
  Pages = {p1, p2}
  Conns = {c1, c2}
  Ids = {t1, t2}
  None = None
  NoConn = NoConn
 
INVARIANT ProxiesHaveOwners
 
 
