SPECIFICATION DBSpec
CONSTANTS
  alice = alice
  bob = bob
  ws1 = ws1
  ws2 = ws2
  ws3 = ws3
  NoRow = NoRow
  AnyWorker = 0
  Members = {alice, bob}
  WS = {ws1, ws2}
  Workers = {1, 2}
  PoolSize <- MCPoolSize
  MemberOps = {"get", "start", "stop", "release"}
  ReportStates = {"running", "deleted"}
SYMMETRY MCSymmetry
INVARIANTS
  SlotsExclusive
  ClaimNeverConflicts
  DBInv
PROPERTIES
  
  OnlyReleasedRowsVanish
