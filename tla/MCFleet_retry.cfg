SPECIFICATION LiveSpec
CONSTANTS
  alice = alice
  ws1 = ws1
  ws2 = ws2
  NoRow = NoRow
  NoBeat = NoBeat
  AnyWorker = 0
  Members = {alice}
  WS = {ws1}
  Workers = {1}
  PoolSize <- MCPoolSize
  MemberOps = {"get", "release"}
  ReportStates <- MCReportStates
  Beats = {1}
  TartGetMayFail = FALSE
PROPERTIES
  ErrorIsRetried
