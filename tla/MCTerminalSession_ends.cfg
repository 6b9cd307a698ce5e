SPECIFICATION FairSpec
CONSTANTS
  c1 = c1
  c2 = c2
  stdout = stdout
  stderr = stderr
  None = None
  Conns <- TwoConns
  Streams <- OneStream
  HistorySize = 2
  QueueSize = 2
  MaxFrames = 2
PROPERTIES
  ReplacedConnsClose
  ClosedSessionLetsGo
CHECK_DEADLOCK FALSE
