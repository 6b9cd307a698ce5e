SPECIFICATION Spec
CONSTANTS
  c1 = c1
  c2 = c2
  stdout = stdout
  stderr = stderr
  None = None
  Conns <- TwoConns
  Streams <- BothStreams
  HistorySize = 2
  QueueSize = 2
  MaxFrames = 3
SYMMETRY Symmetry
INVARIANTS
  TerminalInv
  DeliveredInOrder
  LiveFramesArrive
  ReplayIsTheTail
  DetachedSessionsAreTimed
CHECK_DEADLOCK FALSE
