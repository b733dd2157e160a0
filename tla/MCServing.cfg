SPECIFICATION Spec
CONSTANTS
  Clients = {c1, c2}
  Probes = {p1}
  Served <- FewPaths
  MaxConns = 1
  RequestTimeout = 2
  StatementTimeout = 1
  ShutdownWait = 1
  ReadTimeout = 3
  WriteTimeout = 4
  ReadyTimeout = 1
  ProbeTimeout = 2
SYMMETRY Symmetry
INVARIANTS
  TypeOK
  ConnectionsAccounted
  HoldersNeverWait
  SafeToRetry
  AnsweredInTime
  OkMeansDone
  OwnFaultOnly
  MetricsTellWhatHappened
  ClosedInOrder
  LeavesInTime
PROPERTY CutOnlyAfterWait
