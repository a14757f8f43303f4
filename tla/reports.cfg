SPECIFICATION FairSpec
CHECK_DEADLOCK FALSE
CONSTANTS
  ReportIds = {r1, r2}
  W1 = w1
  W2 = w2
  Workers = {w1, w2}
  Pools <- MCPools
  None = None
  MaxEdits = 1
  MaxFaults = 1
  MaxRedelivered = 1
INVARIANTS
  TypeOK
  ReadyIsCurrent
PROPERTIES
  HistoryKept
  ReportSettles
