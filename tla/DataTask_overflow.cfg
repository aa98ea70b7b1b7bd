SPECIFICATION FairSpec
CONSTANTS
  NULL = NULL
  NAgents = 2
  MaxStarts = 1
  MaxPackets = 1
  MaxRuns = 2
  QueueCap = 3
  AutosaveSet = {0}
  MonitorSet = {0}
  Paced = FALSE
  ClientQuits = TRUE
  SendMayFail = FALSE
  SaveMayFail = FALSE
INVARIANTS
  DoneImpliesOpen
  PacketsInOrder
PROPERTIES
  RunningEnds
