SPECIFICATION FairSpec
CONSTANTS
  NULL = NULL
  NAgents = 2
  MaxStarts = 2
  MaxPackets = 1
  MaxRuns = 2
  QueueCap = 6
  AutosaveSet = {0}
  MonitorSet = {0,1}
  Paced = FALSE
  ClientQuits = FALSE
  SendMayFail = FALSE
  SaveMayFail = FALSE
INVARIANTS
  IdleMeansDrained
  MonitorShowsLatest
PROPERTIES
  RunningEnds
  ImplementsCycle
