SPECIFICATION Spec
CONSTANTS
  NULL = NULL
  NAgents = 2
  MaxStarts = 2
  MaxPackets = 2
  MaxRuns = 2
  QueueCap = 8
  AutosaveSet = {0}
  MonitorSet = {0}
  Paced = TRUE
  ClientQuits = FALSE
  SendMayFail = FALSE
  SaveMayFail = FALSE
INVARIANTS
  StartsAligned
  
