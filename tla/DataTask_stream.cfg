SPECIFICATION Spec
CONSTANTS
  NULL = NULL
  NAgents = 2
  MaxStarts = 2
  MaxPackets = 2
  MaxRuns = 1
  QueueCap = 4
  AutosaveSet = {0,1,2}
  MonitorSet = {0}
  Paced = FALSE
  ClientQuits = FALSE
  SendMayFail = TRUE
  SaveMayFail = TRUE
INVARIANTS
  TypeOK
  DoneImpliesOpen
  PacketsInOrder
  
  
  
