SPECIFICATION Spec
CONSTANTS
  NAgents = 2
  MaxStarts = 2
  MaxStops = 1
  ClientQuits = FALSE
  ConfigMayFail = TRUE
  SyncMayFail = FALSE
PROPERTIES
  AckMeansStarted
