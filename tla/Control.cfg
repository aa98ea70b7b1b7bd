SPECIFICATION FairSpec
CONSTANTS
  NAgents = 2
  MaxStarts = 2
  MaxStops = 2
  ClientQuits = TRUE
  ConfigMayFail = TRUE
  SyncMayFail = TRUE
INVARIANTS
  TypeOK
  AnswersPaired
  StatusTellsThread
  OneTermOwed
  IdleMeansNotMeasuring
  NeverConfiguredWhileMeasuring
PROPERTIES
  
  CommandReturns
  
