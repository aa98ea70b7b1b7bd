SPECIFICATION FairSpec
CONSTANTS
  NAgents = 2
  NStrangers = 1
  Version = {"3.0", "2.0"}
  MaxRestarts = 1
  MaxInFlight = 2
  Prompt = TRUE
INVARIANTS
  TypeOK
  
  NoLateHello
  DataTasksRun
PROPERTIES
  DiscoveryCompletes
