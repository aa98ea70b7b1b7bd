SPECIFICATION Spec
CONSTANTS
  NAgents = 2
  NStrangers = 0
  Version = {"3.0"}
  MaxRestarts = 0
  MaxInFlight = 2
  Prompt = TRUE
INVARIANTS
  ChannelsFollowConfig
