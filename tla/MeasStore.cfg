SPECIFICATION FairSpec
CONSTANTS
  MaxMeasures = 3
  MaxDepth = 2
  ClientDrops = TRUE
  ClientQuits = TRUE
  SaveMayFail = TRUE
INVARIANTS
  TypeOK
  EveryMeasureOnce
  ListingHolds
  AutosaveLeavesNothing
PROPERTIES
  EndsUnlessMutexLeft
