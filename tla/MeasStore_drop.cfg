SPECIFICATION FairSpec
CONSTANTS
  MaxMeasures = 2
  MaxDepth = 2
  ClientDrops = TRUE
  ClientQuits = TRUE
  SaveMayFail = FALSE
PROPERTIES
  MeasurementEnds
