SPECIFICATION FairSpec
CONSTANTS
  i1 = i1
  i2 = i2
  Inverters = {i1, i2}
  Scenarios <- MCScenarios
  Patience = 3
  DriftLimit = 5
  MaxEvents = 5
  None = None

  
PROPERTIES
  SpikesHeldBack
  SetAfterManyDrifts
  ReadingsConverge
