SPECIFICATION FairSpec
CONSTANTS
  s1 = s1
  s2 = s2
  v1 = v1
  Calls = {s1, s2, v1}
  Scenarios <- MCScenarios
  MaxEvents = 3
  None = None
PROPERTIES
  OthersKept
  WritesApplied
  ShownConverges
