CONSTANTS
  a1 = a1
  a2 = a2
  b1 = b1
  PollA = PollA
  PollB = PollB
  Setup = Setup
  NoGroup = NoGroup
  Cycles = {a1, a2, b1}
  PollerOf <- MCPollerOf
  Scenarios <- MCScenarios
  MaxDepth = 1
SPECIFICATION FairSpec
INVARIANTS
  RecoveryTypeOK
  EnabledCovered
  NoFalseAlarm
  StandbyFollows
PROPERTIES
  Settles
