SPECIFICATION FairSpec
CONSTANTS
  c1 = c1
  c2 = c2
  r1 = r1
  Calls = {c1, c2, r1}
  Controls = {c1, c2}
  MaxAttempts = 3
  MaxCalls = 3
  MaxEvents = 3
  Nobody = Nobody
CHECK_DEADLOCK FALSE
INVARIANTS
  CallOrderKept
  SecondLoginHelps
PROPERTIES
  SpacedUnlessCancelled
  EveryCallEnds
