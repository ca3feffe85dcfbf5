CONSTANTS
  Registers = {ra, rb}
  Values = {0, 1}
  Calls = {w1}
  Verifies = {v1, v2}
  Polls = {p1}
  None = None
SPECIFICATION FairSpec
INVARIANTS
  CloudTypeOK
  PendingHasVerify
PROPERTIES
  PollRespectsVerify
  CacheConverges
