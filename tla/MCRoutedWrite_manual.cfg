CONSTANTS
  Retrievals = {r1, r2, r3}
  Ticks = {t1}
  Writes = {w1}
  NoRetrieval = NoRetrieval
  NotHealthy = NotHealthy
  StaleAfter <- MCStaleAfter
  Mode = "both_manual"
  FailoverPrimary = "modbus"
  EarlyOptions = {"modbus"}
  MinDwell = 1
  PrimaryRecovery = 1
SPECIFICATION WriteSpec
SYMMETRY MCSymmetry
INVARIANTS
  StandbyHasNoTimers
  FallbackUnlessOvertaken
