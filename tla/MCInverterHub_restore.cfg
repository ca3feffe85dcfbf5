CONSTANTS
  Retrievals = {r1, r2, r3}
  Ticks = {t1, t2}
  NoRetrieval = NoRetrieval
  NotHealthy = NotHealthy
  StaleAfter <- MCStaleAfter
  Mode = "both_manual"
  FailoverPrimary = "modbus"
  EarlyOptions = {"modbus", "cloud"}
  MinDwell = 2
  PrimaryRecovery = 3
SPECIFICATION Spec

INVARIANTS
  StandbyHasNoTimers
