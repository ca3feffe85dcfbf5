CONSTANTS
  Retrievals = {r1, r2}
  Ticks = {t1, t2}
  NoRetrieval = NoRetrieval
  NotHealthy = NotHealthy
  StaleAfter <- MCStaleAfter
  Mode = "both_failover"
  FailoverPrimary = "modbus"
  EarlyOptions = {}
  MinDwell = 2
  PrimaryRecovery = 3
SPECIFICATION Spec

INVARIANTS
  StoppedOnUnload
