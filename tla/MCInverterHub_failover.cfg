CONSTANTS
  Retrievals = {r1, r2}
  Ticks = {t1, t2}
  NoRetrieval = NoRetrieval
  NotHealthy = NotHealthy
  StaleAfter <- MCStaleAfter
  Mode = "both_failover"
  FailoverPrimary = "cloud"
  EarlyOptions = {}
  MinDwell = 1
  PrimaryRecovery = 2
SPECIFICATION FairSpec
INVARIANTS
  HubTypeOK
  CurrentServesActive
  NoOrphans
PROPERTIES
  MinDwellBetweenSwitches
  ReturnOnlyAfterRecovery
  LeaseSpec
  FailsOver
  ReturnsToPrimary
  StoppedGoesQuiet
