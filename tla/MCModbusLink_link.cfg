CONSTANTS
  entry = entry
  flow = flow
  o1 = o1
  o2 = o2
  c1 = c1
  c2 = c2
  NoClient = NoClient
  Controllers = {entry, flow}
  Ops = {o1, o2}
  ControllerOf <- MCControllerOf
  Clients = {c1, c2}
  Validators = {flow}
  MaxAttempts = 2
SPECIFICATION FairSpec
INVARIANTS
  LinkTypeOK
  EveryHolderIsCounted
  OneRequestPerClient
PROPERTIES
  BusSpec
  OperationsEnd
