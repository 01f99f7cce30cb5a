SPECIFICATION LiveSpec
CONSTANTS
  Intents = {i1}
  Pollers = {p1, p2}
  Handlers = {h1}
  Modes = {"live"}
  Requests = {"kill"}
  PatchTargets = {}
  MaxRetries = 1
  MaxManual = 0
  MaxOrders = 2
  FaultKinds = {"crash"}
  MaxFaults = 1
  Refused = {}
  NoIntent = NoIntent
INVARIANTS
  TypeOK
  ExclusiveExecution

  
