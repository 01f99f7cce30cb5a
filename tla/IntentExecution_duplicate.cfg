SPECIFICATION Spec
CONSTANTS
  Intents = {i1}
  Pollers = {p1}
  Handlers = {h1}
  Modes = {"live"}
  Requests = {}
  PatchTargets = {}
  MaxRetries = 1
  MaxManual = 0
  MaxOrders = 2
  FaultKinds = {}
  MaxFaults = 0
  Refused = {}
  NoIntent = NoIntent
INVARIANTS
  OneOrderPerIntent
