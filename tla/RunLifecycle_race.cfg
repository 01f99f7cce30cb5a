SPECIFICATION Spec
CONSTANTS
  r1 = r1
  r2 = r2
  b1 = b1
  b2 = b2
  p1 = p1
  p2 = p2
  w1 = w1
  w2 = w2
  NoRun = NoRun
  NoBot = NoBot
  NoWorker = NoWorker
  Runs = {r1, r2}
  Bots = {b1, b2}
  Handlers = {h1}
  Pollers = {p1}
  Workers = {w1}
  BotOf <- TwoBots
  SymbolOf <- SameSymbol
  WorkerOf <- OneProcess
  Requests = {"start", "stop", "stopAll", "kill", "patch", "reconcile", "heartbeat"}
  PatchTargets = {"FAILED"}
  TimeoutTake = 20
  Clocks = {"age"}
  MaxFaults = 0
INVARIANTS
  TypeOK
  EventLogChains
  OneIndexedRunPerSymbol
PROPERTIES
  ImplementsStateMachine
  StopEndsRunning
