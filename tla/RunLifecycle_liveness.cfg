SPECIFICATION FairSpec
CONSTANTS
  r1 = r1
  r2 = r2
  b1 = b1
  b2 = b2
  p1 = p1
  p2 = p2
  w1 = w1
  w2 = w2
  NoRun = NoRun
  NoBot = NoBot
  NoWorker = NoWorker
  Runs = {r1}
  Bots = {b1}
  Handlers = {h1}
  Pollers = {p1, p2}
  Workers = {w1, w2}
  BotOf <- OneBot
  SymbolOf <- SameSymbol
  WorkerOf <- TwoProcesses
  Requests = {"start"}
  PatchTargets = {}
  TimeoutTake = 20
  Clocks = {"age", "duration", "lease"}
  MaxFaults = 1
PROPERTIES
  RunsEnd
  OrphanIsReclaimed
