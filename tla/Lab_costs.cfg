SPECIFICATION Spec
CONSTANTS
  Focus = {"trade"}
  e1 = e1
  e2 = e2
  u1 = u1
  u2 = u2
  g1 = g1
  g2 = g2
  name = name
  NoValue = NoValue
  Editors = {e1, e2}
  VersionGraphs = {g1, g2}
  Names = {name}
  NameOf <- OneStrategy
  Ranges <- TwoRanges
  SweepRanges <- SomeRanges
  Blocks <- SomeBlocks
  Reports <- SomeReports
  Prices = {800000, 1000000, 1200000}
  Atrs = {0, 100000}
  Strategies <- SomeStrategies
  Overrides <- SomeOverrides
  Bodies <- SomeBodies
  MaxFaults = 1
  MaxVersion = 3
  Posts = {h1}
  h1 = h1
  Jobs = {1, 2, 3}
  RunCount = 2
  Scores = {0}
  Null = Null
  MaxThrows = 1
  Requests = {e1, e2}
  Backtests = {u1, u2}
  Last = 3
  Keep = 2
  Users = {u1, u2}
  Suffixes = {x1, x2}
  x1 = x1
  x2 = x2
  Graphs = {g1, g2}
  First = g1
  Saves = {1, 2}
  MaxEdits = 2
  MaxMoves = 2
  MaxRefused = 1
  Palette = {"stop_loss", "take_profit", "enter_short", "and_gate", "macd"}
  MaxCanvasEdits = 3
  MaxParams = 2
  MaxRuns = 20
  MaxBars = 4
  MaxDatasetBars = 12
  NoRatio = NoRatio
  MaxHistory = 5
  Htf = 3
  Ratio = 2
  MaxGaps = 1
  Lookback = 3
  MaxRestarts = 1
INVARIANT
  CostsShave
CHECK_DEADLOCK FALSE
