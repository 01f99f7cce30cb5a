SPECIFICATION Spec
CONSTANTS
  Focus = {"sessions", "assistant", "terminal", "page", "private", "public", "funding", "scan", "entries"}
  h1 = h1
  e1 = e1
  e2 = e2
  c1 = c1
  c2 = c2
  c3 = c3
  tabA = tabA
  tabB = tabB
  Posts = {h1}
  Clients = {e1, e2}
  MaxFaults = 1
  Tabs = {tabA, tabB}
  Calls = {c1, c2, c3}
  TabOf <- ThreeCalls
  Tokens = {1, 2, 3}
  MaxLost = 1
  MaxEffects = 2
  Syncs = {c1, c2}
  Tests = {h1}
  Creds = {1, 2}
  ValidCreds = {1, 2}
  Sockets = {1, 2, 3}
  Topics = {"a", "b"}
  Markets = {linear, spot}
  Default = linear
  Guest = spot
  None = None
  Effects = {1, 2, 3}
  MaxEdits = 1
  Period = 6
  PreBuffer = 2
  Lag = 1
  Window = 2
  Horizon = 20
  Symbols = {"A", "B"}
  Rates <- SomeRates
  Bases <- SomeBases
  Marks = {10, 12, 15}
  MaxSnaps = 3
  TopN = 1
  Strategies <- BotPlans
  Instruments <- VenueRules
  Prices = {95, 100}
  Sides = {"long"}
  Ttl = 2
  Day = 2
  MaxTime = 4
  MaxEntries = 3
SYMMETRY Symmetry
INVARIANTS
  TypeOK
  SessionsRotate
  PlansExecute
  
  
  FeedHolds
  
CHECK_DEADLOCK FALSE
