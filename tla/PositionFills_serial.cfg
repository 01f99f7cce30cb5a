SPECIFICATION Spec
CONSTANTS
  Intents = {i1, i2, i3}
  Runs = {1, 2}
  Pollers = {p1}
  Dca = TRUE
  MaxSO = 2
  BaseQty = 2
  MaxFaults = 1
  NoIntent = NoIntent
SYMMETRY IntentSymmetry
INVARIANTS
  TypeOK
  RecordedIsBooked
  PositionsAgree
