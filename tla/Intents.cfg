SPECIFICATION Spec
CONSTANTS
  Scopes = {"overlap", "serial"}
  i1 = i1
  i2 = i2
  p1 = p1
  p2 = p2
  p3 = p3
  h1 = h1
  NoIntent = NoIntent
SYMMETRY Symmetry
INVARIANTS
  ClaimsHold
PROPERTIES
  KillIsFinal
  
