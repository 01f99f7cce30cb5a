SPECIFICATION FairSpec
CONSTANTS
  Hedges = {h1, h2}
  RestHedges = {h1}
  WorkerHedges = {h2}
  Clients = {c1}
  Ticks = {t1, t2}
  Sized = TRUE
  MaxFaults = 1
  NoHedge = NoHedge
INVARIANTS
  TypeOK
  StageHasItsLegs
  WorkerOrdersOnce
  OpenIsHedged
  RequestsAreExact
PROPERTIES
  EntryIsDecided
CHECK_DEADLOCK FALSE
