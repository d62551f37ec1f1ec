SPECIFICATION Spec
CONSTANTS
  Markets = {m1}
  Deliveries = {d1}
  Manuals = {s1}
  Worker = worker
  Tokens = 2
  MaxOpen = 1
  MaxCrashes = 1
  NoMarket = NoMarket
INVARIANTS RestartResumesPositions
