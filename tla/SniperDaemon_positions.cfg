SPECIFICATION FairSpec
CONSTANTS
  Markets = {m1}
  Deliveries = {d1, d2}
  Manuals = {s1}
  Worker = worker
  Tokens = 3
  MaxOpen = 1
  MaxCrashes = 1
  NoMarket = NoMarket
INVARIANTS TypeOK PositionIsBought NoTokensForgotten
PROPERTIES EntriesAreNotRepeated CyclesEnd
