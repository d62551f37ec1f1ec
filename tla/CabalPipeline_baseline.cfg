SPECIFICATION Spec
CONSTANTS
    NoWallet = NoWallet
    Adapters = {"paper"}
    Wallets = {b1}
    MaxPerWallet = 1
    Balance = 2
    MinSize = 2
    Size = 2
    GasReserve = 1
    Tiers = 1
    MaxPositions = 2
    MaxFaults = 0
    Limit = 2
    MaxTrades = 2
    MaxPrunings = 0
INVARIANTS HistoryNotReplayed
CHECK_DEADLOCK FALSE
