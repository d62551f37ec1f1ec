SPECIFICATION FairSpec
CONSTANTS
    NoWallet = NoWallet
    Adapters = {"paper", "live"}
    Wallets = {b1}
    MaxPerWallet = 1
    Balance = 3
    MinSize = 2
    Size = 2
    GasReserve = 1
    Tiers = 1
    MaxPositions = 2
    MaxFaults = 1
    Limit = 2
    MaxTrades = 2
    MaxPrunings = 1
INVARIANTS TypeOK LeasesMatchPositions SoldOnce BalanceCoversEntries PollerNeverRepeats PollerPassesNothing
PROPERTIES NewTradesHandled
CHECK_DEADLOCK FALSE
