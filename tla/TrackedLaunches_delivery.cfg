SPECIFICATION FairSpec
CONSTANTS
    Wallets = {w1}
    Refreshers = {"feed", "web"}
    Pollers = 2
    MaxSignatures = 2
    MaxTransactions = 2
    MaxPages = 2
    BoundaryInPage = TRUE
    MaxHistory = 2
    MaxFaults = 1
INVARIANTS TypeOK OneAlertPerMint AcknowledgedIsDelivered
PROPERTIES DueIsLaunched
CHECK_DEADLOCK FALSE
