SPECIFICATION Spec
CONSTANTS
    Wallets = {w1}
    Refreshers = {"feed"}
    Pollers = 1
    MaxSignatures = 2
    MaxTransactions = 2
    MaxPages = 2
    BoundaryInPage = TRUE
    MaxHistory = 2
    MaxFaults = 1
PROPERTIES NativeStreamDelivers
CHECK_DEADLOCK FALSE
