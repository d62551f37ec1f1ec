SPECIFICATION FairSpec
CONSTANTS
    MaxSignatures = 2
    MaxTransactions = 2
    MaxPages = 2
    BoundaryInPage = TRUE
    Sources = {"poll", "stream"}
    MaxHistory = 4
    MaxFaults = 2
INVARIANTS TypeOK TradesAreRecorded ReadIsThePageLoop
PROPERTIES HandlesInOrder HandledInTheEnd
CHECK_DEADLOCK FALSE
