SPECIFICATION Spec
CONSTANTS
    Hosts = {"tui", "discord"}
    Mints = {1, 2}
    MaxFaults = 2
INVARIANTS TypeOK DeliveredWasSeen TuiOutboxDrained
PROPERTIES PostedOnce
CHECK_DEADLOCK FALSE
