SPECIFICATION Spec
CONSTANTS
    Hosts = {"tui"}
    Mints = {1}
    MaxFaults = 0
INVARIANTS StartupDrainDelivers
CHECK_DEADLOCK FALSE
