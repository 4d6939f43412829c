SPECIFICATION FairSpec
CONSTANTS
    Targets = {p1}
    Faults = FALSE
    MaxEvents = 1
    MaxSignals = 0
INVARIANT AllEventsPrinted
CHECK_DEADLOCK FALSE
