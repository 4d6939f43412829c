SPECIFICATION FairSpec
CONSTANTS
    Targets = {p1, p2}
    Faults = TRUE
    MaxEvents = 3
    MaxSignals = 2
INVARIANTS TypeOK StatusIsChilds AttachStatus HandleReleased
PROPERTIES TracedFromStart Terminates FirstSignalForwarded RefinesSupervisor
CHECK_DEADLOCK FALSE
