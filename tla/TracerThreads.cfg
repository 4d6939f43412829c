SPECIFICATION Spec
CONSTANTS
    root = root
    t2 = t2
    NoTid = NoTid
    Pending = Pending
    Tid <- TwoTids
    Root = root
    Attached = {root, t2}
    Kinds <- ThreadKinds
    Selected = {"read", "execve", "exit_group"}
    FilterEnabled = TRUE
    FollowForks = TRUE
    MaxEntries = 1
    RingSize = 2
    MaxCalls = 2
INVARIANTS TypeOK FaithfulUnlessSuspect SnapshotOfCall
PROPERTIES TargetRemoval NoSilentLoss RefinesTraceLog
CHECK_DEADLOCK FALSE
