SPECIFICATION Spec
CONSTANTS
    root = root
    t2 = t2
    NoTid = NoTid
    Pending = Pending
    Tid <- TwoTids
    Root = root
    Attached = {}
    Kinds <- ForkKinds
    Selected = {"read"}
    FilterEnabled = TRUE
    FollowForks = TRUE
    MaxEntries = 2
    RingSize = 1
    MaxCalls = 3
INVARIANT EventFaithful
CHECK_DEADLOCK FALSE
