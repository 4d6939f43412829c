SPECIFICATION FairSpec
CONSTANTS
    root = root
    t2 = t2
    NoTid = NoTid
    Pending = Pending
    Tid <- TwoTids
    Root = root
    Attached = {}
    Kinds <- CloneKinds
    Selected = {"read", "execve", "exit_group"}
    FilterEnabled = TRUE
    FollowForks = TRUE
    MaxEntries = 2
    RingSize = 1
    MaxCalls = 2
INVARIANTS FaithfulUnlessSuspect FilterRespected TargetsAreFamily
PROPERTIES RingMakesRoom NoSilentLoss ChildrenFollowed
CHECK_DEADLOCK FALSE
