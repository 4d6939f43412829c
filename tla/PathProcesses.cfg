SPECIFICATION Spec
CONSTANTS
    NoPath = NoPath
    Pid = {1, 2}
    Fd = {3}
    TracePaths <- Traced
    TraceIds = {"read", "rename"}
    Names = {"d", "e", "f"}
    First = 1
    InitDirs <- Tree
    InitFiles <- TreeFiles
    StartDirs <- AtRoot
    Raw <- SharedArgs
    Programs <- SharedPrograms
    MaxEvents = 4
INVARIANTS TrackedIffTraced FilterKnows
PROPERTIES OutputExact
CHECK_DEADLOCK FALSE
