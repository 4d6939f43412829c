SPECIFICATION Spec
CONSTANTS
    NoPath = NoPath
    Pid = {1}
    Fd = {3, 4}
    TracePaths <- Traced
    TraceIds = {}
    Names = {"d", "e", "f"}
    First = 1
    InitDirs <- Tree
    InitFiles <- TreeFiles
    StartDirs <- AtRoot
    Raw <- OwnArgs
    Programs <- OwnPrograms
    MaxEvents = 4
INVARIANTS TypeOK TrackedIffTraced FilterKnows
PROPERTIES OutputExact
CHECK_DEADLOCK FALSE
