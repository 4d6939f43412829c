SPECIFICATION Spec
CONSTANTS
    NoPath = NoPath
    Pid = {1}
    Fd = {3, 4}
    TracePaths <- Traced
    TraceIds = {}
    Names = {"d", "e", "f"}
    First = 1
    InitDirs <- Tree
    InitFiles <- TreeFiles
    StartDirs <- AtRoot
    Raw <- SharedArgs
    Programs <- PollPrograms
    MaxEvents = 3
PROPERTY OnlyAccesses
CHECK_DEADLOCK FALSE
