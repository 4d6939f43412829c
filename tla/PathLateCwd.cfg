SPECIFICATION Spec
CONSTANTS
    NoPath = NoPath
    Pid = {1}
    Fd = {3, 4}
    TracePaths <- Traced
    TraceIds = {}
    Names = {"d", "e", "f"}
    First = 1
    InitDirs <- Tree
    InitFiles <- TreeFiles
    StartDirs <- AtRoot
    Raw <- RelativeArgs
    Programs <- DirectoryPrograms
    MaxEvents = 4
PROPERTY NoMissedAccess
CHECK_DEADLOCK FALSE
