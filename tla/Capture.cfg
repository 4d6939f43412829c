SPECIFICATION Spec
CONSTANTS
    Null = Null
    Bad = Bad
    BadCell = BadCell
    Calls <- AllCalls
    Overwrites <- Writes
    MAX_VAR_PAYLOAD = 8
    GENERIC_VAR_SLOT_SIZE = 4
    MAX_EXECVE_ARGV = 2
    MAX_EXECVE_ARG_STR = 3
    MAX_EXECVE_STATE_PAYLOAD = 6
INVARIANTS CapturesInside ArgumentsShown PathsWhole ExecveShown
CHECK_DEADLOCK FALSE
