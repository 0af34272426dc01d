\* A name whose mode was changed offline is removed while the rescuer replays.
CONSTANTS
    Paths <- MCFiles
    Dirs <- NoPaths
    Known <- MCFiles
    Like <- NoPaths
    Commands = {"UNLINK", "CHMOD"}
    NULL = NULL
    MaxOps = 2
    MaxForeign = 0
SPECIFICATION FairSpec
PROPERTY RemovalIsLogged
CHECK_DEADLOCK FALSE
