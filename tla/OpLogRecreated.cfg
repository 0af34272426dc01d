\* A file is removed and created again.
CONSTANTS
    Paths <- MCFiles
    Dirs <- NoPaths
    Known <- MCFiles
    Like <- MCFilesLike
    Commands = {"UNLINK", "TOUCH", "MOVE", "CHMOD"}
    NULL = NULL
    MaxOps = 2
    MaxForeign = 1
SPECIFICATION FairSpec
PROPERTY RecreatedIsSynced
CHECK_DEADLOCK FALSE
