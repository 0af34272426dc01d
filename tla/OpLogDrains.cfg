\* Two files, with fairness: the head of the log is replayed.
CONSTANTS
    Paths <- MCFiles
    Dirs <- NoPaths
    Known <- MCFiles
    Like <- MCFilesLike
    Commands = {"UNLINK", "TOUCH", "MOVE", "CHMOD"}
    NULL = NULL
    MaxOps = 3
    MaxForeign = 1
SPECIFICATION FairSpec
PROPERTY HeadDrains
CHECK_DEADLOCK FALSE
