\* Every operation on two directories and the files in them; other clients interfere.
CONSTANTS
    Paths <- MCTree
    Dirs <- MCDirs
    Known <- MCKnown
    Like <- MCLike
    Commands = {"TOUCH", "MKDIR", "UNLINK", "RMDIR", "MOVE", "CHMOD", "READDIR"}
    NULL = NULL
    MaxOps = 4
    MaxForeign = 1
SPECIFICATION Spec
INVARIANTS TypeOK RemovalRemembered
CHECK_DEADLOCK FALSE
