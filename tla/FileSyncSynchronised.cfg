\* The comment of kivfs_operations.c:361 against kivfs_release.
CONSTANTS
    f1 = f1
    f2 = f2
    h1 = h1
    h2 = h2
    Handles = {h1}
    Files = {f1}
    Created = {}
    Modes = {"rdonly", "rdwr"}
    Truncated = {f1}
    Hole = Hole
    Missing = Missing
    NoRow = NoRow
    MaxWrites = 2
    MaxForeign = 0
    MaxDrops = 0
    MaxCrashes = 0
    MaxVersion = 2
    MaxFetching = 1
SPECIFICATION Spec
PROPERTY AlreadySynchronised
CHECK_DEADLOCK FALSE
