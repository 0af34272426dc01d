\* One handle on two files: network failures, other clients, a restart, evictions.
\* A handle opened for both that never writes does all that a read-only one does.
CONSTANTS
    f1 = f1
    f2 = f2
    h1 = h1
    h2 = h2
    Handles = {h1}
    Files = {f1, f2}
    Created = {f2}
    Modes = {"wronly", "rdwr"}
    Truncated = {f1, f2}
    Hole = Hole
    Missing = Missing
    NoRow = NoRow
    MaxWrites = 2
    MaxForeign = 1
    MaxDrops = 1
    MaxCrashes = 1
    MaxVersion = 2
    MaxFetching = 1
SPECIFICATION Spec
INVARIANT Inv
PROPERTIES UnsentIsMarked WritesBack
CHECK_DEADLOCK FALSE
