\* Two handles on one file race each other and the rescuer.  A handle opened
\* for both that never writes does all that a read-only one does, and what a
\* truncation changes, the content of a local copy, no property here reads.
CONSTANTS
    f1 = f1
    f2 = f2
    h1 = h1
    h2 = h2
    Handles = {h1, h2}
    Files = {f1}
    Created = {}
    Modes = {"wronly", "rdwr"}
    Truncated = {}
    Hole = Hole
    Missing = Missing
    NoRow = NoRow
    MaxWrites = 3
    MaxForeign = 0
    MaxDrops = 0
    MaxCrashes = 0
    MaxVersion = 2
    MaxFetching = 1
SPECIFICATION Spec
INVARIANTS TypeOK WriteThrough NoGap
PROPERTIES UnsentIsMarked WritesBack
SYMMETRY HandleSymmetry
CHECK_DEADLOCK FALSE
