CONSTANTS
    Files = {1, 2, 3, 4, 5}
    Sizes = {0, 1, 2, 5}
    Ranks = {0, 1, 2}
    Policies = {"FIFO", "LRU", "LFU", "LFUSS", "WLFUSS", "QLFUSS"}
    Limit = 6
    Filled = 5
    MaxHits = 1
    Weights = {0, 1, 4}
    Listed <- MCListed
    Rankings <- MCRankings
    NoRow = NoRow
    NULL = NULL
    Bounds <- MCBounds
    Items <- CFile
    Weight <- MCWeight
    HeapType = "HEAP_MIN"
    HeapSize = 2
SPECIFICATION FairSpec
INVARIANT TypeOK HeapInv WithinLimit HeapLasts CopiesAreCounted
PROPERTY HeapIsQueue CleanupEnds NoneTwice
CHECK_DEADLOCK FALSE
