CONSTANTS
    Files = {1, 2}
    Sizes = {0, 2, 5}
    Ranks = {0, 1, 2}
    Policies = {"LFU"}
    Limit = 6
    Filled = 0
    MaxHits = 15
    Weights = {0, 1}
    Listed <- MCListed
    Rankings <- MCRankings
    NoRow = NoRow
    NULL = NULL
    Bounds <- MCTwoOpens
    Items <- CFile
    Weight <- MCWeight
    HeapType = "HEAP_MIN"
    HeapSize = 2
SPECIFICATION FairSpec
PROPERTY HitIsCounted
CHECK_DEADLOCK FALSE
