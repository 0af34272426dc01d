---------------------------- MODULE MCCacheSpace ----------------------------
(* Small instances of CacheSpace for TLC.                                  *)
EXTENDS CacheSpace, TLC

MCWeight == [c \in CFile |-> c.weight]

\* file 1 takes five units, file 2 two, the others one
MCListed == [f \in Files |-> CASE f = 1 -> 5 [] f = 2 -> 2 [] OTHER -> 1]

\* rising, falling, and a mixed order: the heap itself is proved
MCRankings ==
    {[f \in Files |-> f \div 2], [f \in Files |-> 2 - (f \div 2)], [f \in Files |-> f % 3]}

\* under LFU, a second operation meets what the first and a death have left
MCBounds ==
    [p \in Policies |-> IF p = "LFU" THEN [ops |-> 2, gone |-> 0, kills |-> 1]
                        ELSE [ops |-> 1, gone |-> 1, kills |-> 1]]

\* two opens in a row
MCTwoOpens == [p \in Policies |-> [ops |-> 2, gone |-> 0, kills |-> 0]]
=============================================================================
