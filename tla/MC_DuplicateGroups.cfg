SPECIFICATION FairSpec
CONSTANTS
    Query <- Chain
    Result <- ChainResults
    MaxExprs = 5
    MaxGroups = 4
    MaxMarks = 2
    MaxStages = 2
    MaxDepth = 5
CHECK_DEADLOCK FALSE
INVARIANT LinksAscend
INVARIANT MergeInv
INVARIANT TableCurrent
INVARIANT ResetExact
PROPERTY MergeEnds
