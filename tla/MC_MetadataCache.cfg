CONSTANTS
    rel = rel
    index = index
    type = type
    ctas = ctas
    Key = {rel, index, type, ctas}
    Ctas = {ctas}
    Bucket <- MC_Bucket
    NumBuckets = 3
    Bytes <- MC_Bytes
    Needs <- MC_Needs
    Quotas = {0, 25}
    ClockInit = 1
    MaxObjects = 4
SPECIFICATION FairCacheSpec
CHECK_DEADLOCK FALSE
INVARIANT CountsInv
INVARIANT TableInv
INVARIANT FreshMetadata
INVARIANT EvictionThorough
PROPERTY EvictionEnds
