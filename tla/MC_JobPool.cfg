CONSTANTS
    NumObjs = 3
    Wrap = 16
    h1 = h1
    h2 = h2
    Heap = {h1, h2}
SPECIFICATION Spec
CHECK_DEADLOCK FALSE
INVARIANT PoolInv
INVARIANT NewOnlyWhenFull
PROPERTY ImplementsObjectPool
