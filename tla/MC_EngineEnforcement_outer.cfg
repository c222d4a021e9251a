CONSTANTS
    GP = GP
    X = X
    Engine = {GP, X}
    AnyEngine = AnyEngine
    DefaultEngine <- MC_DefaultEngine
    Preserve <- MC_KeepDistribution
    Base <- MC_Filter
    OuterRefs = TRUE
    HazardHandling = TRUE
    Requests <- MC_RequestsMerge
SPECIFICATION Spec
CHECK_DEADLOCK FALSE
INVARIANT NoSelfDeadlock
