CONSTANTS
    GP = GP
    X = X
    Engine = {GP, X}
    AnyEngine = AnyEngine
    DefaultEngine <- MC_DefaultEngine
    Preserve <- MC_KeepDistribution
    Base <- MC_Scans
    OuterRefs = FALSE
    HazardHandling = TRUE
    Requests <- MC_RequestsGP
SPECIFICATION FairSpec
CHECK_DEADLOCK FALSE
INVARIANT NoSelfDeadlock
INVARIANT PlansValid
PROPERTY OptimizationEnds
