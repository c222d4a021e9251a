SPECIFICATION SearchSpec
CONSTANTS
    None = None
    Job <- MC_Job
    Queue <- MC_Queue
    Level <- MC_Level
    AcyclicMemo = FALSE
    MaxCreated = 100
    MaxStages = 2
    Group <- MC_Group
    Root = "R"
    ScalarGroup = {"S"}
    GExpr <- MC_GExpr
    GroupOf <- MC_GroupOf
    Kids <- MC_Kids
    Logical <- MC_Logical
    Seed <- MC_Seed
    Xform <- MC_XformAll
    Circular <- MC_Circular
    Ctx <- MC_Ctx
    RootCtx = "r0"
    CtxGroup <- MC_CtxGroup
    Request <- MC_Request
    Provides <- MC_Provides
    Enforcers <- MC_Enforcers
    Delivers <- MC_Delivers
    Rejected <- MC_Rejected
    Eol <- MC_Eol
    CTESequence = {"seq"}
    CTECtx <- MC_CTECtx
    LocalCost <- MC_LocalCost
    Pruning = TRUE
    CanTimeOut = TRUE
    CostThreshold = 0
CHECK_DEADLOCK FALSE
INVARIANT SearchInv
INVARIANT CostsCurrent
INVARIANT DrainedOnReturn
