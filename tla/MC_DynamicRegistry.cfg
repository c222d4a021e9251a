CONSTANTS
    gp = gp
    x = x
    op1 = op1
    op2 = op2
    t1 = t1
    r1 = r1
    EngineName = {gp, x}
    GPName = gp
    OpName = {op1, op2}
    XformName = {t1}
    RuleName = {r1}
    ExfSentinel = 1
    DefaultsFirst = TRUE
    UniqueNames = TRUE
    KnownEngines = TRUE
    MaxEngine = 4
    MaxOp = 3
    MaxXform = 3
SPECIFICATION RegistrySpec
SYMMETRY MC_Symmetry
CHECK_DEADLOCK FALSE
INVARIANT RegistryInv
INVARIANT XformAtItsId
PROPERTY RemovalLocal
