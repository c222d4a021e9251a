SPECIFICATION LifoSpec
CONSTANTS
    j1 = j1 j2 = j2 j3 = j3 j4 = j4
    q1 = q1 q2 = q2
    Job = {j1, j2, j3, j4}
    Queue = {q1, q2}
    None = None
    Level <- MC_Level
    AcyclicMemo = FALSE
    MaxCreated = 5
    MaxStages = 1
SYMMETRY MC_Symmetry
CHECK_DEADLOCK FALSE
INVARIANT LifoInv
INVARIANT ParkedMeansCycle
