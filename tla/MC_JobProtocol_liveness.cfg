SPECIFICATION FairSpec
CONSTANTS
    j1 = j1 j2 = j2 j3 = j3 j4 = j4
    q1 = q1 q2 = q2
    Job = {j1, j2, j3, j4}
    Queue = {q1, q2}
    None = None
    Level <- MC_Level
    AcyclicMemo = TRUE
    MaxCreated = 4
    MaxStages = 0
PROPERTY EveryJobCompletes
CHECK_DEADLOCK FALSE
