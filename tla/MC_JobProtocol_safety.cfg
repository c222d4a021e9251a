SPECIFICATION Spec
CONSTANTS
    j1 = j1 j2 = j2 j3 = j3 j4 = j4
    q1 = q1 q2 = q2
    Job = {j1, j2, j3, j4}
    Queue = {q1, q2}
    None = None
    Level <- MC_Level
    AcyclicMemo = TRUE
    MaxCreated = 6
    MaxStages = 1
SYMMETRY MC_Symmetry
CHECK_DEADLOCK FALSE
INVARIANT TypeOK
INVARIANT RefsExact
INVARIANT WaitingIsRunnable
INVARIANT SuspendedIsAwaited
INVARIANT NoReleasedJobInUse
INVARIANT UniqueExecution
PROPERTY CompletesInOrder
