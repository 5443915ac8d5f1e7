SPECIFICATION FairSpec
CONSTANTS
    j1 = j1
    j2 = j2
    j3 = j3
    Jobs = {j1, j2, j3}
    Slots = 1
    Priority <- JobPriority
    Hashed = {j2, j3}
INVARIANTS
    QueueWellRun
    ReportsPaired
    NobodyLeftBehind
    VMAgrees
PROPERTIES
    OnlyBackloggedClosesOvershoot
    EveryJobEnds
CHECK_DEADLOCK FALSE
