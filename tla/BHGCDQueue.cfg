SPECIFICATION FairSpec
CONSTANTS
    Workers = {w1, w2}
    Clients = {c1, c2}
    NormalTasks = {n1}
    BarrierTasks = {b1, b2}
    GroupTasks = {}
    Groups = {}
    NoGroup = NoGroup
    NoTask = NoTask
    Nobody = Nobody
    InitialNormalCount = 0
    MovedFromOutcomes = {"runs"}
    FireArguments = {TRUE}
    CallbacksCallBack = FALSE
    StaleReads = TRUE
INVARIANT PermitsFindTasks
INVARIANT NormalCountExact
PROPERTY BarrierWaitsForRunning
PROPERTY ImplementsTaskPool
PROPERTY QueuedTaskRuns
CHECK_DEADLOCK FALSE
