SPECIFICATION FairSpec
CONSTANTS
    Workers = {w1, w2}
    Clients = {c1, c2}
    NormalTasks = {}
    BarrierTasks = {}
    GroupTasks = {x1, x2}
    Groups = {g1, g2}
    NoGroup = NoGroup
    NoTask = NoTask
    Nobody = Nobody
    InitialNormalCount = 0
    MovedFromOutcomes = {"runs", "throws"}
    FireArguments = {TRUE, FALSE}
    CallbacksCallBack = FALSE
    StaleReads = FALSE
INVARIANT GroupsSound
INVARIANT CallbackAfterAllTasks
 
PROPERTY StopReturns
CHECK_DEADLOCK FALSE
