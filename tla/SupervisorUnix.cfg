SPECIFICATION FairSpec
CONSTANTS
    Instance = {i1}
    InitFleet = {i1}
    Proc = {p1, p2}
    Handler = {h1}
    None = None
    maxSupervisorRestarts = 1
    MaxMonitors = 2
    SignalIsExit = FALSE
    StartMayFail = TRUE
PROPERTIES EndedChildHandled
