SPECIFICATION LaunchSpec
CONSTANTS
    Instance = {i1}
    InitFleet = {i1}
    Proc = {p1, p2, p3}
    Handler = {h1}
    None = None
    maxSupervisorRestarts = 2
    MaxMonitors = 2
    SignalIsExit = TRUE
    StartMayFail = FALSE
PROPERTIES MonitorsRetire WantedServes
