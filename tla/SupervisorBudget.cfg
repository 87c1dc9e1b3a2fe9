SPECIFICATION Spec
CONSTANTS
    Instance = {i1}
    InitFleet = {i1}
    Proc = {p1, p2, p3}
    Handler = {h1, h2}
    None = None
    maxSupervisorRestarts = 3
    MaxMonitors = 2
    SignalIsExit = TRUE
    StartMayFail = TRUE
SYMMETRY Symmetry
INVARIANTS TrackedIsMonitored
PROPERTIES ReplacedOnlyWhenExited ImplementsLifecycle
