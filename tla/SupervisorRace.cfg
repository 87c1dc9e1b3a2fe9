SPECIFICATION Spec
CONSTANTS
    Instance = {i1, i2}
    InitFleet = {i1, i2}
    Proc = {p1, p2, p3}
    Handler = {h1, h2}
    None = None
    maxSupervisorRestarts = 1
    MaxMonitors = 1
    SignalIsExit = TRUE
    StartMayFail = FALSE
SYMMETRY Symmetry
INVARIANTS TypeOK TrackedIsWanted
PROPERTIES OrphanedOnlyByRemoval
