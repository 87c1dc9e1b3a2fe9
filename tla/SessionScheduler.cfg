SPECIFICATION FairSpec
CONSTANTS
    Worker = {w1, w2}
    Manual = {}
    None = None
    EngineEnabled = FALSE
    AcceptWrapped = FALSE
    AllowGeneric = FALSE
    RunHeartbeatWhenIdle = FALSE
    FailureThreshold = 2
    InboundOps = {"commsClosing"}
INVARIANTS TypeOK NoSchedulerLost
PROPERTIES NoEarlyDrop StoppedWorkerEnds SchedulerHeals SchedulerOpens
