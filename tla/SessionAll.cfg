SPECIFICATION Spec
CONSTANTS
    Worker = {w1}
    Manual = {m1}
    None = None
    EngineEnabled = TRUE
    AcceptWrapped = FALSE
    AllowGeneric = FALSE
    RunHeartbeatWhenIdle = FALSE
    FailureThreshold = 2
    InboundOps = {"commsOnLine", "keepAlive", "commsClosing", "holdOn"}
INVARIANTS DegradedMeansFailures UnreachableMeansLost
PROPERTIES OnlineNeedsAck
