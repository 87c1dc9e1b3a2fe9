SPECIFICATION Spec
CONSTANTS
    Worker = {w1}
    Manual = {m1}
    None = None
    EngineEnabled = FALSE
    AcceptWrapped = FALSE
    AllowGeneric = TRUE
    RunHeartbeatWhenIdle = FALSE
    FailureThreshold = 2
    InboundOps = {"commsOnLine", "keepAlive", "commsClosing", "holdOn"}
PROPERTIES OnlineNeedsAck
