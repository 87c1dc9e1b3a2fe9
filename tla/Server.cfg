SPECIFICATION FairSpec
CONSTANTS
    Control = {c1}
    Wire = {w1}
    Worker = {s1, s2}
    MessageType = {keepAlive}
    AutoStart = FALSE
    EngineEnabled = TRUE
    MaxExchanges = 2
    MaxStarts = 2
INVARIANTS IndexWithinLog LogTellsScheduler EvidenceStillOpen ExportComplete
PROPERTIES AnsweredIsLogged NoLateScheduler ProcessEnds
CHECK_DEADLOCK FALSE
