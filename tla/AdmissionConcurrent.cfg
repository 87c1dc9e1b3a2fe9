SPECIFICATION Spec
CONSTANTS
    Host = {"HOST-001", "HOST-002"}
    Conn = {c1, c2}
    Setter = {s1}
    Trust = {"plaintext_lab", "accept_all_lab"}
    InitTrust = "plaintext_lab"
    InitMode = "strict_match"
    Delay = {milliseconds}
    InitDelay = milliseconds
    Change <- MCChange
    MaxChanges = 2
    InitAllowed = {"HOST-001"}
    Enabled = {"HOST-001"}
    Disabled = {}
    InjectOps = {"audioMuteOn", "audioMuteOff", "holdOn", "holdOff", "lockOn", "lockOff"}
    UndefinedOp = "undefinedOp"
SYMMETRY Symmetry
INVARIANTS OverlaysStayPossible MachineMatchesFlags
PROPERTIES RefusedHostChangesNothing
