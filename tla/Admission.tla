----------------------------- MODULE Admission -----------------------------
(***************************************************************************)
(* Which host may talk to a virtual EGM, and what the control plane and    *)
(* the host's commands do to the rest of RuntimeState: registration mode   *)
(* and overlays, the list of allowed hosts, the trust mode, and the floor  *)
(* state (audio, hold, lock, machine) that the pack's set_state describes. *)
(*                                                                         *)
(* A critical section of Server.mu is one step.  handleWire decides under  *)
(* the lock but reads LastError for an error body after the unlock, and    *)
(* handleControlSecurityMode writes the configuration before it locks, so  *)
(* these handlers take two steps.                                          *)
(***************************************************************************)
EXTENDS Naturals, Sequences

CONSTANTS
    Host,             \* host ids
    Conn,             \* wire requests served concurrently
    Setter,           \* security/mode requests served concurrently
    Trust,            \* trust mode texts
    InitTrust,        \* security.trust_mode of the configuration file
    InitMode,         \* state_defaults.registration_mode of the pack
    Delay,            \* the numbers a timer of the pack may have
    InitDelay,        \* timers.artificial_response_delay_ms of the pack
    Change,           \* the changes that overlays are made of
    MaxChanges,       \* bound on the changes in one overlay
    InitAllowed,      \* state_defaults.allowed_host_ids of the pack
    Enabled,          \* registered_hosts of the pack: the enabled ones
    Disabled,         \*   and the ones with enabled = false
    InjectOps,        \* logical commands the control plane injects
    UndefinedOp       \* an operation the pack does not define

Modes == {"open", "strict_match", "deny_all", "simulate_vendor_quirk"}
FloorOps == {"audioMuteOn", "audioMuteOff", "holdOn", "holdOff", "lockOn", "lockOff"}

ASSUME AdmissionAssumption ==
    /\ InitTrust \in Trust
    /\ InitMode \in Modes
    /\ InitDelay \in Delay
    /\ MaxChanges \in Nat
    /\ InitAllowed \subseteq Host
    /\ Enabled \subseteq Host /\ Disabled \subseteq Host /\ Enabled \cap Disabled = {}
    /\ InjectOps \subseteq FloorOps
    /\ UndefinedOp \notin FloorOps

VARIABLES
    pack,               \* s.pack: registration_mode and artificial_response_delay_ms
    RegistrationState,
    AllowedHostIDs,     \* as a set: add appends, remove drops every copy
    LastError,          \* "" or the error and the host it was about
    floor,              \* AudioState, HoldState, LockState, MachineState
    cfgTrust,           \* cfg.Security.TrustMode, used by outbound requests
    TrustMode,          \* state.TrustMode, shown by the control plane
    setter,             \* security/mode requests between their two writes
    wire                \* wire requests: decided, then answered

vars == <<pack, RegistrationState, AllowedHostIDs, LastError, floor, cfgTrust, TrustMode,
          setter, wire>>

-----------------------------------------------------------------------------
NoError == [what |-> "", host |-> ""]
NoSetter == [pc |-> "none", trust |-> InitTrust]
NoWire == [pc |-> "none", host |-> "", status |-> 0, body |-> NoError]

(* A wire request with its status chosen and its answer still to write.    *)
Decided(h, status) ==
    [pc |-> "decided", host |-> h, status |-> status, body |-> NoError]

mode == pack.mode

RegistrationOf(m) == IF m = "open" THEN "open" ELSE "restricted"

Init ==
    /\ pack = [mode |-> InitMode, delay |-> InitDelay]
    /\ RegistrationState = RegistrationOf(InitMode)
    /\ AllowedHostIDs = InitAllowed
    /\ LastError = NoError
    /\ floor = [audio |-> "normal", hold |-> "inactive", lock |-> "inactive",
                machine |-> "available"]
    /\ cfgTrust = InitTrust
    /\ TrustMode = InitTrust
    /\ setter = [s \in Setter |-> NoSetter]
    /\ wire = [c \in Conn |-> NoWire]

(* Mutant of SetState: ending the hold leaves the machine state behind.    *)
SetStateKeepsHeld(op) ==
    CASE op = "audioMuteOn"  -> [floor EXCEPT !.audio = "muted", !.machine = "available"]
      [] op = "audioMuteOff" -> [floor EXCEPT !.audio = "normal"]
      [] op = "holdOn"       -> [floor EXCEPT !.hold = "active", !.machine = "held"]
      [] op = "holdOff"      -> [floor EXCEPT !.hold = "inactive"]
      [] op = "lockOn"       -> [floor EXCEPT !.lock = "active", !.machine = "locked"]
      [] op = "lockOff"      -> [floor EXCEPT !.lock = "inactive", !.machine = "available"]

(* set_state of the shipped pack, applied by applyStateUpdatesLocked.      *)
SetState(op) ==
    CASE op = "audioMuteOn"  -> [floor EXCEPT !.audio = "muted", !.machine = "available"]
      [] op = "audioMuteOff" -> [floor EXCEPT !.audio = "normal"]
      [] op = "holdOn"       -> [floor EXCEPT !.hold = "active", !.machine = "held"]
      [] op = "holdOff"      -> [floor EXCEPT !.hold = "inactive", !.machine = "available"]
      [] op = "lockOn"       -> [floor EXCEPT !.lock = "active", !.machine = "locked"]
      [] op = "lockOff"      -> [floor EXCEPT !.lock = "inactive", !.machine = "available"]

(* Mutant of hostAllowed: an unregistered host passes.                     *)
hostAllowedUnlessDisabled(h) ==
    \/ mode = "open"
    \/ RegistrationState = "open"
    \/ IF Enabled \cup Disabled # {} THEN h \notin Disabled ELSE h \in AllowedHostIDs

hostAllowed(h) ==
    \/ mode = "open"
    \/ RegistrationState = "open"
    \/ IF Enabled \cup Disabled # {} THEN h \in Enabled ELSE h \in AllowedHostIDs

-----------------------------------------------------------------------------
(* handleWire, the locked part: refuse the host, refuse the operation, or  *)
(* handle it.                                                              *)
WireRefuses(c, h, op) ==
    LET err == [what |-> IF hostAllowed(h) THEN "undefined" ELSE "refused", host |-> h]
    IN  /\ wire[c].pc # "decided"
        /\ ~hostAllowed(h) \/ op = UndefinedOp
        /\ LastError' = err
        /\ wire' = [wire EXCEPT ![c] = Decided(h, IF hostAllowed(h) THEN 400 ELSE 403)]
        /\ UNCHANGED <<pack, RegistrationState, AllowedHostIDs, floor, cfgTrust, TrustMode, setter>>

WireHandles(c, h, op) ==
    /\ wire[c].pc # "decided"
    /\ hostAllowed(h)
    /\ op # UndefinedOp
    /\ LastError' = NoError
    /\ floor' = SetState(op)
    /\ wire' = [wire EXCEPT ![c] = Decided(h, 200)]
    /\ UNCHANGED <<pack, RegistrationState, AllowedHostIDs, cfgTrust, TrustMode, setter>>

(* After the unlock: an error body is whatever LastError holds by now.     *)
WireAnswers(c) ==
    /\ wire[c].pc = "decided"
    /\ wire' = [wire EXCEPT ![c] =
                  [pc |-> "answered", host |-> @.host, status |-> @.status,
                   body |-> IF @.status = 200 THEN NoError ELSE LastError]]
    /\ UNCHANGED <<pack, RegistrationState, AllowedHostIDs, LastError, floor, cfgTrust,
                   TrustMode, setter>>

-----------------------------------------------------------------------------
(* The control plane.                                                      *)
handleControlInjectLogicalCommand(op) ==
    /\ LastError' = NoError
    /\ floor' = SetState(op)
    /\ UNCHANGED <<pack, RegistrationState, AllowedHostIDs, cfgTrust, TrustMode, setter, wire>>

handleControlAudio(muted) ==
    /\ floor' = [floor EXCEPT !.audio = IF muted THEN "muted" ELSE "normal"]
    /\ UNCHANGED <<pack, RegistrationState, AllowedHostIDs, LastError, cfgTrust, TrustMode,
                   setter, wire>>

(* A change has an op, a path and a value; one that is malformed (no value, *)
(* a path without "/") has an op outside OverlayOps.                       *)
OverlayOps == {"set", "merge", "remove", "append"}

Overlay == [target: {"this pack", "another pack"},
            changes: UNION {[1..n -> Change] : n \in 0..MaxChanges}]

ValidateOverlay(o) ==
    /\ o.changes # <<>>
    /\ \A k \in DOMAIN o.changes : o.changes[k].op \in OverlayOps

(* The last "set" of a path counts; other ops and paths do nothing.        *)
Merged(old, path, changes) ==
    LET sets == {k \in DOMAIN changes : changes[k].op = "set" /\ changes[k].path = path}
    IN  IF sets = {} THEN old
        ELSE changes[CHOOSE k \in sets : \A j \in sets : j <= k].value

MergedPack(changes) ==
    [mode |-> Merged(pack.mode, "/state_defaults/registration_mode", changes),
     delay |-> Merged(pack.delay, "/timers/artificial_response_delay_ms", changes)]

(* Mutant of ParsePack: the merged pack is decoded but not validated.      *)
ParsePackUnchecked(p) == p.delay \in Delay

(* The merged pack decodes and is valid: the rest of it does not change.   *)
ParsePack(p) == p.mode \in Modes /\ p.delay \in Delay

ValidatePack(p) == p.mode \in Modes

ApplyOverlay(o) ==
    /\ ValidatePack(pack) /\ ValidateOverlay(o)
    /\ o.target = "this pack"
    /\ ParsePack(MergedPack(o.changes))

(* An overlay that ApplyOverlay refuses changes nothing.                   *)
handleControlOverlay(o) ==
    /\ ApplyOverlay(o)
    /\ pack' = MergedPack(o.changes)
    /\ RegistrationState' = RegistrationOf(pack'.mode)
    /\ UNCHANGED <<AllowedHostIDs, LastError, floor, cfgTrust, TrustMode, setter, wire>>

handleControlHostsAdd(h) ==
    /\ AllowedHostIDs' = AllowedHostIDs \cup {h}
    /\ UNCHANGED <<pack, RegistrationState, LastError, floor, cfgTrust, TrustMode, setter, wire>>

handleControlHostsRemove(h) ==
    /\ AllowedHostIDs' = AllowedHostIDs \ {h}
    /\ UNCHANGED <<pack, RegistrationState, LastError, floor, cfgTrust, TrustMode, setter, wire>>

(* handleControlSecurityMode: the configuration without the lock, then the *)
(* state under it.                                                         *)
SecurityModeConfig(s, t) ==
    /\ setter[s].pc = "none"
    /\ cfgTrust' = t
    /\ setter' = [setter EXCEPT ![s] = [pc |-> "state", trust |-> t]]
    /\ UNCHANGED <<pack, RegistrationState, AllowedHostIDs, LastError, floor, TrustMode, wire>>

SecurityModeState(s) ==
    /\ setter[s].pc = "state"
    /\ TrustMode' = setter[s].trust
    /\ setter' = [setter EXCEPT ![s] = NoSetter]
    /\ UNCHANGED <<pack, RegistrationState, AllowedHostIDs, LastError, floor, cfgTrust, wire>>

Next ==
    \/ \E c \in Conn, h \in Host, op \in FloorOps \cup {UndefinedOp} :
          WireRefuses(c, h, op) \/ WireHandles(c, h, op)
    \/ \E c \in Conn : WireAnswers(c)
    \/ \E op \in InjectOps : handleControlInjectLogicalCommand(op)
    \/ \E muted \in BOOLEAN : handleControlAudio(muted)
    \/ \E o \in Overlay : handleControlOverlay(o)
    \/ \E h \in Host : handleControlHostsAdd(h) \/ handleControlHostsRemove(h)
    \/ \E s \in Setter, t \in Trust : SecurityModeConfig(s, t)
    \/ \E s \in Setter : SecurityModeState(s)

Spec == Init /\ [][Next]_vars

-----------------------------------------------------------------------------
ErrorText == [what: {"", "refused", "undefined"}, host: Host \cup {""}]

FloorState == [audio: {"normal", "muted"}, hold: {"inactive", "active"},
               lock: {"inactive", "active"}, machine: {"available", "held", "locked"}]

WireState == [pc: {"none", "decided", "answered"}, host: Host \cup {""},
              status: {0, 200, 400, 403}, body: ErrorText]

(* Every variable has its type.                                            *)
TypeOK ==
    /\ pack \in [mode: Modes, delay: Delay]
    /\ RegistrationState \in {"open", "restricted"}
    /\ AllowedHostIDs \subseteq Host
    /\ LastError \in ErrorText
    /\ floor \in FloorState
    /\ cfgTrust \in Trust
    /\ TrustMode \in Trust
    /\ setter \in [Setter -> [pc: {"none", "state"}, trust: Trust]]
    /\ wire \in [Conn -> WireState]

(* The registration state shown and consulted follows the mode of the pack *)
(* through every overlay: no overlay leaves the EGM open to hosts that the *)
(* mode in force refuses.                                                  *)
RegistrationFollowsMode == RegistrationState = "open" <=> mode = "open"

(* No sequence of overlays leaves a pack in force that takes no overlay    *)
(* any more: in every state the operator can set every registration mode.  *)
OverlaysStayPossible ==
    \A m \in Modes :
        ApplyOverlay([target |-> "this pack",
                      changes |-> <<[op |-> "set", path |-> "/state_defaults/registration_mode",
                                     value |-> m]>>])

(* A machine shown as held is on hold and one shown as locked is locked,   *)
(* whatever order hold, lock and audio commands come in.                   *)
MachineMatchesFlags ==
    /\ floor.machine = "held" => floor.hold = "active"
    /\ floor.machine = "locked" => floor.lock = "active"

(* A host that is neither enabled nor allowed changes the floor state only *)
(* while the registration mode is open.                                    *)
RefusedHostChangesNothing ==
    [][\A c \in Conn :
         wire'[c] # wire[c] /\ wire'[c].pc = "decided" /\ mode # "open"
           /\ wire'[c].host \notin Enabled \cup AllowedHostIDs
         => floor' = floor /\ wire'[c].status = 403]_vars
=============================================================================
