--------------------------- MODULE AdmissionProofs ---------------------------
(***************************************************************************)
(* What TLAPS proves about admission, for any hosts, registered or not,    *)
(* any number of concurrent requests and every initial registration mode.  *)
(***************************************************************************)
EXTENDS Admission, TLAPS

(* Every overlay moves the registration state together with the mode of    *)
(* the pack, and nothing else moves either.                                *)
THEOREM RegistrationFollows == Spec => []RegistrationFollowsMode
  <1>1. Init => RegistrationFollowsMode
    BY DEF Init, mode, RegistrationOf, RegistrationFollowsMode
  <1>2. RegistrationFollowsMode /\ [Next]_vars => RegistrationFollowsMode'
    <2> SUFFICES ASSUME RegistrationFollowsMode, [Next]_vars
                 PROVE  RegistrationFollowsMode'
      OBVIOUS
    <2>1. ASSUME NEW o \in Overlay, handleControlOverlay(o)
          PROVE  RegistrationFollowsMode'
      BY <2>1 DEF handleControlOverlay, mode, RegistrationOf, RegistrationFollowsMode
    <2>2. CASE UNCHANGED <<pack, RegistrationState>>
      BY <2>2 DEF mode, RegistrationFollowsMode
    <2> QED
      BY <2>1, <2>2
         DEF Next, WireRefuses, WireHandles, WireAnswers, handleControlInjectLogicalCommand,
             handleControlAudio, handleControlHostsAdd, handleControlHostsRemove,
             SecurityModeConfig, SecurityModeState, vars
  <1> QED
    BY <1>1, <1>2, PTL DEF Spec

-----------------------------------------------------------------------------
(* The floor state with its type: the part of TypeOK this proof needs.     *)
FloorInv == floor \in FloorState /\ MachineMatchesFlags

(* Each set_state of the pack keeps the machine state backed by its flag.  *)
LEMMA SetStateKeepsFlags ==
    ASSUME FloorInv, NEW op \in FloorOps, floor' = SetState(op)
    PROVE  FloorInv'
  <1>1. CASE op = "audioMuteOn"
    BY <1>1 DEF FloorInv, SetState, FloorState, MachineMatchesFlags
  <1>2. CASE op = "audioMuteOff"
    BY <1>2 DEF FloorInv, SetState, FloorState, MachineMatchesFlags
  <1>3. CASE op = "holdOn"
    BY <1>3 DEF FloorInv, SetState, FloorState, MachineMatchesFlags
  <1>4. CASE op = "holdOff"
    BY <1>4 DEF FloorInv, SetState, FloorState, MachineMatchesFlags
  <1>5. CASE op = "lockOn"
    BY <1>5 DEF FloorInv, SetState, FloorState, MachineMatchesFlags
  <1>6. CASE op = "lockOff"
    BY <1>6 DEF FloorInv, SetState, FloorState, MachineMatchesFlags
  <1> QED
    BY <1>1, <1>2, <1>3, <1>4, <1>5, <1>6 DEF FloorOps

(* The invariant FloorInv holds in every behaviour.                        *)
LEMMA FloorTyped == Spec => []FloorInv
  <1>1. Init => FloorInv
    BY DEF Init, FloorInv, FloorState, MachineMatchesFlags
  <1>2. FloorInv /\ [Next]_vars => FloorInv'
    <2> SUFFICES ASSUME FloorInv, [Next]_vars PROVE FloorInv'
      OBVIOUS
    <2>1. ASSUME NEW c \in Conn, NEW h \in Host, NEW op \in FloorOps \cup {UndefinedOp},
                 WireHandles(c, h, op)
          PROVE  FloorInv'
      BY <2>1, SetStateKeepsFlags DEF WireHandles
    <2>2. ASSUME NEW op \in InjectOps, handleControlInjectLogicalCommand(op)
          PROVE  FloorInv'
      BY <2>2, SetStateKeepsFlags, AdmissionAssumption
         DEF handleControlInjectLogicalCommand, AdmissionAssumption
    <2>3. ASSUME NEW muted \in BOOLEAN, handleControlAudio(muted)
          PROVE  FloorInv'
      BY <2>3 DEF handleControlAudio, FloorInv, FloorState, MachineMatchesFlags
    <2>4. CASE UNCHANGED floor
      BY <2>4 DEF FloorInv, MachineMatchesFlags
    <2> QED
      BY <2>1, <2>2, <2>3, <2>4
         DEF Next, WireRefuses, WireAnswers, handleControlOverlay, handleControlHostsAdd,
             handleControlHostsRemove, SecurityModeConfig, SecurityModeState, vars
  <1> QED
    BY <1>1, <1>2, PTL DEF Spec

(* In whatever order hosts and operators send hold, lock and audio         *)
(* commands, a machine shown as held is on hold and one shown as locked is *)
(* locked.                                                                 *)
THEOREM MachineMatches == Spec => []MachineMatchesFlags
  <1>1. FloorInv => MachineMatchesFlags
    BY DEF FloorInv
  <1> QED
    BY <1>1, FloorTyped, PTL

-----------------------------------------------------------------------------
(* The wire requests keep their type, whatever else goes on.               *)
WireInv == LastError \in ErrorText /\ wire \in [Conn -> WireState]

(* The invariant WireInv holds in every behaviour.                         *)
LEMMA WireTyped == Spec => []WireInv
  <1>0. NoError \in ErrorText /\ NoWire \in WireState
    BY DEF NoError, NoWire, ErrorText, WireState
  <1>d. \A h \in Host, status \in {200, 400, 403} : Decided(h, status) \in WireState
    <2>1. NoError \in ErrorText
      BY <1>0
    <2>2. ASSUME NEW h \in Host, NEW status \in {200, 400, 403}
          PROVE  Decided(h, status) \in WireState
      BY <2>1, <2>2, Zenon DEF Decided, WireState
    <2> QED
      BY <2>2
  <1>1. Init => WireInv
    BY <1>0 DEF Init, WireInv
  <1>2. WireInv /\ [Next]_vars => WireInv'
    <2> SUFFICES ASSUME WireInv, [Next]_vars PROVE WireInv'
      OBVIOUS
    <2>1. ASSUME NEW c \in Conn, NEW h \in Host, NEW op \in FloorOps \cup {UndefinedOp},
                 WireRefuses(c, h, op)
          PROVE  WireInv'
      <3>1. LastError' \in ErrorText
        BY <2>1 DEF WireRefuses, ErrorText
      <3>2. \E status \in {200, 400, 403} : wire' = [wire EXCEPT ![c] = Decided(h, status)]
        BY <2>1 DEF WireRefuses
      <3> QED
        BY <1>d, <3>1, <3>2 DEF WireInv
    <2>2. ASSUME NEW c \in Conn, NEW h \in Host, NEW op \in FloorOps \cup {UndefinedOp},
                 WireHandles(c, h, op)
          PROVE  WireInv'
      BY <1>0, <1>d, <2>2 DEF WireHandles, WireInv
    <2>3. ASSUME NEW c \in Conn, WireAnswers(c)
          PROVE  WireInv'
      <3>1. wire[c] \in WireState
        BY DEF WireInv
      <3>2. PICK body \in ErrorText :
               wire' = [wire EXCEPT ![c] = [pc |-> "answered", host |-> wire[c].host,
                                            status |-> wire[c].status, body |-> body]]
        BY <1>0, <2>3 DEF WireAnswers, WireInv
      <3>3. [pc |-> "answered", host |-> wire[c].host, status |-> wire[c].status,
             body |-> body] \in WireState
        BY <3>1 DEF WireState
      <3> QED
        BY <2>3, <3>2, <3>3 DEF WireAnswers, WireInv
    <2>4. ASSUME NEW op \in InjectOps, handleControlInjectLogicalCommand(op)
          PROVE  WireInv'
      BY <1>0, <2>4 DEF handleControlInjectLogicalCommand, WireInv
    <2>5. CASE UNCHANGED <<LastError, wire>>
      BY <2>5 DEF WireInv
    <2> QED
      BY <2>1, <2>2, <2>3, <2>4, <2>5
         DEF Next, handleControlAudio, handleControlOverlay, handleControlHostsAdd,
             handleControlHostsRemove, SecurityModeConfig, SecurityModeState, vars
  <1> QED
    BY <1>1, <1>2, PTL DEF Spec

(* A host that is neither enabled nor allowed gets 403 and changes nothing *)
(* on the floor while the registration mode is not open.                   *)
THEOREM RefusedChangesNothing == Spec => RefusedHostChangesNothing
  <1> DEFINE A == \A c \in Conn :
                     wire'[c] # wire[c] /\ wire'[c].pc = "decided" /\ mode # "open"
                       /\ wire'[c].host \notin Enabled \cup AllowedHostIDs
                     => floor' = floor /\ wire'[c].status = 403
  <1>1. RegistrationFollowsMode /\ WireInv /\ [Next]_vars => A
    <2> SUFFICES ASSUME RegistrationFollowsMode, WireInv, [Next]_vars, NEW c \in Conn,
                        wire'[c] # wire[c], wire'[c].pc = "decided", mode # "open",
                        wire'[c].host \notin Enabled \cup AllowedHostIDs
                 PROVE  floor' = floor /\ wire'[c].status = 403
      OBVIOUS
    <2>1. ASSUME NEW h, h \notin Enabled \cup AllowedHostIDs
          PROVE  ~hostAllowed(h)
      BY <2>1 DEF hostAllowed, RegistrationFollowsMode
    <2>2. ASSUME NEW d \in Conn, NEW h \in Host, NEW op \in FloorOps \cup {UndefinedOp},
                 WireRefuses(d, h, op)
          PROVE  floor' = floor /\ wire'[c].status = 403
      <3>1. /\ wire' = [wire EXCEPT ![d] = Decided(h, IF hostAllowed(h) THEN 400 ELSE 403)]
            /\ floor' = floor
        BY <2>2 DEF WireRefuses
      <3>2. c = d
        BY <3>1 DEF WireInv
      <3>3. wire'[c] = Decided(h, IF hostAllowed(h) THEN 400 ELSE 403)
        BY <3>1, <3>2 DEF WireInv
      <3>4. wire'[c].host = h
        BY <3>3 DEF Decided
      <3>5. wire'[c] = Decided(h, 403)
        BY <2>1, <3>3, <3>4
      <3> QED
        BY <3>1, <3>5 DEF Decided
    <2>3. ASSUME NEW d \in Conn, NEW h \in Host, NEW op \in FloorOps \cup {UndefinedOp},
                 WireHandles(d, h, op)
          PROVE  FALSE
      <3>1. hostAllowed(h) /\ wire' = [wire EXCEPT ![d] = Decided(h, 200)]
        BY <2>3 DEF WireHandles
      <3>2. wire'[c] = Decided(h, 200)
        BY <3>1 DEF WireInv
      <3>3. wire'[c].host = h
        BY <3>2 DEF Decided
      <3> QED
        BY <2>1, <3>1, <3>3
    <2>4. ASSUME NEW d \in Conn, WireAnswers(d)
          PROVE  FALSE
      <3>1. c = d
        BY <2>4 DEF WireAnswers, WireInv
      <3>2. wire'[c].pc = "answered"
        BY <2>4, <3>1 DEF WireAnswers, WireInv
      <3> QED
        BY <3>2
    <2> QED
      BY <2>2, <2>3, <2>4
         DEF Next, handleControlInjectLogicalCommand, handleControlAudio, handleControlOverlay,
             handleControlHostsAdd, handleControlHostsRemove, SecurityModeConfig,
             SecurityModeState, vars
  <1>2. RegistrationFollowsMode /\ WireInv /\ [Next]_vars => [A]_vars
    BY <1>1
  <1> QED
    BY <1>2, RegistrationFollows, WireTyped, PTL DEF Spec, RefusedHostChangesNothing

-----------------------------------------------------------------------------
(* The pack in force stays one that ValidatePack accepts, and what the     *)
(* state shows stays within its type.                                      *)
StateInv ==
    /\ pack \in [mode: Modes, delay: Delay]
    /\ RegistrationState \in {"open", "restricted"}
    /\ AllowedHostIDs \subseteq Host
    /\ cfgTrust \in Trust
    /\ TrustMode \in Trust
    /\ setter \in [Setter -> [pc: {"none", "state"}, trust: Trust]]

(* The invariant StateInv holds in every behaviour.                        *)
LEMMA StateTyped == Spec => []StateInv
  <1>1. Init => StateInv
    BY AdmissionAssumption DEF AdmissionAssumption, Init, StateInv, RegistrationOf, NoSetter
  <1>2. StateInv /\ [Next]_vars => StateInv'
    <2> SUFFICES ASSUME StateInv, [Next]_vars PROVE StateInv'
      OBVIOUS
    <2>1. ASSUME NEW o \in Overlay, handleControlOverlay(o)
          PROVE  StateInv'
      <3>1. MergedPack(o.changes) \in [mode: Modes, delay: Delay]
        BY <2>1 DEF handleControlOverlay, ApplyOverlay, ParsePack, MergedPack
      <3> QED
        BY <2>1, <3>1 DEF handleControlOverlay, StateInv, RegistrationOf
    <2>2. ASSUME NEW h \in Host, handleControlHostsAdd(h) \/ handleControlHostsRemove(h)
          PROVE  StateInv'
      BY <2>2 DEF handleControlHostsAdd, handleControlHostsRemove, StateInv
    <2>3. ASSUME NEW s \in Setter, NEW t \in Trust, SecurityModeConfig(s, t)
          PROVE  StateInv'
      BY <2>3 DEF SecurityModeConfig, StateInv
    <2>4. ASSUME NEW s \in Setter, SecurityModeState(s)
          PROVE  StateInv'
      BY <2>4, AdmissionAssumption
         DEF AdmissionAssumption, SecurityModeState, StateInv, NoSetter
    <2>5. CASE UNCHANGED <<pack, RegistrationState, AllowedHostIDs, cfgTrust, TrustMode, setter>>
      BY <2>5 DEF StateInv
    <2> QED
      BY <2>1, <2>2, <2>3, <2>4, <2>5
         DEF Next, WireRefuses, WireHandles, WireAnswers, handleControlInjectLogicalCommand,
             handleControlAudio, vars
  <1> QED
    BY <1>1, <1>2, PTL DEF Spec

(* The state of the EGM keeps its type, for any hosts and requests.        *)
THEOREM TypeCorrect == Spec => []TypeOK
  <1>1. StateInv /\ FloorInv /\ WireInv => TypeOK
    BY DEF StateInv, FloorInv, WireInv, TypeOK
  <1> QED
    BY <1>1, StateTyped, FloorTyped, WireTyped, PTL

(* Whatever overlays were accepted, of any length, every registration mode *)
(* can still be set by another one.                                        *)
THEOREM OverlaysPossible == Spec => []OverlaysStayPossible
  <1>1. StateInv => OverlaysStayPossible
    <2> SUFFICES ASSUME StateInv, NEW m \in Modes
                 PROVE  ApplyOverlay([target |-> "this pack",
                          changes |-> <<[op |-> "set",
                                         path |-> "/state_defaults/registration_mode",
                                         value |-> m]>>])
      BY DEF OverlaysStayPossible
    <2> DEFINE change == [op |-> "set", path |-> "/state_defaults/registration_mode", value |-> m]
               o == [target |-> "this pack", changes |-> <<change>>]
               mp == "/state_defaults/registration_mode"
               dp == "/timers/artificial_response_delay_ms"
               sets(path) == {k \in DOMAIN <<change>> : /\ <<change>>[k].op = "set"
                                                        /\ <<change>>[k].path = path}
    <2>1. ValidateOverlay(o)
      BY DEF ValidateOverlay, OverlayOps
    <2>2. DOMAIN <<change>> = {1} /\ <<change>>[1] = change
      OBVIOUS
    <2>3. sets(mp) = {1} /\ sets(dp) = {}
      BY <2>2
    <2>4. (CHOOSE k \in sets(mp) : \A j \in sets(mp) : j <= k) = 1
      BY <2>3
    <2>5. Merged(pack.mode, mp, <<change>>) = m
      BY <2>2, <2>3, <2>4 DEF Merged
    <2>6. Merged(pack.delay, dp, <<change>>) = pack.delay
      BY <2>3 DEF Merged
    <2>7. ParsePack(MergedPack(o.changes))
      BY <2>5, <2>6 DEF ParsePack, MergedPack, StateInv
    <2> QED
      BY <2>1, <2>7 DEF ApplyOverlay, ValidatePack, StateInv
  <1> QED
    BY <1>1, StateTyped, PTL
=============================================================================
