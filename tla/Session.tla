------------------------------ MODULE Session ------------------------------
(***************************************************************************)
(* The session of one virtual EGM with its host (runtime/): the fields     *)
(* SessionState, HeartbeatState and ConnectionState of RuntimeState, and   *)
(* everything that writes them: the session engine goroutine, the          *)
(* goroutines of the outbound scheduler, the manual outbound requests of   *)
(* the control plane and the messages the host sends to the wire plane.    *)
(*                                                                         *)
(* A critical section of Server.mu is one step.  A request to the host is  *)
(* three: it is decided on, the host's reply (or an error) comes in, and   *)
(* the reply is applied under the lock.  The state may have moved on in    *)
(* between: nothing in the code looks again.                               *)
(***************************************************************************)
EXTENDS Naturals

CONSTANTS
    Worker,              \* runOutboundScheduler goroutines; {}: scheduler disabled
    Manual,              \* manual outbound requests served concurrently
    None,                \* nil schedulerCancel
    EngineEnabled,       \* session_engine.enabled and auto_start
    AcceptWrapped,       \* session_engine.accept_wrapped_g2s_response_ack
    AllowGeneric,        \* whether manual requests may carry allow_generic_ack
    RunHeartbeatWhenIdle,\* outbound.scheduler.run_heartbeat_when_idle
    FailureThreshold,    \* outbound.scheduler.failure_threshold
    InboundOps           \* operations the host sends to the wire plane

ASSUME SessionAssumption ==
    /\ None \notin Worker
    /\ EngineEnabled \in BOOLEAN
    /\ AcceptWrapped \in BOOLEAN
    /\ AllowGeneric \in BOOLEAN
    /\ RunHeartbeatWhenIdle \in BOOLEAN
    /\ FailureThreshold \in Nat \ {0}
    /\ InboundOps \subseteq {"commsOnLine", "keepAlive", "commsClosing", "holdOn"}

VARIABLES
    SessionState, HeartbeatState, ConnectionState,
    schedulerCancel,     \* the worker whose context s.schedulerCancel cancels
    worker,              \* scheduler goroutines
    ConsecutiveFailures, \* of the scheduler, saturated at FailureThreshold
    recentAttempt,       \* less than open_retry_interval_ms since LastAttemptAt
    engine,              \* session engine goroutine
    manual,              \* manual outbound requests
    ctxDone,             \* the server context: SIGINT or SIGTERM arrived
    hostOk               \* the host answers every request with the proper ack

stateVars == <<SessionState, HeartbeatState, ConnectionState>>
schedVars == <<schedulerCancel, worker, ConsecutiveFailures, recentAttempt>>
vars == <<stateVars, schedVars, engine, manual, ctxDone, hostOk>>

-----------------------------------------------------------------------------
SessionStates == {"idle", "online", "closed", "connect_failed", "startup_failed"}
HeartbeatStates == {"idle", "healthy", "degraded", "failed"}
ConnectionStates == {"listening", "controller_connected", "controller_simulated",
                     "host_connected", "host_unreachable"}
Op == {"commsOnLine", "keepAlive"}

(* What became of a request: the ack named for it, a bare g2sResponse, any *)
(* other answer (status, root, unparsable), no answer.                     *)
Reply == {"ack", "generic", "other", "error"}

EnginePc == {"done", "commsOnLine", "getDescriptor", "setKeepAlive", "keepAlive",
             "ticker", "sleep"}

NoWorker == [pc |-> "none", ctx |-> "live", op |-> "keepAlive", reply |-> "error"]
NoManual == [pc |-> "none", op |-> "keepAlive", generic |-> FALSE, reply |-> "error"]

(* state.OutboundScheduler.Running: assigned together with schedulerCancel *)
Running == schedulerCancel # None

(* NewServer with the shipped pack's state_defaults; Start and main then   *)
(* start the session engine when it is enabled.                            *)
Init ==
    /\ SessionState = "idle"
    /\ HeartbeatState = "idle"
    /\ ConnectionState = "listening"
    /\ schedulerCancel = None
    /\ worker = [w \in Worker |-> NoWorker]
    /\ ConsecutiveFailures = 0
    /\ recentAttempt = FALSE
    /\ engine = [pc |-> IF EngineEnabled THEN "commsOnLine" ELSE "done",
                 reply |-> "pending"]
    /\ manual = [m \in Manual |-> NoManual]
    /\ ctxDone = FALSE
    /\ hostOk \in BOOLEAN

(* A reply the host may give now; a cancelled request may always fail.     *)
MayReply(r, cancelled) == hostOk => r = "ack" \/ (cancelled /\ r = "error")

-----------------------------------------------------------------------------
(* Mutants of StartOutboundScheduler: no test whether one is running;      *)
(* a start forgets the failures of the run before.                         *)
StartSchedulerAgain ==
    /\ \E w \in Worker :
         /\ worker[w].pc = "none"
         /\ schedulerCancel' = w
         /\ worker' = [worker EXCEPT ![w] = [NoWorker EXCEPT !.pc = "tick"]]
    /\ UNCHANGED <<stateVars, ConsecutiveFailures, recentAttempt, engine, manual, ctxDone, hostOk>>

StartSchedulerAfresh ==
    /\ schedulerCancel = None
    /\ \E w \in Worker :
         /\ worker[w].pc = "none"
         /\ schedulerCancel' = w
         /\ worker' = [worker EXCEPT ![w] = [NoWorker EXCEPT !.pc = "tick"]]
    /\ ConsecutiveFailures' = 0
    /\ UNCHANGED <<stateVars, recentAttempt, engine, manual, ctxDone, hostOk>>

(* StartOutboundScheduler: autostart and POST .../scheduler/start.         *)
StartOutboundScheduler ==
    /\ schedulerCancel = None
    /\ \E w \in Worker :
         /\ worker[w].pc = "none"
         /\ schedulerCancel' = w
         /\ worker' = [worker EXCEPT ![w] = [NoWorker EXCEPT !.pc = "tick"]]
    /\ UNCHANGED <<stateVars, ConsecutiveFailures, recentAttempt, engine, manual, ctxDone, hostOk>>

(* StopOutboundScheduler: forgets the cancel function under the lock and   *)
(* calls it after the unlock.                                              *)
StopOutboundScheduler ==
    /\ Running
    /\ schedulerCancel' = None
    /\ worker' = [worker EXCEPT ![schedulerCancel].ctx = "stopping"]
    /\ UNCHANGED <<stateVars, ConsecutiveFailures, recentAttempt, engine, manual, ctxDone, hostOk>>

StopCancels(w) ==
    /\ worker[w].ctx = "stopping"
    /\ worker' = [worker EXCEPT ![w].ctx = "done"]
    /\ UNCHANGED <<stateVars, schedulerCancel, ConsecutiveFailures, recentAttempt,
                   engine, manual, ctxDone, hostOk>>

(* Mutants of TickOperation: never opens; opens with the wrong message.    *)
TickOperationHeartbeat == "keepAlive"

TickOperationDescriptor ==
    IF SessionState = "online" \/ RunHeartbeatWhenIdle THEN "keepAlive" ELSE "getDescriptor"

(* The operation a tick chooses from the session state it read.            *)
TickOperation ==
    IF SessionState = "online" \/ RunHeartbeatWhenIdle THEN "keepAlive" ELSE "commsOnLine"

(* Mutant of TickReturns: gives up for good once the threshold is reached. *)
TickReturnsTripped ==
    \/ ~Running
    \/ SessionState # "online" /\ recentAttempt
    \/ ConsecutiveFailures >= FailureThreshold

(* runOutboundSchedulerTick returns early: not running, or the session is  *)
(* not online and the last attempt is too recent.                          *)
TickReturns ==
    \/ ~Running
    \/ SessionState # "online" /\ recentAttempt

(* The locked read of a tick.  A request on a context already cancelled    *)
(* fails without reaching the host.                                        *)
SchedTick(w) ==
    /\ worker[w].pc = "tick"
    /\ worker' = [worker EXCEPT ![w] =
                    IF TickReturns THEN [@ EXCEPT !.pc = "select"]
                    ELSE IF @.ctx = "done"
                         THEN [@ EXCEPT !.pc = "result", !.op = TickOperation, !.reply = "error"]
                         ELSE [@ EXCEPT !.pc = "inflight", !.op = TickOperation]]
    /\ UNCHANGED <<stateVars, schedulerCancel, ConsecutiveFailures, recentAttempt,
                   engine, manual, ctxDone, hostOk>>

SchedReply(w, r) ==
    /\ worker[w].pc = "inflight"
    /\ MayReply(r, worker[w].ctx = "done")
    /\ worker' = [worker EXCEPT ![w].pc = "result", ![w].reply = r]
    /\ UNCHANGED <<stateVars, schedulerCancel, ConsecutiveFailures, recentAttempt,
                   engine, manual, ctxDone, hostOk>>

(* ConsecutiveFailures is only ever compared with the threshold.           *)
FailuresAfter(ok) ==
    IF ok THEN 0
    ELSE IF ConsecutiveFailures < FailureThreshold THEN ConsecutiveFailures + 1
    ELSE FailureThreshold

(* Mutant of SchedUpdate: a failed open drops the session at once.         *)
SchedUpdateDrops(w) ==
    LET op == worker[w].op
        ok == worker[w].reply = "ack"
        tripped == ~ok /\ FailuresAfter(ok) >= FailureThreshold
    IN  /\ worker[w].pc = "result"
        /\ ConsecutiveFailures' = FailuresAfter(ok)
        /\ SessionState' = IF op # "commsOnLine" THEN SessionState
                           ELSE IF ok THEN "online" ELSE "idle"
        /\ HeartbeatState' = IF ok THEN "healthy"
                             ELSE IF tripped THEN "degraded"
                             ELSE HeartbeatState
        /\ recentAttempt' = TRUE
        /\ worker' = [worker EXCEPT ![w] = [NoWorker EXCEPT !.pc = "select", !.ctx = worker[w].ctx]]
        /\ UNCHANGED <<ConnectionState, schedulerCancel, engine, manual, ctxDone, hostOk>>

(* updateSchedulerAfterResult.                                             *)
SchedUpdate(w) ==
    LET op == worker[w].op
        ok == worker[w].reply = "ack"
        tripped == ~ok /\ FailuresAfter(ok) >= FailureThreshold
    IN  /\ worker[w].pc = "result"
        /\ ConsecutiveFailures' = FailuresAfter(ok)
        /\ SessionState' = IF op = "commsOnLine" /\ ok THEN "online"
                           ELSE IF op = "commsOnLine" /\ tripped THEN "idle"
                           ELSE SessionState
        /\ HeartbeatState' = IF ok THEN "healthy"
                             ELSE IF tripped THEN "degraded"
                             ELSE HeartbeatState
        /\ recentAttempt' = TRUE
        /\ worker' = [worker EXCEPT ![w] = [NoWorker EXCEPT !.pc = "select", !.ctx = worker[w].ctx]]
        /\ UNCHANGED <<ConnectionState, schedulerCancel, engine, manual, ctxDone, hostOk>>

(* The select of runOutboundScheduler: with both channels ready, Go takes  *)
(* either.                                                                 *)
SchedTickerFires(w) ==
    /\ worker[w].pc = "select"
    /\ worker' = [worker EXCEPT ![w].pc = "tick"]
    /\ UNCHANGED <<stateVars, schedulerCancel, ConsecutiveFailures, recentAttempt,
                   engine, manual, ctxDone, hostOk>>

(* Mutant of SchedReturns: looks at the Running flag, not at its context.  *)
SchedReturnsUnlessRunning(w) ==
    /\ worker[w].pc = "select"
    /\ worker[w].ctx = "done"
    /\ ~Running
    /\ worker' = [worker EXCEPT ![w] = NoWorker]
    /\ UNCHANGED <<stateVars, schedulerCancel, ConsecutiveFailures, recentAttempt,
                   engine, manual, ctxDone, hostOk>>

SchedReturns(w) ==
    /\ worker[w].pc = "select"
    /\ worker[w].ctx = "done"
    /\ worker' = [worker EXCEPT ![w] = NoWorker]
    /\ UNCHANGED <<stateVars, schedulerCancel, ConsecutiveFailures, recentAttempt,
                   engine, manual, ctxDone, hostOk>>

(* open_retry_interval_ms elapse since the last attempt.                   *)
RetryIntervalElapses ==
    /\ recentAttempt
    /\ recentAttempt' = FALSE
    /\ UNCHANGED <<stateVars, schedulerCancel, worker, ConsecutiveFailures,
                   engine, manual, ctxDone, hostOk>>

-----------------------------------------------------------------------------
(* The session engine: one goroutine, one request at a time.               *)
(* resolveAck: with the wrapped-ack option a bare g2sResponse will do.     *)
resolveAck(r) == r = "ack" \/ (AcceptWrapped /\ r = "generic")

EngineReply(r) ==
    /\ engine.pc \in {"commsOnLine", "getDescriptor", "setKeepAlive", "keepAlive"}
    /\ engine.reply = "pending"
    /\ MayReply(r, ctxDone)
    /\ engine' = [engine EXCEPT !.reply = r]
    /\ UNCHANGED <<stateVars, schedVars, manual, ctxDone, hostOk>>

(* On to the next request or wait; a request on a cancelled context fails. *)
EngineGoto(pc) ==
    /\ engine' = [pc |-> pc, reply |-> IF ctxDone THEN "error" ELSE "pending"]
    /\ UNCHANGED <<schedVars, manual, ctxDone, hostOk>>

EngineAcked(op) ==
    /\ engine.pc = op
    /\ engine.reply # "pending"
    /\ resolveAck(engine.reply)

EngineRefused(op) ==
    /\ engine.pc = op
    /\ engine.reply # "pending"
    /\ ~resolveAck(engine.reply)

(* Mutant of EngineOnline: a host that is back is still shown unreachable.  *)
EngineOnlineUnconnected ==
    /\ EngineAcked("commsOnLine")
    /\ SessionState' = "online"
    /\ UNCHANGED ConnectionState
    /\ HeartbeatState' = "idle"
    /\ EngineGoto("getDescriptor")

EngineOnline ==
    /\ EngineAcked("commsOnLine")
    /\ SessionState' = "online"
    /\ ConnectionState' = "host_connected"
    /\ HeartbeatState' = "idle"
    /\ EngineGoto("getDescriptor")

EngineConnectFails ==
    /\ EngineRefused("commsOnLine")
    /\ SessionState' = "connect_failed"
    /\ ConnectionState' = "host_unreachable"
    /\ HeartbeatState' = "failed"
    /\ EngineGoto("done")

(* runStartupExchange: getDescriptor, then setKeepAlive, then keepAlives.  *)
EngineExchange ==
    /\ \/ EngineAcked("getDescriptor") /\ EngineGoto("setKeepAlive")
       \/ EngineAcked("setKeepAlive") /\ EngineGoto("keepAlive")
    /\ UNCHANGED stateVars

EngineStartupFails ==
    /\ EngineRefused("getDescriptor") \/ EngineRefused("setKeepAlive")
    /\ SessionState' = "startup_failed"
    /\ ConnectionState' = "host_connected"
    /\ HeartbeatState' = "failed"
    /\ EngineGoto("done")

EngineKeepAlive ==
    /\ EngineAcked("keepAlive")
    /\ HeartbeatState' = "healthy"
    /\ ConnectionState' = "host_connected"
    /\ UNCHANGED SessionState
    /\ EngineGoto("ticker")

(* recordKeepAliveFailure, then the sleep before the next commsOnLine.     *)
EngineKeepAliveFails ==
    /\ EngineRefused("keepAlive")
    /\ HeartbeatState' = "failed"
    /\ ConnectionState' = "host_unreachable"
    /\ UNCHANGED SessionState
    /\ EngineGoto("sleep")

(* The two waits of the engine: the keepAlive ticker and sleepOrDone, the  *)
(* latter followed by the loop's own look at the context.                  *)
EngineTicker ==
    /\ engine.pc = "ticker"
    /\ EngineGoto("keepAlive")
    /\ UNCHANGED stateVars

EngineWakes ==
    /\ engine.pc = "sleep"
    /\ ~ctxDone
    /\ EngineGoto("commsOnLine")
    /\ UNCHANGED stateVars

EngineStops ==
    /\ engine.pc \in {"ticker", "sleep"}
    /\ ctxDone
    /\ EngineGoto("done")
    /\ UNCHANGED stateVars

sessionEngineLoop ==
    \/ \E r \in Reply : EngineReply(r)
    \/ EngineOnline
    \/ EngineConnectFails
    \/ EngineExchange
    \/ EngineStartupFails
    \/ EngineKeepAlive
    \/ EngineKeepAliveFails
    \/ EngineTicker
    \/ EngineWakes
    \/ EngineStops

-----------------------------------------------------------------------------
(* POST .../outbound/session/open, /heartbeat and /send; the heartbeat     *)
(* endpoint always allows the generic ack, the others as the body says.    *)
ManualSend(m, op, generic) ==
    /\ manual[m].pc = "none"
    /\ generic => AllowGeneric \/ op = "keepAlive"
    /\ manual' = [manual EXCEPT ![m] = [pc |-> "inflight", op |-> op,
                                        generic |-> generic, reply |-> "error"]]
    /\ UNCHANGED <<stateVars, schedVars, engine, ctxDone, hostOk>>

ManualReply(m, r) ==
    /\ manual[m].pc = "inflight"
    /\ MayReply(r, TRUE)
    /\ manual' = [manual EXCEPT ![m].pc = "result", ![m].reply = r]
    /\ UNCHANGED <<stateVars, schedVars, engine, ctxDone, hostOk>>

(* Mutant of SendOK: any answer is good enough.                            *)
SendOKAnyRoot(reply, generic) == reply # "error"

(* result.OK of SendOutbound.                                              *)
SendOK(reply, generic) == reply = "ack" \/ (generic /\ reply = "generic")

ManualUpdate(m) ==
    LET ok == SendOK(manual[m].reply, manual[m].generic)
    IN  /\ manual[m].pc = "result"
        /\ SessionState' = IF ok /\ manual[m].op = "commsOnLine" THEN "online" ELSE SessionState
        /\ HeartbeatState' = IF ok /\ manual[m].op = "keepAlive" THEN "healthy" ELSE HeartbeatState
        /\ manual' = [manual EXCEPT ![m] = NoManual]
        /\ UNCHANGED <<ConnectionState, schedVars, engine, ctxDone, hostOk>>

-----------------------------------------------------------------------------
(* An accepted message of the host (handleWire), or the same operation     *)
(* injected by the control plane (processSimulatedInbound), which knows no *)
(* commsClosing.  Built-in effects first, then the pack's set_state.       *)
Inbound(op, conn) ==
    /\ op = "commsClosing" => conn = "controller_connected"
    /\ ConnectionState' = conn
    /\ SessionState' = CASE op = "commsOnLine" -> "online"
                         [] op = "commsClosing" -> "closed"
                         [] OTHER -> SessionState
    /\ HeartbeatState' = IF op \in {"commsOnLine", "keepAlive"} THEN "healthy" ELSE HeartbeatState
    /\ UNCHANGED <<schedVars, engine, manual, ctxDone, hostOk>>

(* SIGINT or SIGTERM; Shutdown stops the scheduler like a stop request.    *)
Interrupt ==
    /\ ~ctxDone
    /\ ctxDone' = TRUE
    /\ UNCHANGED <<stateVars, schedVars, engine, manual, hostOk>>

HostChanges ==
    /\ hostOk' = ~hostOk
    /\ UNCHANGED <<stateVars, schedVars, engine, manual, ctxDone>>

SchedStep(w) ==
    \/ SchedTick(w)
    \/ \E r \in Reply : SchedReply(w, r)
    \/ SchedUpdate(w)
    \/ SchedTickerFires(w)
    \/ SchedReturns(w)
    \/ StopCancels(w)

ManualStep(m) ==
    \/ \E r \in Reply : ManualReply(m, r)
    \/ ManualUpdate(m)

Next ==
    \/ StartOutboundScheduler
    \/ StopOutboundScheduler
    \/ \E w \in Worker : SchedStep(w)
    \/ RetryIntervalElapses
    \/ sessionEngineLoop
    \/ \E m \in Manual, op \in Op, generic \in BOOLEAN : ManualSend(m, op, generic)
    \/ \E m \in Manual : ManualStep(m)
    \/ \E op \in InboundOps, conn \in {"controller_connected", "controller_simulated"} :
          Inbound(op, conn)
    \/ Interrupt
    \/ HostChanges

Spec == Init /\ [][Next]_vars

(* Goroutines run, requests end (the client has a timeout), time passes;   *)
(* a select with both channels ready takes the cancelled one in the end.   *)
Fairness ==
    /\ \A w \in Worker : WF_vars(SchedStep(w)) /\ WF_vars(StopCancels(w)) /\ SF_vars(SchedReturns(w))
    /\ \A m \in Manual : WF_vars(ManualStep(m))
    /\ WF_vars(RetryIntervalElapses)
    /\ WF_vars(sessionEngineLoop)

FairSpec == Spec /\ Fairness

-----------------------------------------------------------------------------
WorkerState == [pc: {"none", "tick", "inflight", "result", "select"},
                ctx: {"live", "stopping", "done"}, op: Op, reply: Reply]

ManualState == [pc: {"none", "inflight", "result"}, op: Op, generic: BOOLEAN, reply: Reply]

EngineState == [pc: EnginePc, reply: Reply \cup {"pending"}]

(* Every variable has its type.                                            *)
TypeOK ==
    /\ SessionState \in SessionStates
    /\ HeartbeatState \in HeartbeatStates
    /\ ConnectionState \in ConnectionStates
    /\ schedulerCancel \in Worker \cup {None}
    /\ worker \in [Worker -> WorkerState]
    /\ ConsecutiveFailures \in 0..FailureThreshold
    /\ recentAttempt \in BOOLEAN
    /\ engine \in EngineState
    /\ manual \in [Manual -> ManualState]
    /\ ctxDone \in BOOLEAN
    /\ hostOk \in BOOLEAN

(* However starts and stops cross, a scheduler goroutine whose context is  *)
(* not cancelled yet is either the one the next stop will cancel or one    *)
(* whose cancel function a stop has taken and is about to call, and a stop *)
(* never finds the running one cancelled or gone.  (Two may be live at     *)
(* once: a start comes in between the unlock of a stop and its cancel.)    *)
Live(w) == worker[w].pc # "none" /\ worker[w].ctx # "done"

BeingStopped(w) == worker[w].ctx = "stopping"

NoSchedulerLost ==
    \A w \in Worker :
        /\ Live(w) => schedulerCancel = w \/ BeingStopped(w)
        /\ schedulerCancel = w => Live(w) /\ ~BeingStopped(w)

(* A heartbeat shown as degraded goes with a failure count that reached    *)
(* the threshold, across restarts of the scheduler, inbound messages,      *)
(* manual sends and late results of cancelled ticks.                       *)
DegradedMeansFailures ==
    HeartbeatState = "degraded" => ConsecutiveFailures = FailureThreshold

(* A host shown as unreachable is one the engine has lost and is about to  *)
(* call again, or has given up: whatever inbound messages, manual sends    *)
(* and the scheduler did meanwhile, an engine that exchanges messages with *)
(* the host does not leave it shown so.                                    *)
UnreachableMeansLost ==
    ConnectionState = "host_unreachable" => engine.pc \in {"sleep", "commsOnLine", "done"}

(* The session goes online only on an inbound commsOnLine or on the proper *)
(* commsOnLineAck of a commsOnLine sent (docs: "state shows online only    *)
(* after correct ACK").                                                    *)
OnlineNeedsAck ==
    [][SessionState # "online" /\ SessionState' = "online" =>
         \/ \E w \in Worker : /\ worker[w].pc = "result" /\ worker'[w].pc # "result"
                              /\ worker[w].op = "commsOnLine" /\ worker[w].reply = "ack"
         \/ \E m \in Manual : /\ manual[m].pc = "result" /\ manual'[m].pc # "result"
                              /\ manual[m].op = "commsOnLine" /\ manual[m].reply = "ack"
         \/ engine.pc = "commsOnLine" /\ engine.reply = "ack" /\ engine' # engine
         \/ UNCHANGED <<worker, manual, engine>>]_vars

(* The scheduler takes an online session down only after a full run of     *)
(* consecutive failures, and then the heartbeat says so too.               *)
NoEarlyDrop ==
    [][SessionState = "online" /\ SessionState' = "idle" =>
         ConsecutiveFailures' = FailureThreshold /\ HeartbeatState' = "degraded"]_vars

(* A stopped scheduler goroutine ends.                                     *)
StoppedWorkerEnds ==
    \A w \in Worker : worker[w].ctx # "live" ~> worker[w].pc = "none"

(* When the host answers properly from some time on and the scheduler is   *)
(* left running, heartbeats become healthy again and again.                *)
SchedulerHeals ==
    <>[](hostOk /\ Running) => []<>(HeartbeatState = "healthy")

(* Likewise the scheduler opens the session whenever it is not online      *)
(* (docs: "session-open on idle/offline").                                 *)
SchedulerOpens ==
    <>[](hostOk /\ Running) => []<>(SessionState = "online")
=============================================================================
