------------------------------- MODULE Server -------------------------------
(***************************************************************************)
(* The life of one `vegm` process (cmd/vegm, runtime/server.go) and what   *)
(* it records: start-up, the two HTTP servers, the outbound scheduler and  *)
(* the session engine, an orderly shutdown carried out twice at the same   *)
(* time (by main and by the goroutine Start leaves behind), and a kill at  *)
(* any point followed by a start on the same log directory.                *)
(***************************************************************************)
EXTENDS Records

CONSTANTS
    Control,        \* handlers of the control plane: bound on its requests at a time
    Wire,           \* handlers of the wire plane: bound on its requests at a time
    Worker,         \* scheduler goroutines: bound on those alive at a time
    MessageType,    \* commsOnLine, keepAlive and whatever else is sent or received
    AutoStart,      \* outbound.scheduler.auto_start
    EngineEnabled,  \* session_engine.enabled and auto_start
    MaxExchanges,   \* bound on the requests accepted and the messages sent
    MaxStarts       \* bound on the starts of the process

Handler == Control \cup Wire

ASSUME ServerAssumption ==
    /\ Control \cap Wire = {} /\ Handler \cap Worker = {}
    /\ {"engine", "nil"} \cap (Handler \cup Worker) = {}
    /\ "ack" \notin MessageType
    /\ AutoStart \in BOOLEAN
    /\ EngineEnabled \in BOOLEAN
    /\ MaxExchanges \in Nat
    /\ MaxStarts \in Nat \ {0}

VARIABLES
    pc,             \* where main and the goroutine waiting in Start are
    listener,       \* the control and the wire listener
    ctxDone,        \* SIGINT or SIGTERM arrived
    schedulerCancel, \* the goroutine s.schedulerCancel stops, or "nil"
    job,            \* where each handler and each sender is
    exchanges,      \* requests accepted and messages sent so far
    starts          \* starts of the process so far

procVars == <<pc, listener, ctxDone, schedulerCancel, job, exchanges, starts>>
vars == <<recordVars, procVars>>

-----------------------------------------------------------------------------
(* Requests of both planes, scheduler goroutines (an old one may still     *)
(* send when a new one is started) and the session engine, all at once and *)
(* with messages of the same types.                                        *)
Actor == Handler \cup Worker \cup {"engine"}

Routine == {"main", "watcher"}

Stage == {"none", "startControl", "startWire", "autoStart", "log", "waiting",
          "closeControl", "drainControl", "drainWire", "closeFile", "done", "exited"}

(* Where an actor is, in which exchange, with what message and outcome.    *)
(* pc "begun": a handler reads its client's body, a tick has read          *)
(* state.Running, the engine renders its message.                          *)
JobAt(stage, x) == [pc |-> stage, exchange |-> x, type |-> "ack", ok |-> FALSE]

NoJob == JobAt("none", 0)

schedulerOn == schedulerCancel # "nil"

Running == pc["main"] # "exited"

NoListener == [l \in {"control", "wire"} |-> "none"]
NoJobs == [a \in Actor |-> NoJob]

MainAt(stage) == [r \in Routine |-> IF r = "main" THEN stage ELSE "none"]

Init ==
    /\ RecordsInit
    /\ pc = MainAt("startControl")
    /\ listener = NoListener
    /\ ctxDone = FALSE
    /\ schedulerCancel = "nil"
    /\ job = NoJobs
    /\ exchanges = 0
    /\ starts = 1

-----------------------------------------------------------------------------
(* An event is told from all others by the line it is written to.  Its     *)
(* time stamp is taken before l.mu and need not grow with the lines.       *)
(* "run" says which start of the process wrote it: no field of the code's, *)
(* it only serves the properties.                                          *)
Event(kind, exchange) ==
    [kind |-> kind, exchange |-> exchange, line |-> Len(events) + 1, run |-> starts]

(* The outbound scheduler.  Start and stop log while they hold s.mu.  A    *)
(* start makes a new goroutine, whatever an earlier one is still doing; j  *)
(* is where the others go in the same step.                                *)
StartOutboundScheduler(j) ==
    IF schedulerOn
    THEN job' = j /\ UNCHANGED <<recordVars, schedulerCancel>>
    ELSE \E w \in Worker :
           /\ job[w].pc = "none"
           /\ schedulerCancel' = w
           /\ job' = [j EXCEPT ![w] = JobAt("idle", 0)]
           /\ Log(Event("scheduler started", 0))

(* Mutant of StopOutboundScheduler: nothing is logged.                     *)
StopOutboundSchedulerMutely ==
    schedulerCancel' = "nil" /\ UNCHANGED recordVars

StopOutboundScheduler ==
    /\ schedulerCancel' = "nil"
    /\ IF schedulerOn THEN Log(Event("scheduler stopped", 0)) ELSE UNCHANGED recordVars

-----------------------------------------------------------------------------
(* main and Server.Start.  An error of Start is log.Fatal: the process     *)
(* ends, whatever it is serving already.                                   *)
Goto(r, stage) == pc' = [pc EXCEPT ![r] = stage]

Dies ==
    /\ pc' = MainAt("exited")
    /\ listener' = NoListener
    /\ ctxDone' = FALSE
    /\ schedulerCancel' = "nil"
    /\ job' = NoJobs
    /\ UNCHANGED <<exchanges, starts>>

Listen(l, from, to) ==
    /\ pc["main"] = from
    /\ Goto("main", to)
    /\ listener' = [listener EXCEPT ![l] = "open"]
    /\ UNCHANGED <<recordVars, ctxDone, schedulerCancel, job, exchanges, starts>>

startControl == Listen("control", "startControl", "startWire")

startWire == Listen("wire", "startWire", "autoStart")

StartFails ==
    /\ pc["main"] \in {"startControl", "startWire"}
    /\ Dies
    /\ UNCHANGED recordVars

AutoStarts ==
    IF AutoStart THEN StartOutboundScheduler(job)
    ELSE UNCHANGED <<recordVars, schedulerCancel, job>>

(* The scheduler is started, then the goroutine that waits for ctx.        *)
StartWatched ==
    /\ pc["main"] = "autoStart"
    /\ pc' = [pc EXCEPT !["main"] = "log", !["watcher"] = "waiting"]
    /\ AutoStarts
    /\ UNCHANGED <<listener, ctxDone, exchanges, starts>>

(* Start's last line, and main's StartSessionEngine.                       *)
StartSessionEngine ==
    /\ pc["main"] = "log"
    /\ Goto("main", "waiting")
    /\ Log(Event("VEGM started", 0))
    /\ job' = [job EXCEPT !["engine"].pc = IF EngineEnabled THEN "idle" ELSE "none"]
    /\ UNCHANGED <<listener, ctxDone, schedulerCancel, exchanges, starts>>

Start ==
    \/ startControl
    \/ startWire
    \/ StartFails
    \/ StartWatched
    \/ StartSessionEngine

-----------------------------------------------------------------------------
(* Server.Shutdown, run by main and by the watcher side by side.           *)
ShutdownStops(r) ==
    /\ pc[r] = "waiting"
    /\ ctxDone
    /\ Goto(r, "closeControl")
    /\ StopOutboundScheduler
    /\ UNCHANGED <<listener, job>>

(* http.Server.Shutdown closes the listener and then waits for handlers.   *)
ShutdownClosesControl(r) ==
    /\ pc[r] = "closeControl"
    /\ Goto(r, "drainControl")
    /\ listener' = [listener EXCEPT !["control"] = "closed"]
    /\ UNCHANGED <<recordVars, schedulerCancel, job>>

(* Mutant of ShutdownDrainsControl: the handlers are not awaited.          *)
ShutdownAbandonsControl(r) ==
    /\ pc[r] = "drainControl"
    /\ Goto(r, "drainWire")
    /\ listener' = [listener EXCEPT !["wire"] = "closed"]
    /\ UNCHANGED <<recordVars, schedulerCancel, job>>

ShutdownDrainsControl(r) ==
    /\ pc[r] = "drainControl"
    /\ \A a \in Control : job[a].pc = "none"
    /\ Goto(r, "drainWire")
    /\ listener' = [listener EXCEPT !["wire"] = "closed"]
    /\ UNCHANGED <<recordVars, schedulerCancel, job>>

(* Mutants of ShutdownDrainsWire: the handlers are not awaited; the file   *)
(* is closed before the index; the scheduler's goroutine is awaited too.   *)
ShutdownAwaitsScheduler(r) ==
    /\ pc[r] = "drainWire"
    /\ \A a \in Wire \cup Worker : job[a].pc = "none"
    /\ Goto(r, "closeFile")
    /\ CloseIndex
    /\ UNCHANGED <<listener, schedulerCancel, job>>

ShutdownAbandonsWire(r) ==
    /\ pc[r] = "drainWire"
    /\ Goto(r, "closeFile")
    /\ CloseIndex
    /\ UNCHANGED <<listener, schedulerCancel, job>>

ShutdownClosesFileFirst(r) ==
    /\ pc[r] = "drainWire"
    /\ \A a \in Wire : job[a].pc = "none"
    /\ Goto(r, "closeFile")
    /\ CloseFile
    /\ UNCHANGED <<listener, schedulerCancel, job>>

ShutdownDrainsWire(r) ==
    /\ pc[r] = "drainWire"
    /\ \A a \in Wire : job[a].pc = "none"
    /\ Goto(r, "closeFile")
    /\ CloseIndex
    /\ UNCHANGED <<listener, schedulerCancel, job>>

ShutdownClosesFile(r) ==
    /\ pc[r] = "closeFile"
    /\ Goto(r, "done")
    /\ CloseFile
    /\ UNCHANGED <<listener, schedulerCancel, job>>

Shutdown(r) ==
    /\ \/ ShutdownStops(r)
       \/ ShutdownClosesControl(r)
       \/ ShutdownDrainsControl(r)
       \/ ShutdownDrainsWire(r)
       \/ ShutdownClosesFile(r)
    /\ UNCHANGED <<ctxDone, exchanges, starts>>

(* main returns, and takes the other shutdown with it.                     *)
MainReturns ==
    /\ pc["main"] = "done"
    /\ Dies
    /\ UNCHANGED recordVars

-----------------------------------------------------------------------------
(* Exchanges.  A manual or scheduled message is an outbound_request and an *)
(* outbound_response of its type; the engine files the answer under the    *)
(* ack's name, and as inbound; the wire plane captures both as inbound.    *)
Plane(a) == IF a \in Control THEN "control" ELSE "wire"

RequestDir(a) == IF a \in Wire THEN "inbound_request" ELSE "outbound_request"

ResponseDir(a) ==
    IF a \in Wire \cup {"engine"} THEN "inbound_response" ELSE "outbound_response"

ResponseType(a) == IF a = "engine" THEN "ack" ELSE job[a].type

(* A request is accepted, or a goroutine of the process is about to send:  *)
(* a tick asks only whether some scheduler is on.                          *)
MayBegin(a) ==
    \/ a \in Handler /\ job[a].pc = "none" /\ listener[Plane(a)] = "open"
    \/ a \in Worker /\ job[a].pc = "idle" /\ schedulerOn
    \/ a = "engine" /\ job[a].pc = "idle"

Begin(a) ==
    /\ MayBegin(a)
    /\ exchanges < MaxExchanges
    /\ exchanges' = exchanges + 1
    /\ job' = [job EXCEPT ![a] = JobAt("begun", exchanges + 1)]
    /\ UNCHANGED <<recordVars, pc, listener, ctxDone, schedulerCancel, starts>>

(* The body is there, or the message rendered: it is captured and sent,    *)
(* by a tick even if its scheduler has been stopped in the meantime.       *)
Send(a) ==
    /\ job[a].pc = "begun"
    /\ \E type \in MessageType :
         /\ job' = [job EXCEPT ![a].pc = "sent", ![a].type = type]
         /\ WritePayload(RequestDir(a), type, job[a].exchange)
    /\ UNCHANGED <<pc, listener, ctxDone, schedulerCancel, exchanges, starts>>

(* The body breaks off or is not understood; only a message of the wire    *)
(* plane that cannot be parsed is logged.                                  *)
Refuse(a) ==
    /\ a \in Handler /\ job[a].pc = "begun"
    /\ job' = [job EXCEPT ![a] = NoJob]
    /\ \/ UNCHANGED recordVars
       \/ a \in Wire /\ Log(Event("parse failed", job[a].exchange))
    /\ UNCHANGED <<pc, listener, ctxDone, schedulerCancel, exchanges, starts>>

(* Mutant of Reply: the answer is not captured.                            *)
ReplyUncaptured(a) ==
    /\ job[a].pc = "sent"
    /\ job' = [job EXCEPT ![a].pc = "replied", ![a].ok = TRUE]
    /\ UNCHANGED <<recordVars, pc, listener, ctxDone, schedulerCancel, exchanges, starts>>

(* The answer is there and captured; only the engine treats an answer that *)
(* is not the expected ack as a failure.                                   *)
Reply(a) ==
    /\ job[a].pc = "sent"
    /\ \E ok \in (IF a = "engine" THEN BOOLEAN ELSE {TRUE}) :
         job' = [job EXCEPT ![a].pc = "replied", ![a].ok = ok]
    /\ WritePayload(ResponseDir(a), ResponseType(a), job[a].exchange)
    /\ UNCHANGED <<pc, listener, ctxDone, schedulerCancel, exchanges, starts>>

(* The request failed, or the host was refused by the wire plane.          *)
NoReply(a) ==
    /\ job[a].pc = "sent"
    /\ job' = [job EXCEPT ![a].pc = "replied"]
    /\ UNCHANGED <<recordVars, pc, listener, ctxDone, schedulerCancel, exchanges, starts>>

(* Where the sender or handler may go on after its exchange: the engine    *)
(* tries again after a failed keepAlive, and ends on a failed start-up.    *)
After(a) ==
    IF a \in Handler THEN {"none"}
    ELSE IF a = "engine" /\ ~job[a].ok THEN {"idle", "none"}
    ELSE {"idle"}

Outcome(a) == Event(IF job[a].ok THEN "complete" ELSE "failed", job[a].exchange)

(* The wire plane does not log a refusal.                                  *)
ToLog(a) == job[a].pc = "replied" /\ (a \in Wire => job[a].ok)

(* The outcome is logged and, by a handler, answered.                      *)
Finish(a) ==
    /\ job[a].pc = "replied"
    /\ \E next \in After(a) : job' = [job EXCEPT ![a] = JobAt(next, 0)]
    /\ IF ToLog(a) THEN Log(Outcome(a)) ELSE UNCHANGED recordVars
    /\ UNCHANGED <<pc, listener, ctxDone, schedulerCancel, exchanges, starts>>

(* The goroutines end when their context is done; the stop's cancel() is   *)
(* taken together with its section of s.mu.                                *)
Returns(a) ==
    /\ job[a].pc = "idle"
    /\ IF a \in Worker THEN schedulerCancel # a ELSE ctxDone
    /\ job' = [job EXCEPT ![a] = NoJob]
    /\ UNCHANGED <<recordVars, pc, listener, ctxDone, schedulerCancel, exchanges, starts>>

(* Requests of the control plane that send nothing.                        *)
ControlAnswers(a) ==
    LET answered == [job EXCEPT ![a] = NoJob]
    IN  /\ a \in Control /\ job[a].pc = "begun"
        /\ \/ StartOutboundScheduler(answered)
           \/ StopOutboundScheduler /\ job' = answered
           \/ ExportBundle /\ job' = answered /\ UNCHANGED schedulerCancel
        /\ UNCHANGED <<pc, listener, ctxDone, exchanges, starts>>

-----------------------------------------------------------------------------
Interrupt ==
    /\ Running /\ ~ctxDone
    /\ ctxDone' = TRUE
    /\ UNCHANGED <<recordVars, pc, listener, schedulerCancel, job, exchanges, starts>>

(* The events that some routine is about to log.                           *)
Begun(handlers) == {a \in handlers : job[a].pc = "begun"}

At(stage) == {r \in Routine : pc[r] = stage}

SchedulerEvent == IF schedulerOn THEN "scheduler stopped" ELSE "scheduler started"

AboutToLog ==
    {Outcome(a) : a \in {x \in Actor : ToLog(x)}}
    \cup {Event("parse failed", job[a].exchange) : a \in Begun(Wire)}
    \cup {Event("VEGM started", 0) : r \in At("log")}
    \cup {Event(SchedulerEvent, 0) : a \in Begun(Control)}
    \cup {Event("scheduler started", 0) : r \in {x \in At("autoStart") : AutoStart /\ ~schedulerOn}}
    \cup {Event("scheduler stopped", 0) : r \in {x \in At("waiting") : ctxDone /\ schedulerOn}}

(* The supervisor's Process.Kill, at any point, in the middle of Log too.  *)
Killed ==
    /\ Running
    /\ \/ UNCHANGED recordVars
       \/ \E e \in AboutToLog : LogTorn(e)
    /\ Dies

(* The process is started again on the same directory.                     *)
StartAgain ==
    /\ ~Running
    /\ starts < MaxStarts
    /\ starts' = starts + 1
    /\ pc' = MainAt("startControl")
    /\ OpenRecords
    /\ UNCHANGED <<listener, ctxDone, schedulerCancel, job, exchanges>>

Act(a) == Reply(a) \/ NoReply(a) \/ Finish(a)

Next ==
    \/ Start
    \/ \E r \in Routine : Shutdown(r)
    \/ MainReturns
    \/ \E a \in Actor : Begin(a) \/ Send(a) \/ Act(a)
    \/ \E a \in Handler : Refuse(a) \/ ControlAnswers(a)
    \/ \E a \in Worker \cup {"engine"} : Returns(a)
    \/ Interrupt \/ Killed
    \/ StartAgain

Spec == Init /\ [][Next]_vars

(* Goroutines run, and an exchange with the host ends, since every         *)
(* outbound client has a timeout.  Nothing makes a handler leave "begun":  *)
(* the two http.Servers have no ReadTimeout, so a client may keep its      *)
(* handler waiting for the rest of a body for ever.                        *)
Fairness ==
    /\ WF_vars(Start) /\ WF_vars(MainReturns)
    /\ \A r \in Routine : WF_vars(Shutdown(r))
    /\ \A a \in Actor : WF_vars(Act(a))

FairSpec == Spec /\ Fairness

-----------------------------------------------------------------------------
EventKind == {"scheduler started", "scheduler stopped", "VEGM started", "parse failed",
              "complete", "failed"}

Events == [kind: EventKind, exchange: 0..MaxExchanges, line: Nat, run: 1..MaxStarts]

Payloads == [dir: {"inbound_request", "inbound_response", "outbound_request", "outbound_response"},
             type: MessageType \cup {"ack"}, exchange: 1..MaxExchanges]

Jobs == [pc: {"none", "idle", "begun", "sent", "replied"}, exchange: 0..MaxExchanges,
         type: MessageType \cup {"ack"}, ok: BOOLEAN]

(* Every variable has its type.                                            *)
TypeOK ==
    /\ events \in Seq(Events)
    /\ index \in Seq(Events)
    /\ payloads \in Seq(Payloads)
    /\ fileOpen \in BOOLEAN
    /\ indexOpen \in BOOLEAN
    /\ bundle \in Nat \X Nat
    /\ pc \in [Routine -> Stage]
    /\ listener \in [{"control", "wire"} -> {"none", "open", "closed"}]
    /\ ctxDone \in BOOLEAN
    /\ schedulerCancel \in Worker \cup {"nil"}
    /\ job \in [Actor -> Jobs]
    /\ exchanges \in 0..MaxExchanges
    /\ starts \in 1..MaxStarts

(* An exchange that a handler answers is in the event log: neither of the  *)
(* two concurrent shutdowns closes the log under a request being served.   *)
AnsweredIsLogged ==
    [][\A a \in Handler :
         job[a].pc = "replied" /\ job[a].ok /\ job'[a].pc = "none" /\ Running' =>
           \E k \in DOMAIN events' : events'[k] = Outcome(a)]_vars

(* A row of the index always has its line in the log, in the same order:   *)
(* a kill in the middle of Log and either shutdown cost rows, never lines. *)
IndexWithinLog ==
    /\ \A k \in DOMAIN index : \E l \in DOMAIN events : index[k] = events[l]
    /\ \A j, k \in DOMAIN index : j < k => index[j].line < index[k].line

(* While the log is open, what the running process has written to it tells *)
(* whether its scheduler is on: a start of the scheduler that no stop of   *)
(* this process follows.  Requests and both shutdowns start and stop it in *)
(* the order of the log.  Of a killed process the last line may be a start *)
(* for ever, so the lines of earlier processes are left out.               *)
Logged(kind) == {k \in DOMAIN events : events[k].kind = kind /\ events[k].run = starts}

StartStands ==
    \E k \in Logged("scheduler started") : \A l \in Logged("scheduler stopped") : l < k

LogTellsScheduler ==
    fileOpen /\ Running => (schedulerOn <=> StartStands)

(* Once either shutdown has drained the control plane, no scheduler comes  *)
(* up any more.                                                            *)
Drained == \E r \in Routine : pc[r] \in {"drainWire", "closeFile", "done"}

NoLateScheduler == [][Drained => schedulerCancel' \in {schedulerCancel, "nil"}]_vars

(* The response is later than the request, and of an exchange of the same  *)
(* type that had been sent by then.                                        *)
OpenWhenSent(request, response) ==
    /\ request < response
    /\ \E r \in 1..request :
         /\ payloads[r].dir = "outbound_request"
         /\ payloads[r].exchange = payloads[response].exchange
         /\ payloads[r].type = payloads[request].type

(* An outbound_response that the latest evidence shows without a warning   *)
(* (pairedLatestResponse, annotatePairingAge) is that of the request shown *)
(* or of an earlier one of its type that was still open when the request   *)
(* was sent.  Manual requests and schedulers send the same types and       *)
(* overlap, so it need not be the request's own.  Nothing is said of an    *)
(* inbound_response, which stands in for want of an outbound one.          *)
EvidenceStillOpen ==
    LET request == latestPayload("outbound_request")
        response == pairedLatestResponse(request)
        shown == request # 0 /\ response # 0 /\ ~Warned(request, response)
    IN  shown /\ payloads[response].dir = "outbound_response" => OpenWhenSent(request, response)

(* A bundle lists the captured request and response of every exchange that *)
(* its events call complete.                                               *)
ExportComplete ==
    \A k \in 1..bundle[1] : events[k].kind = "complete" =>
        Cardinality({p \in 1..bundle[2] : payloads[p].exchange = events[k].exchange}) = 2

(* No client keeps its handler waiting for the rest of a body for ever.    *)
ClientsFinish == \A a \in Handler : []<>(job[a].pc # "begun")

(* An interrupted process ends, unless a client keeps a handler waiting    *)
(* for its body for ever: no order of requests, of scheduler starts and of *)
(* the two Shutdowns makes either of them wait for what never comes.       *)
ProcessEnds == ClientsFinish => (ctxDone ~> ~Running)
=============================================================================
