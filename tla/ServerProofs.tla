----------------------------- MODULE ServerProofs -----------------------------
(***************************************************************************)
(* What TLAPS proves about the life of one process and its records, for    *)
(* any number of handlers, scheduler goroutines, message types, exchanges  *)
(* and starts, with or without the scheduler's automatic start and the     *)
(* session engine: the types, how far either of the two concurrent         *)
(* shutdowns has come, and what that means for the log, its index and the  *)
(* scheduler.                                                              *)
(***************************************************************************)
EXTENDS Server, TLAPS

(* An exchange that is under way has a number.                             *)
Numbered ==
    \A a \in Actor : job[a].pc \in {"begun", "sent", "replied"} => job[a].exchange # 0

(* The part of TypeOK about the records.                                   *)
RecordsTyped ==
    /\ events \in Seq(Events)
    /\ index \in Seq(Events)
    /\ payloads \in Seq(Payloads)
    /\ fileOpen \in BOOLEAN
    /\ indexOpen \in BOOLEAN
    /\ bundle \in Nat \X Nat

(* The part of TypeOK about the process.                                   *)
ProcTyped ==
    /\ pc \in [Routine -> Stage]
    /\ listener \in [{"control", "wire"} -> {"none", "open", "closed"}]
    /\ ctxDone \in BOOLEAN
    /\ schedulerCancel \in Worker \cup {"nil"}
    /\ job \in [Actor -> Jobs]
    /\ exchanges \in 0..MaxExchanges
    /\ starts \in 1..MaxStarts

(* Logging an event of the right kind keeps the records' types.            *)
LEMMA LogTyped ==
    ASSUME RecordsTyped, ProcTyped, NEW kind \in EventKind, NEW x \in 0..MaxExchanges,
           Log(Event(kind, x)) \/ LogTorn(Event(kind, x))
    PROVE  RecordsTyped'
  <1>1. Event(kind, x) \in Events
    BY DEF Event, Events, RecordsTyped, ProcTyped
  <1>2. Append(events, Event(kind, x)) \in Seq(Events) /\ Append(index, Event(kind, x)) \in Seq(Events)
    BY <1>1 DEF RecordsTyped
  <1> QED
    BY <1>2 DEF Log, LogTorn, RecordsTyped

(* What any step does to the records: it logs one event whole or in half,  *)
(* captures a payload, exports, closes, opens, or leaves them alone.       *)
LEMMA RecordSteps ==
    ASSUME ProcTyped, Numbered, [Next]_vars
    PROVE  \/ \E kind \in EventKind, x \in 0..MaxExchanges :
                 Log(Event(kind, x)) \/ LogTorn(Event(kind, x))
           \/ \E a \in Actor :
                 \/ /\ job[a].pc = "begun"
                    /\ \E type \in MessageType : WritePayload(RequestDir(a), type, job[a].exchange)
                 \/ /\ job[a].pc = "sent"
                    /\ WritePayload(ResponseDir(a), ResponseType(a), job[a].exchange)
           \/ ExportBundle \/ CloseIndex \/ CloseFile \/ OpenRecords
           \/ UNCHANGED recordVars
  <1> DEFINE Goal == \/ \E kind \in EventKind, x \in 0..MaxExchanges :
                           Log(Event(kind, x)) \/ LogTorn(Event(kind, x))
                     \/ \E a \in Actor :
                           \/ /\ job[a].pc = "begun"
                              /\ \E type \in MessageType :
                                   WritePayload(RequestDir(a), type, job[a].exchange)
                           \/ /\ job[a].pc = "sent"
                              /\ WritePayload(ResponseDir(a), ResponseType(a), job[a].exchange)
                     \/ ExportBundle \/ CloseIndex \/ CloseFile \/ OpenRecords
                     \/ UNCHANGED recordVars
  <1>a. MaxExchanges \in Nat /\ 0 \in 0..MaxExchanges
    BY ServerAssumption DEF ServerAssumption
  <1>b. ASSUME NEW j, StartOutboundScheduler(j) \/ StopOutboundScheduler PROVE Goal
    BY <1>a, <1>b DEF StartOutboundScheduler, StopOutboundScheduler, EventKind, recordVars
  <1>c. ASSUME NEW a \in Actor
        PROVE  \E kind \in EventKind, x \in 0..MaxExchanges : Outcome(a) = Event(kind, x)
    <2>1. job[a].exchange \in 0..MaxExchanges
      BY DEF ProcTyped, Jobs
    <2> QED
      BY <2>1 DEF Outcome, EventKind
  <1>1. CASE Start
    BY <1>1, <1>a, <1>b DEF Start, startControl, startWire, Listen, StartFails, StartWatched,
       AutoStarts, StartSessionEngine, EventKind, recordVars
  <1>2. ASSUME NEW r \in Routine, Shutdown(r) PROVE Goal
    BY <1>2, <1>b DEF Shutdown, ShutdownStops, ShutdownClosesControl,
       ShutdownDrainsControl, ShutdownDrainsWire, ShutdownClosesFile
  <1>3. CASE MainReturns
    BY <1>3 DEF MainReturns
  <1>4. ASSUME NEW a \in Actor, Begin(a) \/ Send(a) \/ Act(a) PROVE Goal
    <2>1. CASE Begin(a)
      BY <2>1 DEF Begin
    <2>2. CASE Send(a)
      BY <2>2 DEF Send
    <2>3. CASE Reply(a) \/ NoReply(a)
      BY <2>3 DEF Reply, NoReply
    <2>4. CASE Finish(a)
      BY <1>c, <2>4 DEF Finish
    <2> QED
      BY <1>4, <2>1, <2>2, <2>3, <2>4 DEF Act
  <1>5. ASSUME NEW a \in Worker \cup {"engine"}, Returns(a) PROVE Goal
    BY <1>5 DEF Returns, recordVars
  <1>6. ASSUME NEW a \in Handler, Refuse(a) \/ ControlAnswers(a) PROVE Goal
    <2>1. job[a].exchange \in 0..MaxExchanges
      BY DEF ProcTyped, Jobs, Actor
    <2>2. CASE Refuse(a)
      BY <2>1, <2>2 DEF Refuse, EventKind, recordVars
    <2>3. CASE ControlAnswers(a)
      BY <1>b, <2>3 DEF ControlAnswers
    <2> QED
      BY <1>6, <2>2, <2>3
  <1>7. CASE Interrupt
    BY <1>7 DEF Interrupt, recordVars
  <1>8. CASE Killed
    <2>1. ASSUME NEW e \in AboutToLog
          PROVE  \E kind \in EventKind, x \in 0..MaxExchanges : e = Event(kind, x)
      <3>1. \A a \in Actor : job[a].exchange \in 0..MaxExchanges
        BY DEF ProcTyped, Jobs
      <3>2. CASE e \in {Outcome(a) : a \in {x \in Actor : ToLog(x)}}
        BY <1>c, <3>2
      <3>3. CASE e \in {Event("parse failed", job[a].exchange) : a \in Begun(Wire)}
        BY <3>1, <3>3 DEF Begun, Actor, Handler, EventKind
      <3>4. CASE \E kind \in EventKind : e = Event(kind, 0)
        BY <1>a, <3>4
      <3> QED
        BY <3>2, <3>3, <3>4 DEF AboutToLog, SchedulerEvent, EventKind
    <2> QED
      BY <1>8, <2>1 DEF Killed
  <1>9. CASE StartAgain
    BY <1>9 DEF StartAgain
  <1>10. CASE UNCHANGED vars
    BY <1>10 DEF vars, recordVars
  <1> QED
    BY <1>1, <1>2, <1>3, <1>4, <1>5, <1>6, <1>7, <1>8, <1>9, <1>10 DEF Next

(* The records keep their types.                                           *)
LEMMA RecordsStep ==
    ASSUME RecordsTyped, ProcTyped, Numbered, [Next]_vars
    PROVE  RecordsTyped'
  <1>1. ASSUME NEW kind \in EventKind, NEW x \in 0..MaxExchanges,
               Log(Event(kind, x)) \/ LogTorn(Event(kind, x))
        PROVE  RecordsTyped'
    BY <1>1, LogTyped
  <1>a. ASSUME NEW dir \in {"inbound_request", "inbound_response", "outbound_request",
                            "outbound_response"},
               NEW type \in MessageType \cup {"ack"}, NEW x \in 1..MaxExchanges,
               WritePayload(dir, type, x)
        PROVE  RecordsTyped'
    <2>1. [dir |-> dir, type |-> type, exchange |-> x] \in Payloads
      BY DEF Payloads
    <2>2. payloads' \in Seq(Payloads)
      BY <1>a, <2>1 DEF WritePayload, RecordsTyped
    <2> QED
      BY <1>a, <2>2 DEF WritePayload, RecordsTyped
  <1>b. ASSUME NEW a \in Actor, job[a].pc \in {"begun", "sent"}
        PROVE  job[a].exchange \in 1..MaxExchanges /\ job[a].type \in MessageType \cup {"ack"}
    BY <1>b, ServerAssumption DEF ProcTyped, Jobs, Numbered, ServerAssumption
  <1>2. ASSUME NEW a \in Actor, job[a].pc = "begun", NEW type \in MessageType,
               WritePayload(RequestDir(a), type, job[a].exchange)
        PROVE  RecordsTyped'
    BY <1>2, <1>a, <1>b DEF RequestDir
  <1>3. ASSUME NEW a \in Actor, job[a].pc = "sent",
               WritePayload(ResponseDir(a), ResponseType(a), job[a].exchange)
        PROVE  RecordsTyped'
    <2>1. ResponseDir(a) \in {"inbound_response", "outbound_response"}
      BY DEF ResponseDir
    <2>2. ResponseType(a) \in MessageType \cup {"ack"}
      BY <1>3, <1>b DEF ResponseType
    <2> QED
      BY <1>3, <1>a, <1>b, <2>1, <2>2
  <1>4. CASE ExportBundle
    BY <1>4 DEF ExportBundle, RecordsTyped
  <1>5. CASE CloseIndex \/ CloseFile \/ OpenRecords
    BY <1>5 DEF CloseIndex, CloseFile, OpenRecords, RecordsTyped
  <1>6. CASE UNCHANGED recordVars
    BY <1>6 DEF recordVars, RecordsTyped
  <1> QED
    BY <1>1, <1>2, <1>3, <1>4, <1>5, <1>6, RecordSteps

-----------------------------------------------------------------------------
(* The stages of Shutdown by which a server's listener is closed, its      *)
(* handlers are gone, and the index is closed.                             *)
ControlClosed == {"drainControl", "drainWire", "closeFile", "done"}
ControlDrained == {"drainWire", "closeFile", "done"}
WireDrained == {"closeFile", "done"}

(* How far a routine's shutdown has come tells what is closed, whatever    *)
(* the other routine does; the log is closed only where one is done.       *)
ShutInv ==
    /\ pc["main"] \in {"startControl", "startWire", "autoStart", "exited"} => pc["watcher"] = "none"
    /\ \A r \in Routine :
         /\ pc[r] \in ControlClosed => listener["control"] = "closed"
         /\ pc[r] \in ControlDrained => /\ listener["wire"] = "closed"
                                         /\ \A a \in Control : job[a].pc = "none"
         /\ pc[r] \in WireDrained => ~indexOpen /\ \A a \in Wire : job[a].pc = "none"
    /\ ~fileOpen => ~indexOpen
    /\ ~fileOpen /\ Running => \E r \in Routine : pc[r] = "done"
    /\ ~Running => schedulerCancel = "nil" /\ listener = NoListener /\ job = NoJobs

ServerInv == RecordsTyped /\ ProcTyped /\ Numbered /\ ShutInv

(* What a new job is made of.                                              *)
LEMMA JobTyped ==
    ASSUME NEW stage \in {"none", "idle", "begun"}, NEW x \in 0..MaxExchanges
    PROVE  /\ JobAt(stage, x) \in Jobs
           /\ JobAt(stage, x).pc = stage /\ JobAt(stage, x).exchange = x
  <1>1. 0 \in 0..MaxExchanges
    BY ServerAssumption DEF ServerAssumption
  <1> QED
    BY <1>1 DEF JobAt, Jobs

(* What the state of a process that starts or has ended is made of.        *)
LEMMA FreshTyped ==
    /\ NoJobs \in [Actor -> Jobs]
    /\ \A a \in Actor : NoJobs[a].pc = "none"
    /\ NoListener \in [{"control", "wire"} -> {"none", "open", "closed"}]
    /\ \A stage \in Stage : MainAt(stage) \in [Routine -> Stage]
  <1>1. NoJob \in Jobs /\ NoJob.pc = "none"
    BY ServerAssumption DEF ServerAssumption, NoJob, JobAt, Jobs
  <1>2. ASSUME NEW stage \in Stage PROVE MainAt(stage) \in [Routine -> Stage]
    BY DEF MainAt, Stage
  <1> QED
    BY <1>1, <1>2 DEF NoJobs, NoListener

(* The invariant holds when the process starts for the first time.         *)
LEMMA InitInv == Init => ServerInv
  <1> SUFFICES ASSUME Init PROVE ServerInv
    OBVIOUS
  <1>1. RecordsTyped
    BY DEF Init, RecordsInit, RecordsTyped
  <1>a. "startControl" \in Stage /\ 0 \in 0..MaxExchanges /\ 1 \in 1..MaxStarts
    BY ServerAssumption DEF ServerAssumption, Stage
  <1>2. ProcTyped /\ Numbered
    BY <1>a, FreshTyped DEF Init, ProcTyped, Numbered
  <1>3. ShutInv
    BY DEF Init, RecordsInit, ShutInv, MainAt, Running, Routine, ControlClosed, ControlDrained,
       WireDrained
  <1> QED
    BY <1>1, <1>2, <1>3 DEF ServerInv

(* The process ends, by main's return, a fatal error or a kill.            *)
LEMMA DiesInv ==
    ASSUME ServerInv, Dies, indexOpen' = indexOpen, fileOpen' = fileOpen
    PROVE  ProcTyped' /\ Numbered' /\ ShutInv'
  <1>1. ProcTyped' /\ Numbered'
    BY FreshTyped DEF ServerInv, Dies, ProcTyped, Numbered, Stage
  <1>2. ShutInv'
    BY DEF ServerInv, Dies, ShutInv, MainAt, Running, Routine, ControlClosed, ControlDrained,
       WireDrained
  <1> QED
    BY <1>1, <1>2

(* Logging leaves the handles alone.                                       *)
LEMMA LogKeepsHandles ==
    ASSUME NEW e, Log(e) \/ LogTorn(e)
    PROVE  UNCHANGED <<payloads, fileOpen, indexOpen, bundle>>
  BY DEF Log, LogTorn

(* A start or a stop of the scheduler leaves the handles alone.  A start   *)
(* leaves the jobs as given, but for one worker that had none.             *)
LEMMA SchedulerKeepsHandles ==
    ASSUME NEW j, StartOutboundScheduler(j) \/ StopOutboundScheduler,
           schedulerCancel \in Worker \cup {"nil"}
    PROVE  schedulerCancel' \in Worker \cup {"nil"} /\ UNCHANGED <<fileOpen, indexOpen>>
  BY LogKeepsHandles DEF StartOutboundScheduler, StopOutboundScheduler, recordVars

LEMMA StartKeepsJobs ==
    ASSUME NEW j \in [Actor -> Jobs], StartOutboundScheduler(j)
    PROVE  /\ job' \in [Actor -> Jobs]
           /\ \A a \in Handler \cup {"engine"} : job'[a] = j[a]
           /\ \A a \in Actor : job'[a] = j[a] \/ job'[a] = JobAt("idle", 0)
  <1>1. JobAt("idle", 0) \in Jobs
    BY ServerAssumption DEF ServerAssumption, JobAt, Jobs
  <1>2. CASE schedulerOn
    BY <1>2 DEF StartOutboundScheduler, Actor
  <1>3. CASE ~schedulerOn
    <2>1. PICK w \in Worker : job' = [j EXCEPT ![w] = JobAt("idle", 0)]
      BY <1>3 DEF StartOutboundScheduler
    <2>2. w \in Actor /\ w \notin Handler \cup {"engine"}
      BY ServerAssumption DEF ServerAssumption, Actor, Handler
    <2> HIDE DEF JobAt, Jobs
    <2> QED
      BY <1>1, <2>1, <2>2 DEF Actor
  <1> QED
    BY <1>2, <1>3

(* main and Server.Start keep the invariant.                               *)
LEMMA StartInv ==
    ASSUME ServerInv, Start
    PROVE  ProcTyped' /\ Numbered' /\ ShutInv'
  <1> USE DEF ServerInv
  <1>1. ASSUME NEW l \in {"control", "wire"}, NEW from \in {"startControl", "startWire"},
               NEW to \in {"startWire", "autoStart"}, Listen(l, from, to)
        PROVE  ProcTyped' /\ Numbered' /\ ShutInv'
    <2>1. ProcTyped' /\ Numbered'
      BY <1>1 DEF Listen, Goto, ProcTyped, Numbered, Routine, Stage
    <2>2. pc["watcher"] = "none" /\ pc'["watcher"] = "none" /\ pc'["main"] = to
      BY <1>1 DEF Listen, Goto, ShutInv, ProcTyped, Routine
    <2>3. UNCHANGED <<fileOpen, indexOpen>>
      BY <1>1 DEF Listen, recordVars
    <2>4. fileOpen
      BY <1>1, <2>2 DEF Listen, ShutInv, Running, Routine, RecordsTyped
    <2> QED
      BY <1>1, <2>1, <2>2, <2>3, <2>4 DEF Listen, Running, ShutInv, Routine, ControlClosed, ControlDrained, WireDrained
  <1>2. CASE StartFails
    BY <1>2, DiesInv DEF StartFails, recordVars
  <1>3. CASE StartWatched
    <2>1. /\ schedulerCancel' \in Worker \cup {"nil"} /\ UNCHANGED <<fileOpen, indexOpen>>
          /\ job' \in [Actor -> Jobs]
          /\ \A a \in Actor : job'[a] = job[a] \/ job'[a] = JobAt("idle", 0)
      BY <1>3, SchedulerKeepsHandles, StartKeepsJobs
         DEF StartWatched, AutoStarts, recordVars, ProcTyped
    <2>2. pc' = [pc EXCEPT !["main"] = "log", !["watcher"] = "waiting"]
          /\ pc["main"] = "autoStart" /\ UNCHANGED <<listener, ctxDone, exchanges, starts>>
      BY <1>3 DEF StartWatched
    <2>3. ProcTyped' /\ Numbered'
      <3>1. ProcTyped'
        BY <2>1, <2>2 DEF ProcTyped, Routine, Stage
      <3>2. Numbered'
        BY <2>1 DEF Numbered, JobAt
      <3> QED
        BY <3>1, <3>2
    <2>4. fileOpen
      BY <2>2 DEF ShutInv, Running, Routine, RecordsTyped
    <2> QED
      BY <2>1, <2>2, <2>3, <2>4
         DEF ShutInv, ProcTyped, Running, Routine, ControlClosed, ControlDrained, WireDrained
  <1>4. CASE StartSessionEngine
    <2>1. /\ pc' = [pc EXCEPT !["main"] = "waiting"] /\ pc["main"] = "log"
          /\ UNCHANGED <<listener, ctxDone, schedulerCancel, exchanges, starts, fileOpen, indexOpen>>
          /\ \E p \in {"idle", "none"} : job' = [job EXCEPT !["engine"].pc = p]
      BY <1>4, LogKeepsHandles DEF StartSessionEngine, Goto
    <2>2. ProcTyped' /\ Numbered'
      BY <2>1 DEF ProcTyped, Numbered, Jobs, Routine, Stage, Actor
    <2>3. ShutInv'
      <3>1. /\ \A a \in Control : job'[a] = job[a]
            /\ \A a \in Wire : job'[a] = job[a]
        BY <2>1, ServerAssumption DEF ServerAssumption, ProcTyped, Actor, Handler
      <3>2. pc'["main"] = "waiting" /\ pc'["watcher"] = pc["watcher"] /\ Running /\ Running'
        BY <2>1 DEF ProcTyped, Running, Routine
      <3>3. \A r \in Routine : pc'[r] \in ControlClosed => pc'[r] = pc[r]
        BY <3>2 DEF Routine, ControlClosed
      <3>4. fileOpen \/ \E r \in Routine : pc'[r] = "done"
        BY <2>1, <3>2 DEF ShutInv, Routine
      <3> QED
        BY <2>1, <3>1, <3>2, <3>3, <3>4 DEF ShutInv, ControlClosed, ControlDrained, WireDrained
    <2> QED
      BY <2>2, <2>3
  <1> QED
    BY <1>1, <1>2, <1>3, <1>4 DEF Start, startControl, startWire

(* Each stage of Shutdown, taken by either routine, keeps the invariant.   *)
LEMMA ShutdownInv ==
    ASSUME ServerInv, NEW r \in Routine, Shutdown(r)
    PROVE  ProcTyped' /\ Numbered' /\ ShutInv'
  <1> USE DEF ServerInv
  <1>0. UNCHANGED <<ctxDone, exchanges, starts, job>>
    BY DEF Shutdown, ShutdownStops, ShutdownClosesControl,
       ShutdownDrainsControl, ShutdownDrainsWire, ShutdownClosesFile
  <1>1. ProcTyped'
    <2>1. \E stage \in Stage : pc' = [pc EXCEPT ![r] = stage]
      BY DEF Shutdown, ShutdownStops, ShutdownClosesControl,
         ShutdownDrainsControl, ShutdownDrainsWire, ShutdownClosesFile, Goto, Stage
    <2>2. listener' \in [{"control", "wire"} -> {"none", "open", "closed"}]
      BY DEF Shutdown, ShutdownStops, ShutdownClosesControl,
         ShutdownDrainsControl, ShutdownDrainsWire, ShutdownClosesFile, ProcTyped
    <2>3. schedulerCancel' \in Worker \cup {"nil"}
      BY SchedulerKeepsHandles
         DEF Shutdown, ShutdownStops, ShutdownClosesControl,
             ShutdownDrainsControl, ShutdownDrainsWire, ShutdownClosesFile, ProcTyped
    <2> QED
      BY <1>0, <2>1, <2>2, <2>3 DEF ProcTyped
  <1>2. Numbered'
    BY <1>0 DEF Numbered
  <1>5. CASE ShutdownStops(r)
    <2>1. UNCHANGED <<fileOpen, indexOpen>>
      BY <1>5, SchedulerKeepsHandles DEF ShutdownStops, ProcTyped
    <2> QED
      BY <1>0, <1>1, <1>2, <1>5, <2>1 DEF ShutdownStops, StopOutboundScheduler, Goto, ShutInv, ProcTyped, Running, Routine,
         ControlClosed, ControlDrained, WireDrained
  <1>6. CASE ShutdownClosesControl(r)
    BY <1>0, <1>1, <1>2, <1>6 DEF ShutdownClosesControl, Goto, ShutInv, ProcTyped, Running, Routine,
       recordVars, ControlClosed, ControlDrained, WireDrained
  <1>7. CASE ShutdownDrainsControl(r)
    BY <1>0, <1>1, <1>2, <1>7 DEF ShutdownDrainsControl, Goto, ShutInv, ProcTyped, Running, Routine,
       recordVars, ControlClosed, ControlDrained, WireDrained
  <1>8. CASE ShutdownDrainsWire(r)
    BY <1>0, <1>1, <1>2, <1>8 DEF ShutdownDrainsWire, CloseIndex, Goto, ShutInv, ProcTyped, Running,
       Routine, ControlClosed, ControlDrained, WireDrained
  <1>9. CASE ShutdownClosesFile(r)
    BY <1>0, <1>1, <1>2, <1>9 DEF ShutdownClosesFile, CloseFile, Goto, ShutInv, ProcTyped, Running,
       Routine, ControlClosed, ControlDrained, WireDrained
  <1> QED
    BY <1>1, <1>2, <1>5, <1>6, <1>7, <1>8, <1>9 DEF Shutdown

(* Exchanges and control requests keep the invariant: they begin only      *)
(* while the listener is open, and leave handles and listeners alone.      *)
LEMMA ActorInv ==
    ASSUME ServerInv,
           \/ \E a \in Actor : Begin(a) \/ Send(a) \/ Act(a)
           \/ \E a \in Handler : Refuse(a) \/ ControlAnswers(a)
           \/ \E a \in Worker \cup {"engine"} : Returns(a)
    PROVE  ProcTyped' /\ Numbered' /\ ShutInv'
  <1> USE DEF ServerInv
  <1> DEFINE Quiet == UNCHANGED <<pc, listener, ctxDone, starts, fileOpen, indexOpen>>
             Kept == \A a \in Handler :
                       listener[Plane(a)] # "open" /\ job[a].pc = "none" => job'[a].pc = "none"
             Goal == Quiet /\ Kept /\ ProcTyped' /\ Numbered'
  <1>0. Handler \subseteq Actor
    BY DEF Actor
  <1>a. ASSUME NEW stage \in {"none", "idle", "begun"}
        PROVE  JobAt(stage, 0) \in Jobs /\ JobAt(stage, 0).pc = stage
    BY JobTyped, ServerAssumption DEF ServerAssumption
  <1>1. ASSUME NEW a \in Actor, Begin(a) PROVE Goal
    <2> DEFINE j == JobAt("begun", exchanges + 1)
    <2>1. exchanges + 1 \in 0..MaxExchanges /\ exchanges + 1 # 0
      BY <1>1, ServerAssumption DEF ServerAssumption, Begin, ProcTyped
    <2>2. j \in Jobs /\ j.pc = "begun" /\ j.exchange # 0
      BY <2>1, JobTyped
    <2>3. Quiet
      BY <1>1 DEF Begin, recordVars
    <2>4. job' = [job EXCEPT ![a] = j] /\ exchanges' = exchanges + 1
          /\ UNCHANGED <<pc, listener, ctxDone, schedulerCancel, starts>>
      BY <1>1 DEF Begin
    <2>5. Kept
      <3>1. a \in Handler => listener[Plane(a)] = "open" \/ job[a].pc # "none"
        BY <1>1 DEF Begin, MayBegin
      <3> QED
        BY <1>0, <2>4, <3>1 DEF ProcTyped
    <2> HIDE DEF j
    <2>6. ProcTyped' /\ Numbered'
      BY <2>1, <2>2, <2>4 DEF ProcTyped, Numbered
    <2> QED
      BY <2>3, <2>5, <2>6
  <1>2. ASSUME NEW a \in Actor, Send(a) \/ Act(a) PROVE Goal
    <2>1. Quiet /\ UNCHANGED <<schedulerCancel, exchanges>>
      BY <1>2, LogKeepsHandles DEF Send, Act, Reply, NoReply, Finish, WritePayload, recordVars
    <2>2. \E j \in Jobs : /\ job' = [job EXCEPT ![a] = j]
                          /\ j.pc \in {"none", "idle"} \/ j.exchange = job[a].exchange
                          /\ job[a].pc \in {"begun", "sent", "replied"}
      <3>1. CASE Send(a)
        <4>1. PICK type \in MessageType : job' = [job EXCEPT ![a].pc = "sent", ![a].type = type]
          BY <3>1 DEF Send
        <4>2. [job[a] EXCEPT !.pc = "sent", !.type = type] \in Jobs
          BY DEF ProcTyped, Jobs
        <4> QED
          BY <3>1, <4>1, <4>2 DEF Send, ProcTyped, Jobs
      <3>2. CASE Reply(a)
        <4>1. PICK ok \in BOOLEAN : job' = [job EXCEPT ![a].pc = "replied", ![a].ok = ok]
          BY <3>2 DEF Reply
        <4>2. [job[a] EXCEPT !.pc = "replied", !.ok = ok] \in Jobs
          BY DEF ProcTyped, Jobs
        <4> QED
          BY <3>2, <4>1, <4>2 DEF Reply, ProcTyped, Jobs
      <3>3. CASE NoReply(a)
        <4>1. [job[a] EXCEPT !.pc = "replied"] \in Jobs
          BY DEF ProcTyped, Jobs
        <4>2. job' = [job EXCEPT ![a] = [job[a] EXCEPT !.pc = "replied"]] /\ job[a].pc = "sent"
          BY <3>3 DEF NoReply
        <4> QED
          BY <4>1, <4>2 DEF ProcTyped, Jobs
      <3>4. CASE Finish(a)
        <4>1. \A next \in After(a) : JobAt(next, 0) \in Jobs /\ JobAt(next, 0).pc \in {"none", "idle"}
          BY <1>a, ServerAssumption DEF ServerAssumption, After
        <4> HIDE DEF Jobs, JobAt
        <4> QED
          BY <3>4, <4>1 DEF Finish
      <3> QED
        BY <1>2, <3>1, <3>2, <3>3, <3>4 DEF Act
    <2> QED
      BY <1>0, <2>1, <2>2 DEF ProcTyped, Numbered
  <1>3. ASSUME NEW a \in Worker \cup {"engine"}, Returns(a) PROVE Goal
    <2>1. NoJob \in Jobs /\ NoJob.pc = "none" /\ a \in Actor
      BY <1>a, ServerAssumption DEF ServerAssumption, NoJob, Actor
    <2> HIDE DEF NoJob, Jobs
    <2> QED
      BY <1>0, <1>3, <2>1 DEF Returns, ProcTyped, Numbered, recordVars
  <1>4. ASSUME NEW a \in Handler, Refuse(a) PROVE Goal
    <2>1. NoJob \in Jobs /\ NoJob.pc = "none" /\ a \in Actor
      BY <1>a, ServerAssumption DEF ServerAssumption, NoJob, Actor
    <2>2. Quiet /\ UNCHANGED <<schedulerCancel, exchanges>> /\ job' = [job EXCEPT ![a] = NoJob]
      BY <1>4, LogKeepsHandles DEF Refuse, recordVars
    <2> HIDE DEF NoJob, Jobs
    <2> QED
      BY <1>0, <2>1, <2>2 DEF ProcTyped, Numbered
  <1>5. ASSUME NEW a \in Handler, ControlAnswers(a) PROVE Goal
    <2>1. NoJob \in Jobs /\ NoJob.pc = "none" /\ a \in Actor
      BY <1>a, ServerAssumption DEF ServerAssumption, NoJob, Actor
    <2>2. Quiet /\ schedulerCancel' \in Worker \cup {"nil"} /\ exchanges' = exchanges
      BY <1>5, SchedulerKeepsHandles DEF ControlAnswers, ExportBundle, ProcTyped
    <2> DEFINE answered == [job EXCEPT ![a] = NoJob]
    <2>4. answered \in [Actor -> Jobs]
          /\ \A b \in Actor : answered[b] = IF b = a THEN NoJob ELSE job[b]
      BY <2>1 DEF ProcTyped
    <2>3. StartOutboundScheduler(answered) \/ job' = answered
      BY <1>5 DEF ControlAnswers
    <2> HIDE DEF answered
    <2>5. /\ job' \in [Actor -> Jobs]
          /\ \A b \in Handler : job'[b] = answered[b]
          /\ \A b \in Actor : job'[b] = answered[b] \/ job'[b] = JobAt("idle", 0)
      BY <1>0, <2>3, <2>4, StartKeepsJobs
    <2>6. Numbered'
      BY <2>1, <2>4, <2>5 DEF Numbered, JobAt
    <2>7. Kept
      BY <1>0, <2>1, <2>4, <2>5
    <2> QED
      BY <2>2, <2>5, <2>6, <2>7 DEF ProcTyped
  <1> HIDE DEF Goal, ServerInv
  <1>6. Goal
    BY <1>1, <1>2, <1>3, <1>4, <1>5
  <1>r. Running
    <2> SUFFICES ASSUME ~Running PROVE FALSE
      OBVIOUS
    <2>1. \A a \in Actor : job[a].pc = "none" /\ listener[Plane(a)] = "none"
      BY FreshTyped DEF ServerInv, ShutInv, NoListener, Plane
    <2> QED
      BY <2>1, <1>0 DEF Begin, MayBegin, Send, Act, Reply, NoReply, Finish, Refuse, ControlAnswers,
         Returns, Actor
  <1>b. /\ \A a \in Control : a \in Handler /\ Plane(a) = "control"
        /\ \A a \in Wire : a \in Handler /\ Plane(a) = "wire"
    BY ServerAssumption DEF ServerAssumption, Handler, Plane
  <1>c. /\ listener["control"] = "closed" /\ (\A a \in Control : job[a].pc = "none")
             => \A a \in Control : job'[a].pc = "none"
        /\ listener["wire"] = "closed" /\ (\A a \in Wire : job[a].pc = "none")
             => \A a \in Wire : job'[a].pc = "none"
    BY <1>6, <1>b DEF Goal
  <1>7. ShutInv'
    BY <1>6, <1>c, <1>r DEF Goal, ServerInv, ShutInv, Running, Routine, ControlClosed, ControlDrained, WireDrained
  <1> QED
    BY <1>6, <1>7 DEF Goal

(* Every step keeps the invariant.                                         *)
LEMMA StepInv == ServerInv /\ [Next]_vars => ServerInv'
  <1> SUFFICES ASSUME ServerInv, [Next]_vars PROVE ServerInv'
    OBVIOUS
  <1>0. RecordsTyped'
    BY RecordsStep DEF ServerInv
  <1> SUFFICES ProcTyped' /\ Numbered' /\ ShutInv'
    BY <1>0 DEF ServerInv
  <1>1. CASE Start
    BY <1>1, StartInv
  <1>2. ASSUME NEW r \in Routine, Shutdown(r) PROVE ProcTyped' /\ Numbered' /\ ShutInv'
    BY <1>2, ShutdownInv
  <1>3. CASE MainReturns
    BY <1>3, DiesInv DEF MainReturns, recordVars
  <1>4. CASE \/ \E a \in Actor : Begin(a) \/ Send(a) \/ Act(a)
             \/ \E a \in Handler : Refuse(a) \/ ControlAnswers(a)
             \/ \E a \in Worker \cup {"engine"} : Returns(a)
    BY <1>4, ActorInv
  <1>5. CASE Interrupt
    BY <1>5 DEF Interrupt, ServerInv, ProcTyped, Numbered, ShutInv, Running, recordVars
  <1>6. CASE Killed
    <2>1. Dies /\ UNCHANGED <<indexOpen, fileOpen>>
      BY <1>6, LogKeepsHandles DEF Killed, recordVars
    <2> QED
      BY <2>1, DiesInv
  <1>7. CASE StartAgain
    <2>1. ProcTyped' /\ Numbered'
      <3>1. "startControl" \in Stage /\ starts + 1 \in 1..MaxStarts
        BY <1>7, ServerAssumption DEF StartAgain, ServerInv, ProcTyped, Stage, ServerAssumption
      <3> QED
        BY <1>7, <3>1, FreshTyped DEF StartAgain, ServerInv, ProcTyped, Numbered
    <2>2. ShutInv'
      BY <1>7 DEF StartAgain, OpenRecords, MainAt, ShutInv, Running, Routine, ControlClosed,
         ControlDrained, WireDrained
    <2> QED
      BY <2>1, <2>2
  <1>8. CASE UNCHANGED vars
    BY <1>8 DEF vars, procVars, recordVars, ServerInv, ProcTyped, Numbered, ShutInv, Running
  <1> QED
    BY <1>1, <1>2, <1>3, <1>4, <1>5, <1>6, <1>7, <1>8 DEF Next

(* The invariant ServerInv holds in every behaviour.                       *)
LEMMA Invariant == Spec => []ServerInv
  BY InitInv, StepInv, PTL DEF Spec

(* The process and its records keep their types, for any number of         *)
(* exchanges and starts.                                                   *)
THEOREM TypeCorrect == Spec => []TypeOK
  <1>1. ServerInv => TypeOK
    BY DEF ServerInv, RecordsTyped, ProcTyped, TypeOK
  <1> QED
    BY <1>1, Invariant, PTL

-----------------------------------------------------------------------------
(* The k-th line of the log carries k.                                     *)
IndexInv == IndexWithinLog /\ \A l \in DOMAIN events : events[l].line = l

(* A row of the index has its line in the log, in the log's order, through *)
(* any number of kills in the middle of Log, shutdowns and starts.         *)
THEOREM IndexHasLines == Spec => []IndexWithinLog
  <1>1. Init => IndexInv
    BY DEF Init, RecordsInit, IndexInv, IndexWithinLog
  <1>2. ServerInv /\ IndexInv /\ [Next]_vars => IndexInv'
    <2> SUFFICES ASSUME ServerInv, IndexInv, [Next]_vars PROVE IndexInv'
      OBVIOUS
    <2> USE DEF ServerInv
    <2>1. CASE UNCHANGED <<events, index>>
      BY <2>1 DEF IndexInv, IndexWithinLog
    <2>2. ASSUME NEW kind \in EventKind, NEW x \in 0..MaxExchanges,
                 Log(Event(kind, x)) \/ LogTorn(Event(kind, x)), fileOpen
          PROVE  IndexInv'
      <3> DEFINE e == Event(kind, x)
      <3>0. e.line = Len(events) + 1 /\ events \in Seq(Events) /\ index \in Seq(Events)
            /\ Len(events) \in Nat /\ Len(index) \in Nat
        BY DEF Event, RecordsTyped
      <3>1. events' = Append(events, e) /\ index' \in {index, Append(index, e)}
        BY <2>2 DEF Log, LogTorn
      <3> HIDE DEF e
      <3>2. /\ DOMAIN events' = 1..(Len(events) + 1) /\ DOMAIN events = 1..Len(events)
            /\ events'[Len(events) + 1] = e
            /\ \A l \in DOMAIN events : l \in DOMAIN events' /\ events'[l] = events[l]
        BY <3>0, <3>1
      <3>3. \A l \in DOMAIN events' : events'[l].line = l
        BY <3>0, <3>2 DEF IndexInv
      <3>4. \A k \in DOMAIN index : index[k].line \in 1..Len(events)
        BY <3>0, <3>2 DEF IndexInv, IndexWithinLog
      <3>5. CASE index' = index
        BY <3>2, <3>3, <3>5 DEF IndexInv, IndexWithinLog
      <3>6. CASE index' = Append(index, e)
        <4>1. /\ DOMAIN index' = 1..(Len(index) + 1) /\ DOMAIN index = 1..Len(index)
              /\ index'[Len(index) + 1] = e
              /\ \A k \in DOMAIN index : index'[k] = index[k]
          BY <3>0, <3>6
        <4>2. \A k \in DOMAIN index' : \E l \in DOMAIN events' : index'[k] = events'[l]
          <5> SUFFICES ASSUME NEW k \in DOMAIN index'
                       PROVE  \E l \in DOMAIN events' : index'[k] = events'[l]
            OBVIOUS
          <5>1. CASE k \in DOMAIN index
            <6>1. PICK l \in DOMAIN events : index[k] = events[l]
              BY <5>1 DEF IndexInv, IndexWithinLog
            <6> QED
              BY <3>2, <4>1, <5>1, <6>1
          <5>2. CASE k = Len(index) + 1
            <6>1. Len(events) + 1 \in DOMAIN events'
              BY <3>0, <3>2
            <6> QED
              BY <3>2, <4>1, <5>2, <6>1
          <5> QED
            BY <3>0, <4>1, <5>1, <5>2
        <4>3. \A j, k \in DOMAIN index' : j < k => index'[j].line < index'[k].line
          <5> SUFFICES ASSUME NEW j \in DOMAIN index', NEW k \in DOMAIN index', j < k
                       PROVE  index'[j].line < index'[k].line
            OBVIOUS
          <5>1. j \in DOMAIN index
            BY <3>0, <4>1
          <5>2. CASE k \in DOMAIN index
            BY <4>1, <5>1, <5>2 DEF IndexInv, IndexWithinLog
          <5>3. CASE k = Len(index) + 1
            BY <3>0, <3>4, <4>1, <5>1, <5>3
          <5> QED
            BY <4>1, <5>2, <5>3
        <4> QED
          BY <3>3, <4>2, <4>3 DEF IndexInv, IndexWithinLog
      <3> QED
        BY <3>1, <3>5, <3>6
    <2>3. ASSUME NEW e, Log(e) \/ LogTorn(e), ~fileOpen
          PROVE  UNCHANGED <<events, index>>
      BY <2>3 DEF Log, LogTorn, ShutInv
    <2>4. \/ UNCHANGED <<events, index>>
          \/ \E kind \in EventKind, x \in 0..MaxExchanges :
                Log(Event(kind, x)) \/ LogTorn(Event(kind, x))
      BY RecordSteps DEF WritePayload, ExportBundle, CloseIndex, CloseFile, OpenRecords, recordVars
    <2> QED
      BY <2>1, <2>2, <2>3, <2>4
  <1>3. IndexInv => IndexWithinLog
    BY DEF IndexInv
  <1> QED
    BY <1>1, <1>2, <1>3, Invariant, PTL DEF Spec

-----------------------------------------------------------------------------
(* A handler that answers a good exchange has its event in the log: the    *)
(* log is open as long as a request of either server is being served.      *)
THEOREM AnsweredLogged == Spec => AnsweredIsLogged
  <1> DEFINE A == \A a \in Handler :
                     job[a].pc = "replied" /\ job[a].ok /\ job'[a].pc = "none" /\ Running' =>
                       \E k \in DOMAIN events' : events'[k] = Outcome(a)
  <1>1. ServerInv /\ [Next]_vars => A
    <2> SUFFICES ASSUME ServerInv, [Next]_vars, NEW a \in Handler,
                        job[a].pc = "replied", job[a].ok, job'[a].pc = "none", Running'
                 PROVE  \E k \in DOMAIN events' : events'[k] = Outcome(a)
      OBVIOUS
    <2>0. a \in Actor /\ job \in [Actor -> Jobs] /\ ~Dies
      <3>1. Dies => ~Running'
        BY DEF Dies, MainAt, Running, Routine
      <3> QED
        BY <3>1 DEF ServerInv, ProcTyped, Actor
    <2>1. Finish(a)
      <3>1. CASE Start
        <4>1. CASE StartWatched
          <5>1. job' = job \/ StartOutboundScheduler(job)
            BY <4>1 DEF StartWatched, AutoStarts
          <5> QED
            BY <2>0, <5>1, StartKeepsJobs
        <4>2. CASE StartSessionEngine
          BY <2>0, <4>2, ServerAssumption DEF StartSessionEngine, ServerAssumption
        <4> QED
          BY <2>0, <3>1, <4>1, <4>2 DEF Start, startControl, startWire, Listen, StartFails
      <3>2. ASSUME NEW r \in Routine, Shutdown(r) PROVE FALSE
        BY <3>2 DEF Shutdown, ShutdownStops, ShutdownClosesControl,
           ShutdownDrainsControl, ShutdownDrainsWire, ShutdownClosesFile
      <3>3. CASE MainReturns \/ Killed
        BY <2>0, <3>3 DEF MainReturns, Killed
      <3>4. ASSUME NEW b \in Actor, Begin(b) \/ Send(b) \/ Reply(b) \/ NoReply(b) PROVE FALSE
        <4>1. CASE Reply(b)
          <5>1. job[b].pc = "sent" /\ job'[b].pc = "replied" /\ \A c \in Actor \ {b} : job'[c] = job[c]
            BY <2>0, <4>1 DEF Reply, Jobs
          <5> QED
            BY <2>0, <5>1
        <4>2. CASE Begin(b)
          <5>1. job[b].pc \in {"none", "idle"} /\ \A c \in Actor \ {b} : job'[c] = job[c]
            BY <2>0, <4>2 DEF Begin, MayBegin
          <5> QED
            BY <2>0, <5>1
        <4>3. CASE Send(b)
          <5>1. job[b].pc = "begun" /\ \A c \in Actor \ {b} : job'[c] = job[c]
            BY <2>0, <4>3 DEF Send
          <5> QED
            BY <2>0, <5>1
        <4> QED
          BY <2>0, <3>4, <4>1, <4>2, <4>3 DEF NoReply, Jobs
      <3>5. ASSUME NEW b \in Actor, Finish(b) PROVE Finish(a)
        <4>1. a = b
          BY <2>0, <3>5 DEF Finish
        <4> QED
          BY <3>5, <4>1
      <3>6. ASSUME NEW b \in Worker \cup {"engine"}, Returns(b) PROVE FALSE
        BY <2>0, <3>6 DEF Returns
      <3>7. ASSUME NEW b \in Handler, Refuse(b) PROVE FALSE
        BY <2>0, <3>7 DEF Refuse
      <3>8. ASSUME NEW b \in Handler, ControlAnswers(b) PROVE FALSE
        <4> DEFINE answered == [job EXCEPT ![b] = NoJob]
        <4>1. b # a /\ NoJob \in Jobs
          BY <3>8, ServerAssumption DEF ControlAnswers, ServerAssumption, NoJob, JobAt, Jobs
        <4>2. answered \in [Actor -> Jobs] /\ answered[a] = job[a]
          BY <2>0, <4>1
        <4>3. StartOutboundScheduler(answered) \/ job' = answered
          BY <3>8 DEF ControlAnswers
        <4> HIDE DEF answered
        <4> QED
          BY <4>2, <4>3, StartKeepsJobs
      <3>9. CASE Interrupt \/ StartAgain
        BY <3>9 DEF Interrupt, StartAgain
      <3>10. CASE UNCHANGED vars
        BY <3>10 DEF vars, procVars
      <3> QED
        BY <3>1, <3>2, <3>3, <3>4, <3>5, <3>6, <3>7, <3>8, <3>9, <3>10 DEF Next, Act
    <2>2. fileOpen
      <3>1. Running
        BY <2>1 DEF Finish, Running
      <3> QED
        BY <3>1 DEF ServerInv, ShutInv, RecordsTyped, ControlDrained, WireDrained, Handler
    <2>3. events' = Append(events, Outcome(a)) /\ events \in Seq(Events)
      BY <2>1, <2>2 DEF Finish, ToLog, Log, ServerInv, RecordsTyped
    <2>4. Len(events) + 1 \in DOMAIN events' /\ events'[Len(events) + 1] = Outcome(a)
      <3> DEFINE e == Outcome(a)
      <3>1. events' = Append(events, e) /\ events \in Seq(Events)
        BY <2>3
      <3> HIDE DEF e
      <3>2. Len(events) + 1 \in DOMAIN events' /\ events'[Len(events) + 1] = e
        BY <3>1
      <3> QED
        BY <3>2 DEF e
    <2> QED
      BY <2>4
  <1>2. ServerInv /\ [Next]_vars => [A]_vars
    BY <1>1
  <1> QED
    BY <1>2, Invariant, PTL DEF Spec, AnsweredIsLogged

(* Once either shutdown has drained the control plane nothing turns the    *)
(* scheduler on again: the requests that could are gone.                   *)
THEOREM SchedulerNotLate == Spec => NoLateScheduler
  <1>1. ServerInv /\ [Next]_vars => (Drained => schedulerCancel' \in {schedulerCancel, "nil"})
    <2> SUFFICES ASSUME ServerInv, [Next]_vars, Drained
                 PROVE  schedulerCancel' \in {schedulerCancel, "nil"}
      OBVIOUS
    <2>0. (\A a \in Control : job[a].pc = "none") /\ pc["main"] # "autoStart"
      BY DEF Drained, ServerInv, ShutInv, ControlDrained, Routine
    <2>1. CASE Start
      BY <2>0, <2>1 DEF Start, startControl, startWire, Listen, StartFails, StartWatched,
         StartSessionEngine, Dies
    <2>2. ASSUME NEW r \in Routine, Shutdown(r) PROVE schedulerCancel' \in {schedulerCancel, "nil"}
      BY <2>2 DEF Shutdown, ShutdownStops, ShutdownClosesControl,
         ShutdownDrainsControl, ShutdownDrainsWire, ShutdownClosesFile, StopOutboundScheduler
    <2>3. CASE MainReturns \/ Killed
      BY <2>3 DEF MainReturns, Killed, Dies
    <2>4. ASSUME NEW a \in Actor, Begin(a) \/ Send(a) \/ Act(a) \/ Returns(a)
          PROVE  schedulerCancel' = schedulerCancel
      BY <2>4 DEF Begin, Send, Act, Reply, NoReply, Finish, Returns
    <2>5. ASSUME NEW a \in Handler, Refuse(a) \/ ControlAnswers(a)
          PROVE  schedulerCancel' = schedulerCancel
      BY <2>0, <2>5 DEF Refuse, ControlAnswers
    <2>6. CASE Interrupt \/ StartAgain
      BY <2>6 DEF Interrupt, StartAgain
    <2>7. CASE UNCHANGED vars
      BY <2>7 DEF vars, procVars
    <2> QED
      BY <2>1, <2>2, <2>3, <2>4, <2>5, <2>6, <2>7 DEF Next, Actor
  <1>2. ServerInv /\ [Next]_vars => [Drained => schedulerCancel' \in {schedulerCancel, "nil"}]_vars
    BY <1>1
  <1> QED
    BY <1>2, Invariant, PTL DEF Spec, NoLateScheduler

-----------------------------------------------------------------------------
(* No line of the log is of a later start of the process.                  *)
RunsKnown == \A k \in DOMAIN events : events[k].run <= starts

(* What a step does to the scheduler and to the log, while the log is open *)
(* and the process runs on.                                                *)
LEMMA SchedulerSteps ==
    ASSUME ServerInv, [Next]_vars, Running', ~StartAgain, fileOpen'
    PROVE  /\ Running /\ starts' = starts /\ fileOpen
           /\ \/ \E j : StartOutboundScheduler(j)
              \/ StopOutboundScheduler
              \/ UNCHANGED <<events, schedulerCancel>>
              \/ /\ schedulerCancel' = schedulerCancel
                 /\ \E kind \in EventKind \ {"scheduler started", "scheduler stopped"},
                       x \in 0..MaxExchanges : events' = Append(events, Event(kind, x))
  <1> DEFINE Same == Running /\ starts' = starts /\ fileOpen
             Quiet == UNCHANGED <<events, schedulerCancel>>
             Logs == /\ schedulerCancel' = schedulerCancel
                     /\ \E kind \in EventKind \ {"scheduler started", "scheduler stopped"},
                           x \in 0..MaxExchanges : events' = Append(events, Event(kind, x))
             Turned == (\E j : StartOutboundScheduler(j)) \/ StopOutboundScheduler
             Goal == Same /\ (Turned \/ Quiet \/ Logs)
  <1> USE DEF ServerInv
  <1>a. ~Dies
    BY DEF Dies, MainAt, Running, Routine
  <1>b. ASSUME NEW e, Log(e)
        PROVE  fileOpen /\ events' = Append(events, e)
    BY <1>b DEF Log
  <1>c. Turned => fileOpen
    BY SchedulerKeepsHandles DEF ProcTyped
  <1>d. 0 \in 0..MaxExchanges /\ \A a \in Actor : job[a].exchange \in 0..MaxExchanges
    BY ServerAssumption DEF ServerAssumption, ProcTyped, Jobs
  <1>1. CASE Start
    <2>1. CASE startControl \/ startWire
      BY <2>1 DEF startControl, startWire, Listen, Running, recordVars
    <2>2. CASE StartFails
      BY <1>a, <2>2 DEF StartFails
    <2>3. CASE StartWatched
      <3>1. Running /\ starts' = starts
        BY <2>3 DEF StartWatched, Running
      <3>2. CASE StartOutboundScheduler(job)
        BY <1>c, <3>1, <3>2
      <3>3. CASE UNCHANGED <<recordVars, schedulerCancel>>
        BY <3>1, <3>3 DEF recordVars
      <3> QED
        BY <2>3, <3>2, <3>3 DEF StartWatched, AutoStarts
    <2>4. CASE StartSessionEngine
      <3>1. fileOpen /\ events' = Append(events, Event("VEGM started", 0))
        BY <1>b, <2>4 DEF StartSessionEngine
      <3>2. Running /\ starts' = starts /\ schedulerCancel' = schedulerCancel
        BY <2>4 DEF StartSessionEngine, Running
      <3> QED
        BY <1>d, <3>1, <3>2 DEF EventKind
    <2> QED
      BY <1>1, <2>1, <2>2, <2>3, <2>4 DEF Start
  <1>2. ASSUME NEW r \in Routine, Shutdown(r) PROVE Goal
    <2>1. Running /\ starts' = starts
      BY <1>2 DEF Shutdown, ShutdownStops, ShutdownClosesControl,
         ShutdownDrainsControl, ShutdownDrainsWire, ShutdownClosesFile, Goto, Running, Routine,
         ProcTyped
    <2>2. fileOpen /\ (Turned \/ Quiet)
      BY <1>2, <1>c DEF Shutdown, ShutdownStops, ShutdownClosesControl,
         ShutdownDrainsControl, ShutdownDrainsWire, ShutdownClosesFile, CloseIndex, CloseFile,
         recordVars
    <2> QED
      BY <2>1, <2>2
  <1>3. CASE MainReturns \/ Killed
    BY <1>a, <1>3 DEF MainReturns, Killed
  <1>4. ASSUME NEW a \in Actor, Begin(a) \/ Send(a) \/ Reply(a) \/ NoReply(a) PROVE Goal
    BY <1>4 DEF Begin, Send, Reply, NoReply, WritePayload, Running, recordVars
  <1>5. ASSUME NEW a \in Actor, Finish(a) PROVE Goal
    <2>1. \E kind \in {"complete", "failed"}, x \in 0..MaxExchanges : Outcome(a) = Event(kind, x)
      BY <1>d DEF Outcome
    <2>2. Same /\ schedulerCancel' = schedulerCancel
      BY <1>5, LogKeepsHandles DEF Finish, Running, recordVars
    <2>3. events' \in {events, Append(events, Outcome(a))}
      BY <1>5, <1>b DEF Finish, recordVars
    <2> QED
      BY <2>1, <2>2, <2>3 DEF EventKind
  <1>6. ASSUME NEW a \in Worker \cup {"engine"}, Returns(a) PROVE Goal
    BY <1>6 DEF Returns, Running, recordVars
  <1>7. ASSUME NEW a \in Handler, Refuse(a) PROVE Goal
    <2>1. Same /\ schedulerCancel' = schedulerCancel
      BY <1>7, LogKeepsHandles DEF Refuse, Running, recordVars
    <2>2. events' \in {events, Append(events, Event("parse failed", job[a].exchange))}
      BY <1>7, <1>b DEF Refuse, recordVars
    <2> QED
      BY <1>d, <2>1, <2>2 DEF EventKind, Actor
  <1>8. ASSUME NEW a \in Handler, ControlAnswers(a) PROVE Goal
    BY <1>8, <1>c DEF ControlAnswers, ExportBundle, Running
  <1>9. CASE Interrupt
    BY <1>9 DEF Interrupt, Running, recordVars
  <1>11. CASE UNCHANGED vars
    BY <1>11 DEF vars, procVars, recordVars, Running
  <1> QED
    BY <1>1, <1>2, <1>3, <1>4, <1>5, <1>6, <1>7, <1>8, <1>9, <1>11 DEF Next, Act

(* The lines of a kind that this process wrote, once it writes one more.   *)
LEMMA LoggedAppend ==
    ASSUME NEW e, events \in Seq(Events), events' = Append(events, e), e.run = starts,
           starts' = starts, NEW kind
    PROVE  /\ Logged(kind) \subseteq 1..Len(events)
           /\ Logged(kind)' = IF e.kind = kind THEN Logged(kind) \cup {Len(events) + 1}
                              ELSE Logged(kind)
  <1>1. /\ Len(events) \in Nat /\ DOMAIN events = 1..Len(events)
        /\ DOMAIN events' = 1..(Len(events) + 1)
        /\ \A k \in 1..Len(events) : events'[k] = events[k]
        /\ events'[Len(events) + 1] = e
    OBVIOUS
  <1> QED
    BY <1>1 DEF Logged

(* One more event of this process at the end of the log.                   *)
LEMMA StartStandsAppend ==
    ASSUME NEW e, events \in Seq(Events), events' = Append(events, e), e.run = starts,
           starts' = starts
    PROVE  /\ e.kind = "scheduler started" => StartStands'
           /\ e.kind = "scheduler stopped" => ~StartStands'
           /\ e.kind \notin {"scheduler started", "scheduler stopped"}
                => (StartStands' <=> StartStands)
  <1> DEFINE On == Logged("scheduler started")
             Off == Logged("scheduler stopped")
             n == Len(events)
             started == e.kind = "scheduler started"
             stopped == e.kind = "scheduler stopped"
  <1>1. /\ On \subseteq 1..n /\ On' = IF started THEN On \cup {n + 1} ELSE On
        /\ Off \subseteq 1..n /\ Off' = IF stopped THEN Off \cup {n + 1} ELSE Off
    BY LoggedAppend, Zenon
  <1>2. n \in Nat
    OBVIOUS
  <1>3. /\ StartStands <=> \E k \in On : \A l \in Off : l < k
        /\ StartStands' <=> \E k \in On' : \A l \in Off' : l < k
    BY DEF StartStands
  <1>4. ~(started /\ stopped)
    BY Zenon
  <1> HIDE DEF On, Off, n, started, stopped
  <1>5. ASSUME started PROVE StartStands'
    BY <1>1, <1>2, <1>3, <1>4, <1>5
  <1>6. ASSUME stopped PROVE ~StartStands'
    BY <1>1, <1>2, <1>3, <1>4, <1>6
  <1>7. ASSUME ~started, ~stopped PROVE StartStands' <=> StartStands
    BY <1>1, <1>3, <1>7
  <1> QED
    BY <1>5, <1>6, <1>7, Zenon DEF started, stopped

(* The log never holds a line of a start that is still to come.            *)
LEMMA RunsStep == ServerInv /\ RunsKnown /\ [Next]_vars => RunsKnown'
  <1> SUFFICES ASSUME ServerInv, RunsKnown, [Next]_vars PROVE RunsKnown'
    OBVIOUS
  <1>0. starts \in Nat /\ events \in Seq(Events) /\ \A k \in DOMAIN events : events[k].run \in Nat
    <2>1. \A e \in Events : e.run \in Nat
      BY DEF Events
    <2>2. events \in Seq(Events) /\ starts \in Nat
      BY DEF ServerInv, ProcTyped, RecordsTyped
    <2> QED
      BY <2>1, <2>2
  <1>1. starts' \in {starts, starts + 1}
    <2>1. CASE Start
      BY <2>1 DEF Start, startControl, startWire, Listen, StartFails, Dies, StartWatched,
         StartSessionEngine
    <2>2. ASSUME NEW r \in Routine, Shutdown(r) PROVE starts' = starts
      BY <2>2 DEF Shutdown
    <2>3. CASE MainReturns \/ Killed
      BY <2>3 DEF MainReturns, Killed, Dies
    <2>4. ASSUME NEW a \in Actor, Begin(a) \/ Send(a) \/ Act(a) \/ Returns(a) PROVE starts' = starts
      BY <2>4 DEF Begin, Send, Act, Reply, NoReply, Finish, Returns
    <2>5. ASSUME NEW a \in Handler, Refuse(a) \/ ControlAnswers(a) PROVE starts' = starts
      BY <2>5 DEF Refuse, ControlAnswers
    <2>6. CASE Interrupt \/ StartAgain
      BY <2>6 DEF Interrupt, StartAgain
    <2>7. CASE UNCHANGED vars
      BY <2>7 DEF vars, procVars
    <2> QED
      BY <2>1, <2>2, <2>3, <2>4, <2>5, <2>6, <2>7 DEF Next, Actor
  <1>2. CASE events' = events
    BY <1>0, <1>1, <1>2 DEF RunsKnown
  <1>3. ASSUME NEW kind, NEW x, events' = Append(events, Event(kind, x))
        PROVE  RunsKnown'
    <2> DEFINE e == Event(kind, x)
    <2>1. e.run = starts /\ events' = Append(events, e)
      BY <1>3 DEF Event
    <2> HIDE DEF e
    <2> QED
      BY <1>0, <1>1, <2>1 DEF RunsKnown
  <1>4. events' = events \/ \E kind, x : events' = Append(events, Event(kind, x))
    BY RecordSteps DEF ServerInv, Log, LogTorn, WritePayload, ExportBundle, CloseIndex, CloseFile,
       OpenRecords, recordVars
  <1> QED
    BY <1>2, <1>3, <1>4

(* LogTellsScheduler holds for any number of requests, exchanges, workers  *)
(* and starts of the process: StartOutboundScheduler,                      *)
(* StopOutboundScheduler and the two shutdowns leave, among the lines of   *)
(* the running process, a start that no stop follows exactly when          *)
(* s.schedulerCancel is set.                                               *)
THEOREM SchedulerTold == Spec => []LogTellsScheduler
  <1>1. Init => LogTellsScheduler /\ RunsKnown
    BY DEF Init, RecordsInit, LogTellsScheduler, StartStands, Logged, RunsKnown, schedulerOn
  <1>2. ServerInv /\ RunsKnown /\ LogTellsScheduler /\ [Next]_vars => LogTellsScheduler'
    <2> SUFFICES ASSUME ServerInv, RunsKnown, LogTellsScheduler, [Next]_vars, Running', fileOpen'
                 PROVE  schedulerOn' <=> StartStands'
      BY DEF LogTellsScheduler
    <2>0. events \in Seq(Events) /\ starts \in Nat
      BY DEF ServerInv, RecordsTyped, ProcTyped
    <2>1. CASE StartAgain
      <3>1. starts' = starts + 1 /\ events' = events /\ schedulerCancel' = "nil"
        BY <2>1 DEF StartAgain, OpenRecords, ServerInv, ShutInv
      <3>2. \A k \in DOMAIN events : events[k].run # starts + 1
        <4>1. \A e \in Events : e.run \in Nat
          BY DEF Events
        <4>2. \A k \in DOMAIN events : events[k].run \in Nat
          BY <2>0, <4>1
        <4> QED
          BY <2>0, <4>2 DEF RunsKnown
      <3> QED
        BY <3>1, <3>2 DEF StartStands, Logged, schedulerOn
    <2> SUFFICES ASSUME ~StartAgain PROVE schedulerOn' <=> StartStands'
      BY <2>1
    <2>2. Running /\ starts' = starts /\ fileOpen /\ (schedulerOn <=> StartStands)
      BY SchedulerSteps DEF LogTellsScheduler
    <2>a. \A kind, x : Event(kind, x).kind = kind /\ Event(kind, x).run = starts
      BY DEF Event
    <2>3. CASE UNCHANGED <<events, schedulerCancel>>
      BY <2>2, <2>3 DEF StartStands, Logged, schedulerOn
    <2>4. ASSUME NEW j, StartOutboundScheduler(j) PROVE schedulerOn' <=> StartStands'
      <3>1. CASE schedulerOn
        <4>1. UNCHANGED <<events, schedulerCancel>>
          BY <2>4, <3>1 DEF StartOutboundScheduler, recordVars
        <4> QED
          BY <2>3, <4>1
      <3>2. CASE ~schedulerOn
        <4>1. events' = Append(events, Event("scheduler started", 0)) /\ schedulerCancel' \in Worker
          BY <2>2, <2>4, <3>2 DEF StartOutboundScheduler, Log
        <4>2. schedulerOn'
          BY <4>1, ServerAssumption DEF ServerAssumption, schedulerOn
        <4> QED
          BY <2>0, <2>2, <2>a, <4>1, <4>2, StartStandsAppend
      <3> QED
        BY <3>1, <3>2
    <2>5. CASE StopOutboundScheduler
      <3>1. CASE ~schedulerOn
        <4>1. UNCHANGED <<events, schedulerCancel>>
          BY <2>5, <3>1 DEF StopOutboundScheduler, recordVars, schedulerOn
        <4> QED
          BY <2>3, <4>1
      <3>2. CASE schedulerOn
        <4>1. ~schedulerOn' /\ events' = Append(events, Event("scheduler stopped", 0))
          BY <2>2, <2>5, <3>2 DEF StopOutboundScheduler, Log, schedulerOn
        <4> QED
          BY <2>0, <2>2, <2>a, <4>1, StartStandsAppend
      <3> QED
        BY <3>1, <3>2
    <2>6. CASE /\ schedulerCancel' = schedulerCancel
               /\ \E kind \in EventKind \ {"scheduler started", "scheduler stopped"},
                     x \in 0..MaxExchanges : events' = Append(events, Event(kind, x))
      <3>1. PICK kind \in EventKind \ {"scheduler started", "scheduler stopped"},
                 x \in 0..MaxExchanges : events' = Append(events, Event(kind, x))
        BY <2>6
      <3>2. StartStands' <=> StartStands
        BY <2>0, <2>2, <2>a, <3>1, StartStandsAppend
      <3> QED
        BY <2>2, <2>6, <3>2 DEF schedulerOn
    <2> QED
      BY <2>3, <2>4, <2>5, <2>6, SchedulerSteps
  <1> QED
    BY <1>1, <1>2, RunsStep, Invariant, PTL DEF Spec
=============================================================================
