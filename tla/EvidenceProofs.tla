--------------------------- MODULE EvidenceProofs ---------------------------
(***************************************************************************)
(* What TLAPS proves about the evidence of one virtual EGM: that a bundle  *)
(* holds both payloads of every complete exchange, that an answer shown    *)
(* without a warning is of an exchange that was open when the request      *)
(* shown with it was sent, and that the index and the log select the same  *)
(* events by time.                                                         *)
(***************************************************************************)
EXTENDS ServerProofs, FiniteSetTheorems, SequenceTheorems, WellFoundedInduction

(* A nonempty set of natural numbers has a least element.                  *)
LEMMA LeastNat ==
    ASSUME NEW T \in SUBSET Nat, T # {}
    PROVE  \E x \in T : \A y \in T : x <= y
  <1>1. \E x \in T : \A y \in T : ~(<<y, x>> \in OpToRel(<, Nat))
    BY WFMin, NatLessThanWellFounded
  <1>2. PICK x \in T : \A y \in T : ~(<<y, x>> \in OpToRel(<, Nat))
    BY <1>1
  <1>3. ASSUME NEW y \in T PROVE x <= y
    <2>1. ~(y < x)
      BY <1>2 DEF OpToRel
    <2> QED
      BY <2>1
  <1> QED
    BY <1>3

(* A nonempty set of numbers up to n has a greatest element, which is Max. *)
LEMMA MaxFacts ==
    ASSUME NEW n \in Nat, NEW S \in SUBSET (0..n), S # {}
    PROVE  Max(S) \in S /\ \A y \in S : Max(S) >= y
  <1> DEFINE T == {n - y : y \in S}
  <1>1. T \in SUBSET Nat /\ T # {}
    OBVIOUS
  <1>2. PICK t \in T : \A u \in T : t <= u
    BY <1>1, LeastNat
  <1>3. PICK x \in S : t = n - x
    OBVIOUS
  <1>4. ASSUME NEW y \in S PROVE x >= y
    <2>1. n - y \in T
      OBVIOUS
    <2>2. n - x <= n - y
      BY <1>2, <1>3, <2>1
    <2>3. x \in Int /\ y \in Int
      OBVIOUS
    <2> HIDE DEF T
    <2> QED
      BY <2>2, <2>3
  <1>5. \E z \in S : \A y \in S : z >= y
    BY <1>4
  <1> QED
    BY <1>5 DEF Max

-----------------------------------------------------------------------------
(* a has taken the number of an exchange.                                  *)
Underway(a) == job[a].pc \in {"begun", "sent", "replied"}

(* No exchange begins, is sent or is answered in this step: the payloads   *)
(* stay, an exchange under way goes on as it was or ends.                  *)
NoCapture ==
    /\ payloads' = payloads
    /\ exchanges' >= exchanges
    /\ \A a \in Actor : Underway(a)' =>
         /\ Underway(a) /\ job'[a].exchange = job[a].exchange
         /\ job'[a].ok => job[a].ok
         /\ job'[a].pc \in {"begun", "sent"} => job'[a] = job[a]

(* What the step does to the log and the bundle: an event that calls an    *)
(* exchange complete is of an exchange with a good answer that ends here.  *)
LogStep ==
    \/ UNCHANGED <<events, bundle>>
    \/ events' = events /\ bundle' = <<Len(events), Len(payloads)>>
    \/ /\ bundle' = bundle
       /\ \E kind \in EventKind, x \in 0..MaxExchanges :
            /\ events' = Append(events, Event(kind, x))
            /\ kind = "complete" =>
                 \E a \in Actor : /\ job[a].pc = "replied" /\ job[a].ok
                                  /\ job[a].exchange = x /\ ~Underway(a)'

(* The number of an event that is not of an exchange.                      *)
LEMMA ZeroBounded == 0 \in 0..MaxExchanges
  BY ServerAssumption DEF ServerAssumption

(* A step in which the log gets an event that calls no exchange complete.  *)
LEMMA LogStepPlain ==
    ASSUME NEW kind \in EventKind \ {"complete"}, NEW x \in 0..MaxExchanges,
           Log(Event(kind, x)) \/ LogTorn(Event(kind, x))
    PROVE  LogStep /\ payloads' = payloads
  <1>1. kind \in EventKind /\ kind # "complete"
    BY Zenon DEF EventKind
  <1>2. \/ UNCHANGED <<events, bundle>>
        \/ events' = Append(events, Event(kind, x)) /\ bundle' = bundle
    BY DEF Log, LogTorn
  <1>3. payloads' = payloads
    BY DEF Log, LogTorn
  <1> QED
    BY <1>1, <1>2, <1>3 DEF LogStep

(* A step in which the outcome of an exchange that ends is logged.         *)
LEMMA LogStepOutcome ==
    ASSUME ServerInv, NEW a \in Actor, ToLog(a), ~Underway(a)',
           Log(Outcome(a)) \/ LogTorn(Outcome(a))
    PROVE  LogStep /\ payloads' = payloads
  <1> DEFINE kind == IF job[a].ok THEN "complete" ELSE "failed"
             x == job[a].exchange
  <1>1. x \in 0..MaxExchanges /\ kind \in EventKind /\ (kind = "complete" => job[a].ok)
    BY DEF EventKind, ServerInv, ProcTyped, Jobs
  <1>2. Outcome(a) = Event(kind, x) /\ job[a].pc = "replied"
    BY DEF Outcome, ToLog
  <1> HIDE DEF kind
  <1>3. \/ UNCHANGED <<events, bundle>>
        \/ events' = Append(events, Event(kind, x)) /\ bundle' = bundle
    BY <1>2 DEF Log, LogTorn
  <1>4. payloads' = payloads
    BY DEF Log, LogTorn
  <1> QED
    BY <1>1, <1>2, <1>3, <1>4 DEF LogStep

(* A start or a stop of the scheduler.                                     *)
LEMMA LogStepScheduler ==
    ASSUME NEW j, StartOutboundScheduler(j) \/ StopOutboundScheduler
    PROVE  LogStep /\ payloads' = payloads
  <1>1. \/ UNCHANGED recordVars
        \/ Log(Event("scheduler started", 0)) \/ Log(Event("scheduler stopped", 0))
    BY DEF StartOutboundScheduler, StopOutboundScheduler, recordVars
  <1>2. ASSUME UNCHANGED recordVars PROVE LogStep /\ payloads' = payloads
    BY <1>2 DEF LogStep, recordVars
  <1> QED
    BY <1>1, <1>2, LogStepPlain, ZeroBounded DEF EventKind

(* A process that has ended has no exchange under way.                     *)
LEMMA DiesEnds ==
    ASSUME ServerInv, Dies, payloads' = payloads
    PROVE  NoCapture /\ \A a \in Actor : ~Underway(a)'
  <1>1. \A a \in Actor : ~Underway(a)'
    BY FreshTyped DEF Dies, Underway
  <1>2. exchanges' >= exchanges
    BY DEF Dies, ServerInv, ProcTyped
  <1> QED
    BY <1>1, <1>2 DEF NoCapture

(* Every step begins an exchange, captures a request or an answer, or      *)
(* captures nothing.                                                       *)
LEMMA ExchangeSteps ==
    ASSUME ServerInv, [Next]_vars
    PROVE  \/ \E a \in Actor : Begin(a) \/ Send(a) \/ Reply(a)
           \/ NoCapture /\ LogStep
  <1> USE DEF ServerInv
  <1>0. exchanges \in Nat /\ exchanges >= exchanges
    BY DEF ProcTyped
  <1>a. ASSUME job' = job, exchanges' = exchanges, payloads' = payloads
        PROVE  NoCapture
    BY <1>a, <1>0 DEF NoCapture, Underway
  <1>b. ASSUME UNCHANGED recordVars PROVE LogStep /\ payloads' = payloads
    BY <1>b DEF LogStep, recordVars
  <1>c. ASSUME \A a \in Actor : job'[a] = job[a] \/ job'[a].pc \in {"none", "idle"},
               exchanges' = exchanges, payloads' = payloads
        PROVE  NoCapture
    BY <1>0, <1>c DEF NoCapture, Underway
  <1>d. JobAt("idle", 0).pc = "idle" /\ NoJob.pc = "none" /\ NoJob \in Jobs
    BY JobTyped, ZeroBounded DEF NoJob
  <1>1. CASE Start
    <2>1. CASE startControl \/ startWire
      BY <1>a, <1>b, <2>1 DEF startControl, startWire, Listen
    <2>2. CASE StartFails
      BY <1>b, <2>2, DiesEnds DEF StartFails
    <2>3. CASE StartWatched
      <3>1. LogStep /\ payloads' = payloads
        BY <1>b, <2>3, LogStepScheduler DEF StartWatched, AutoStarts, recordVars, LogStep
      <3>2. \A a \in Actor : job'[a] = job[a] \/ job'[a].pc \in {"none", "idle"}
        <4>1. job' = job \/ StartOutboundScheduler(job)
          BY <2>3 DEF StartWatched, AutoStarts
        <4> QED
          BY <1>d, <4>1, StartKeepsJobs DEF ProcTyped
      <3>3. exchanges' = exchanges
        BY <2>3 DEF StartWatched
      <3> QED
        BY <1>c, <3>1, <3>2, <3>3
    <2>4. CASE StartSessionEngine
      <3>1. LogStep /\ payloads' = payloads
        BY <2>4, LogStepPlain, ZeroBounded DEF StartSessionEngine, EventKind
      <3>2. /\ exchanges' = exchanges
            /\ \E p \in {"none", "idle"} : job' = [job EXCEPT !["engine"].pc = p]
        BY <2>4 DEF StartSessionEngine
      <3> QED
        BY <1>c, <3>1, <3>2 DEF ProcTyped, Jobs
    <2> QED
      BY <1>1, <2>1, <2>2, <2>3, <2>4 DEF Start
  <1>2. ASSUME NEW r \in Routine, Shutdown(r) PROVE NoCapture /\ LogStep
    <2>1. job' = job /\ exchanges' = exchanges
      BY <1>2 DEF Shutdown, ShutdownStops, ShutdownClosesControl,
         ShutdownDrainsControl, ShutdownDrainsWire, ShutdownClosesFile
    <2>2. LogStep /\ payloads' = payloads
      BY <1>2, <1>b, LogStepScheduler DEF Shutdown, ShutdownStops,
         ShutdownClosesControl, ShutdownDrainsControl, ShutdownDrainsWire, ShutdownClosesFile,
         CloseIndex, CloseFile, LogStep
    <2> QED
      BY <1>a, <2>1, <2>2
  <1>3. CASE MainReturns
    BY <1>b, <1>3, DiesEnds DEF MainReturns
  <1>4. ASSUME NEW a \in Actor, NoReply(a) PROVE NoCapture /\ LogStep
    <2>1. /\ job[a].pc = "sent" /\ job'[a] = [job[a] EXCEPT !.pc = "replied"]
          /\ \A b \in Actor \ {a} : job'[b] = job[b]
          /\ exchanges' = exchanges /\ UNCHANGED recordVars
      BY <1>4 DEF NoReply, ProcTyped
    <2>2. /\ job'[a].pc = "replied" /\ job'[a].exchange = job[a].exchange
          /\ job'[a].ok = job[a].ok
      BY <2>1 DEF ProcTyped, Jobs
    <2> QED
      BY <1>0, <1>b, <2>1, <2>2 DEF NoCapture, Underway
  <1>5. ASSUME NEW a \in Actor, Finish(a) PROVE NoCapture /\ LogStep
    <2>1. /\ \E next \in {"none", "idle"} :
                job'[a] = JobAt(next, 0)
          /\ \A b \in Actor \ {a} : job'[b] = job[b]
          /\ exchanges' = exchanges
      BY <1>5 DEF Finish, After, ProcTyped
    <2>2. ~Underway(a)'
      BY <2>1, JobTyped, ZeroBounded DEF Underway
    <2>3. LogStep /\ payloads' = payloads
      BY <1>5, <1>b, <2>2, LogStepOutcome DEF Finish
    <2> QED
      BY <1>0, <2>1, <2>2, <2>3 DEF NoCapture, Underway
  <1>6. ASSUME NEW a \in Worker \cup {"engine"}, Returns(a) PROVE NoCapture /\ LogStep
    <2>1. /\ \A b \in Actor : job'[b] = job[b] \/ job'[b].pc = "none"
          /\ exchanges' = exchanges
      BY <1>6, <1>d DEF Returns, ProcTyped, Actor
    <2> QED
      BY <1>6, <1>b, <1>c, <2>1 DEF Returns
  <1>7. ASSUME NEW a \in Handler, Refuse(a) PROVE NoCapture /\ LogStep
    <2>1. /\ \A b \in Actor : job'[b] = job[b] \/ job'[b].pc = "none"
          /\ exchanges' = exchanges
      BY <1>7, <1>d DEF Refuse, ProcTyped
    <2>2. job[a].exchange \in 0..MaxExchanges
      BY DEF ProcTyped, Jobs, Actor
    <2>3. LogStep /\ payloads' = payloads
      BY <1>7, <1>b, <2>2, LogStepPlain DEF Refuse, EventKind
    <2> QED
      BY <1>c, <2>1, <2>3
  <1>8. ASSUME NEW a \in Handler, ControlAnswers(a) PROVE NoCapture /\ LogStep
    <2>1. LogStep /\ payloads' = payloads /\ exchanges' = exchanges
      BY <1>8, LogStepScheduler DEF ControlAnswers, ExportBundle, LogStep
    <2> DEFINE answered == [job EXCEPT ![a] = NoJob]
    <2>2. /\ answered \in [Actor -> Jobs]
          /\ \A b \in Actor : answered[b] = job[b] \/ answered[b].pc = "none"
      BY <1>d DEF ProcTyped
    <2>3. job' = answered \/ StartOutboundScheduler(answered)
      BY <1>8 DEF ControlAnswers
    <2> HIDE DEF answered
    <2>4. \A b \in Actor : job'[b] = answered[b] \/ job'[b].pc = "idle"
      BY <1>d, <2>2, <2>3, StartKeepsJobs
    <2> QED
      BY <1>c, <2>1, <2>2, <2>4
  <1>9. CASE Interrupt
    BY <1>9, <1>a, <1>b DEF Interrupt
  <1>10. CASE Killed
    <2>1. Dies
      BY <1>10 DEF Killed
    <2>2. CASE UNCHANGED recordVars
      BY <1>b, <2>1, <2>2, DiesEnds
    <2>3. ASSUME NEW e \in AboutToLog, LogTorn(e) PROVE NoCapture /\ LogStep
      <3>1. payloads' = payloads
        BY <2>3 DEF LogTorn
      <3>2. NoCapture /\ \A a \in Actor : ~Underway(a)'
        BY <2>1, <3>1, DiesEnds
      <3>3. \/ \E a \in Actor : ToLog(a) /\ e = Outcome(a)
            \/ \E kind \in EventKind \ {"complete"}, x \in 0..MaxExchanges : e = Event(kind, x)
        <4>1. \A a \in Begun(Wire) : job[a].exchange \in 0..MaxExchanges
          BY DEF Begun, ProcTyped, Jobs, Actor, Handler
        <4> QED
          BY <2>3, <4>1, ZeroBounded DEF AboutToLog, SchedulerEvent, EventKind
      <3>4. LogStep
        BY <2>3, <3>2, <3>3, LogStepOutcome, LogStepPlain
      <3> QED
        BY <3>2, <3>4
    <2> QED
      BY <1>10, <2>2, <2>3 DEF Killed
  <1>11. CASE StartAgain
    BY <1>11, <1>a DEF StartAgain, OpenRecords, LogStep
  <1>12. CASE UNCHANGED vars
    BY <1>12, <1>a, <1>b DEF vars, procVars, recordVars
  <1> QED
    BY <1>1, <1>2, <1>3, <1>4, <1>5, <1>6, <1>7, <1>8, <1>9, <1>10, <1>11, <1>12
       DEF Next, Act

-----------------------------------------------------------------------------
(* The payloads of an exchange.                                            *)
Positions(x) == {p \in DOMAIN payloads : payloads[p].exchange = x}

Once(x) == \E p \in DOMAIN payloads : Positions(x) = {p}

Twice(x) == \E p, q \in DOMAIN payloads : p # q /\ Positions(x) = {p, q}

(* Exchanges are numbered as they begin, and no two senders share one.     *)
OwnNumbers ==
    /\ \A p \in DOMAIN payloads : payloads[p].exchange <= exchanges
    /\ \A a \in Actor : Underway(a) => job[a].exchange <= exchanges
    /\ \A a, b \in Actor : Underway(a) /\ Underway(b) /\ a # b
                             => job[a].exchange # job[b].exchange

(* What of an exchange under way is captured.                              *)
CapturedSoFar ==
    \A a \in Actor :
        /\ job[a].pc = "begun" => ~job[a].ok /\ Positions(job[a].exchange) = {}
        /\ job[a].pc = "sent" => ~job[a].ok /\ Once(job[a].exchange)
        /\ job[a].pc = "replied" /\ job[a].ok => Twice(job[a].exchange)

(* An exchange that an event calls complete is over, and both its payloads *)
(* are captured.                                                           *)
Completed == {k \in DOMAIN events : events[k].kind = "complete"}

CompleteIsOver ==
    \A k \in Completed :
        /\ events[k].exchange <= exchanges
        /\ Twice(events[k].exchange)
        /\ \A a \in Actor : Underway(a) => job[a].exchange # events[k].exchange

(* They were there when the bundle was made, if the event was.             *)
BundleHolds ==
    /\ bundle \in (0..Len(events)) \X (0..Len(payloads))
    /\ \A k \in Completed :
         k <= bundle[1] => \A p \in Positions(events[k].exchange) : p <= bundle[2]

CaptureInv == OwnNumbers /\ CapturedSoFar /\ CompleteIsOver /\ BundleHolds

(* The payloads of an exchange once there is one more payload.             *)
LEMMA PositionsAppend ==
    ASSUME payloads \in Seq(Payloads), NEW r, payloads' = Append(payloads, r), NEW x
    PROVE  /\ Len(payloads) \in Nat /\ Len(payloads)' = Len(payloads) + 1
           /\ DOMAIN payloads = 1..Len(payloads) /\ DOMAIN payloads' = 1..(Len(payloads) + 1)
           /\ \A p \in DOMAIN payloads : payloads'[p] = payloads[p]
           /\ payloads'[Len(payloads) + 1] = r
           /\ Positions(x) \subseteq DOMAIN payloads
           /\ Positions(x)' = IF r.exchange = x THEN Positions(x) \cup {Len(payloads) + 1}
                              ELSE Positions(x)
  <1>1. /\ Len(payloads) \in Nat /\ Len(payloads)' = Len(payloads) + 1
        /\ DOMAIN payloads = 1..Len(payloads) /\ DOMAIN payloads' = 1..(Len(payloads) + 1)
        /\ \A p \in DOMAIN payloads : payloads'[p] = payloads[p]
        /\ payloads'[Len(payloads) + 1] = r
    OBVIOUS
  <1> QED
    BY <1>1 DEF Positions

(* The types of the numbers the invariant compares.                        *)
LEMMA NumbersTyped ==
    ASSUME ServerInv
    PROVE  /\ exchanges \in Nat /\ MaxExchanges \in Nat
           /\ \A p \in DOMAIN payloads : payloads[p].exchange \in Nat
           /\ \A a \in Actor : job[a].exchange \in Nat
           /\ \A k \in DOMAIN events : events[k].exchange \in Nat
  <1>1. \A p \in DOMAIN payloads : payloads[p] \in Payloads
    BY DEF ServerInv, RecordsTyped
  <1>2. \A k \in DOMAIN events : events[k] \in Events
    BY DEF ServerInv, RecordsTyped
  <1>3. \A p \in DOMAIN payloads : payloads[p].exchange \in Nat
    BY <1>1, ServerAssumption DEF Payloads, ServerAssumption
  <1>4. \A k \in DOMAIN events : events[k].exchange \in Nat
    BY <1>2, ServerAssumption DEF Events, ServerAssumption
  <1>5. exchanges \in Nat /\ MaxExchanges \in Nat /\ \A a \in Actor : job[a].exchange \in Nat
    BY ServerAssumption DEF ServerAssumption, ServerInv, ProcTyped, Jobs
  <1> QED
    BY <1>3, <1>4, <1>5

(* Without a capture the payloads of every exchange stay as they are.      *)
LEMMA CaptureKept ==
    ASSUME payloads' = payloads, NEW x
    PROVE  /\ Positions(x)' = Positions(x)
           /\ Once(x)' <=> Once(x)
           /\ Twice(x)' <=> Twice(x)
  BY DEF Positions, Once, Twice

(* A step that captures nothing keeps the parts about the senders.         *)
LEMMA NoCaptureKeeps ==
    ASSUME ServerInv, CaptureInv, NoCapture, ServerInv'
    PROVE  OwnNumbers' /\ CapturedSoFar'
  <1>1. OwnNumbers'
    BY NumbersTyped DEF CaptureInv, OwnNumbers, NoCapture, ServerInv, ProcTyped
  <1>2. ASSUME NEW a \in Actor, job'[a].pc \in {"begun", "sent"}
        PROVE  /\ ~job'[a].ok /\ job'[a].exchange = job[a].exchange
               /\ job'[a].pc = "begun" => Positions(job[a].exchange)' = {}
               /\ job'[a].pc = "sent" => Once(job[a].exchange)'
    <2>1. Underway(a)' /\ job'[a] = job[a]
      BY <1>2 DEF NoCapture, Underway
    <2>2. /\ ~job[a].ok
          /\ job[a].pc = "begun" => Positions(job[a].exchange) = {}
          /\ job[a].pc = "sent" => Once(job[a].exchange)
      BY <1>2, <2>1 DEF CaptureInv, CapturedSoFar
    <2>3. PICK x : x = job[a].exchange
      OBVIOUS
    <2>4. payloads' = payloads
      BY DEF NoCapture
    <2>5. Positions(x)' = Positions(x) /\ (Once(x)' <=> Once(x))
      BY <2>4, CaptureKept
    <2> QED
      BY <2>1, <2>2, <2>3, <2>5 DEF Once, Positions
  <1>3. ASSUME NEW a \in Actor, job'[a].pc = "replied", job'[a].ok
        PROVE  Twice(job[a].exchange)' /\ job'[a].exchange = job[a].exchange
    <2>1. Underway(a) /\ job[a].ok /\ job'[a].exchange = job[a].exchange
      BY <1>3 DEF NoCapture, Underway
    <2>2. Twice(job[a].exchange)
      BY <2>1 DEF CaptureInv, CapturedSoFar, Underway
    <2> QED
      BY <2>1, <2>2, CaptureKept DEF NoCapture
  <1>4. CapturedSoFar'
    BY <1>2, <1>3 DEF CapturedSoFar, Once, Twice, Positions
  <1> QED
    BY <1>1, <1>4

(* What an exchange that is over needs to stay so.                         *)
Over(x) == x <= exchanges /\ Twice(x) /\ \A a \in Actor : Underway(a) => job[a].exchange # x

(* Nothing that captures nothing takes an exchange up again.               *)
LEMMA OverKept ==
    ASSUME ServerInv, ServerInv', NoCapture, NEW x \in Nat, Over(x)
    PROVE  x <= exchanges' /\ \A a \in Actor : Underway(a)' => job'[a].exchange # x
  <1>1. x <= exchanges'
    BY NumbersTyped DEF Over, NoCapture, ServerInv, ProcTyped
  <1>2. \A a \in Actor : Underway(a)' => job'[a].exchange # x
    BY DEF Over, NoCapture
  <1> QED
    BY <1>1, <1>2

(* The lines that call an exchange complete, once there is one more line.  *)
LEMMA CompletedAppend ==
    ASSUME NEW e, events \in Seq(Events), events' = Append(events, e)
    PROVE  /\ Completed \subseteq 1..Len(events)
           /\ Completed' = IF e.kind = "complete" THEN Completed \cup {Len(events) + 1}
                           ELSE Completed
  <1>1. /\ Len(events) \in Nat /\ DOMAIN events = 1..Len(events)
        /\ DOMAIN events' = 1..(Len(events) + 1)
        /\ \A k \in 1..Len(events) : events'[k] = events[k]
        /\ events'[Len(events) + 1] = e
    OBVIOUS
  <1> QED
    BY <1>1 DEF Completed

(* A step that captures nothing keeps the parts about the log and the      *)
(* bundle: what it calls complete is over with it.                         *)
LEMMA LogStepKeeps ==
    ASSUME ServerInv, ServerInv', CaptureInv, NoCapture, LogStep
    PROVE  CompleteIsOver' /\ BundleHolds'
  <1> DEFINE Done == Completed
  <1>a. /\ Done \subseteq 1..Len(events) /\ Len(events) \in Nat
        /\ DOMAIN events = 1..Len(events)
    BY DEF Completed, ServerInv, RecordsTyped
  <1>b. /\ bundle \in (0..Len(events)) \X (0..Len(payloads)) /\ Len(payloads) \in Nat
        /\ \A k \in Done : k <= bundle[1] =>
             \A p \in Positions(events[k].exchange) : p <= bundle[2]
    BY DEF CaptureInv, BundleHolds, ServerInv, RecordsTyped
  <1>c. \A k \in Done : events[k].exchange \in Nat /\ Over(events[k].exchange)
    BY NumbersTyped, <1>a DEF CaptureInv, CompleteIsOver, Over
  <1>d. payloads' = payloads
    BY DEF NoCapture
  <1>e. \A k \in Done : /\ events[k].exchange <= exchanges'
                        /\ Twice(events[k].exchange)
                        /\ \A a \in Actor : Underway(a)' => job'[a].exchange # events[k].exchange
    BY <1>c, OverKept DEF Over
  <1>1. CASE UNCHANGED <<events, bundle>>
    BY <1>1, <1>b, <1>d, <1>e DEF CompleteIsOver, BundleHolds, Completed, Positions, Twice
  <1>2. CASE events' = events /\ bundle' = <<Len(events), Len(payloads)>>
    <2>1. CompleteIsOver'
      BY <1>2, <1>d, <1>e DEF CompleteIsOver, Completed, Twice, Positions
    <2>2. \A x : Positions(x)' \subseteq 1..Len(payloads)
      BY <1>d DEF Positions, ServerInv, RecordsTyped
    <2>3. bundle' \in (0..Len(events)) \X (0..Len(payloads))
          /\ bundle'[1] = Len(events) /\ bundle'[2] = Len(payloads)
      BY <1>2, <1>a, <1>b
    <2>4. BundleHolds'
      BY <1>2, <1>d, <1>b, <2>2, <2>3 DEF BundleHolds, Completed
    <2> QED
      BY <2>1, <2>4
  <1>3. CASE bundle' = bundle /\ \E kind \in EventKind, x \in 0..MaxExchanges :
            /\ events' = Append(events, Event(kind, x))
            /\ kind = "complete" =>
                 \E a \in Actor : /\ job[a].pc = "replied" /\ job[a].ok
                                  /\ job[a].exchange = x /\ ~Underway(a)'
    <2>1. PICK kind \in EventKind, x \in 0..MaxExchanges :
            /\ events' = Append(events, Event(kind, x))
            /\ kind = "complete" =>
                 \E a \in Actor : /\ job[a].pc = "replied" /\ job[a].ok
                                  /\ job[a].exchange = x /\ ~Underway(a)'
      BY <1>3
    <2> DEFINE e == Event(kind, x)
               n == Len(events)
    <2>2. e.kind = kind /\ e.exchange = x /\ events' = Append(events, e)
          /\ events \in Seq(Events)
      BY <2>1 DEF Event, ServerInv, RecordsTyped
    <2> HIDE DEF e
    <2>3. /\ events'[n + 1] = e /\ Len(events') = n + 1 /\ n \in Nat
          /\ \A k \in 1..n : events'[k] = events[k]
      BY <2>2
    <2>4. /\ kind = "complete" => Done' = Done \cup {n + 1}
          /\ kind # "complete" => Done' = Done
      BY <2>2, CompletedAppend, Zenon
    <2>5. ASSUME kind = "complete"
          PROVE  /\ x <= exchanges' /\ Twice(x)'
                 /\ \A a \in Actor : Underway(a)' => job'[a].exchange # x
      <3>1. PICK a \in Actor : /\ job[a].pc = "replied" /\ job[a].ok
                               /\ job[a].exchange = x /\ ~Underway(a)'
        BY <2>1, <2>5
      <3>2. x <= exchanges /\ Twice(x) /\ Underway(a)
        BY <3>1 DEF CaptureInv, OwnNumbers, CapturedSoFar, Underway
      <3>3. \A b \in Actor : Underway(b)' => job'[b].exchange # x
        BY <3>1, <3>2 DEF CaptureInv, OwnNumbers, NoCapture
      <3>4. x <= exchanges'
        BY <3>2, NumbersTyped DEF NoCapture, ServerInv, ProcTyped
      <3> QED
        BY <1>d, <3>2, <3>3, <3>4, CaptureKept
    <2>6. \A k \in Done' : \/ k \in Done /\ events'[k].exchange = events[k].exchange
                           \/ /\ k = n + 1 /\ kind = "complete"
                              /\ events'[k].exchange = x
      BY <1>a, <2>2, <2>3, <2>4
    <2>7. CompleteIsOver'
      <3> SUFFICES ASSUME NEW k \in Done'
                   PROVE  /\ events'[k].exchange <= exchanges'
                          /\ Twice(events[k].exchange)'
                          /\ \A a \in Actor : Underway(a)' => job'[a].exchange # events'[k].exchange
        BY DEF CompleteIsOver
      <3>1. CASE k \in Done /\ events'[k].exchange = events[k].exchange
        BY <1>d, <1>e, <3>1 DEF Twice, Positions
      <3>2. CASE kind = "complete" /\ events'[k].exchange = x
        BY <2>5, <3>2 DEF Twice, Positions
      <3> QED
        BY <2>6, <3>1, <3>2
    <2>8. BundleHolds'
      <3>1. bundle' \in (0..Len(events')) \X (0..Len(payloads'))
        BY <1>3, <1>b, <1>d, <2>3
      <3>2. ASSUME NEW k \in Done', k <= bundle'[1],
                   NEW p \in Positions(events[k].exchange)'
            PROVE  p <= bundle'[2]
        <4>1. k # n + 1
          BY <1>3, <1>b, <2>3, <3>2
        <4>2. k \in Done /\ events'[k].exchange = events[k].exchange
          BY <2>6, <4>1
        <4>3. p \in Positions(events[k].exchange)
          BY <1>d, <4>2 DEF Positions
        <4> QED
          BY <1>3, <1>b, <3>2, <4>2, <4>3
      <3> QED
        BY <3>1, <3>2 DEF BundleHolds
    <2> QED
      BY <2>7, <2>8
  <1> QED
    BY <1>1, <1>2, <1>3 DEF LogStep

(* One more payload leaves the payloads of every other exchange alone.     *)
LEMMA OthersKept ==
    ASSUME payloads \in Seq(Payloads), NEW r, payloads' = Append(payloads, r),
           NEW y, r.exchange # y
    PROVE  /\ Positions(y)' = Positions(y)
           /\ Once(y) => Once(y)'
           /\ Twice(y) => Twice(y)'
  <1>1. Positions(y)' = Positions(y) /\ DOMAIN payloads \subseteq DOMAIN payloads'
    BY PositionsAppend
  <1> QED
    BY <1>1 DEF Once, Twice

(* Nor does it disturb the log and the bundle, if its exchange is under    *)
(* way or begins, since none of those is complete.                         *)
LEMMA CaptureKeepsLog ==
    ASSUME ServerInv, CaptureInv, UNCHANGED <<events, bundle>>,
           NEW r, payloads' = Append(payloads, r),
           NEW a \in Actor, job'[a].exchange = r.exchange,
           \A b \in Actor : b # a => job'[b] = job[b],
           exchanges' \in Nat, exchanges' >= exchanges,
           \A k \in Completed : events[k].exchange # r.exchange
    PROVE  CompleteIsOver' /\ BundleHolds'
  <1> DEFINE Done == Completed
  <1>0. payloads \in Seq(Payloads)
    BY DEF ServerInv, RecordsTyped
  <1>1. Done' = Done /\ Done \subseteq DOMAIN events
    BY DEF Completed
  <1>2. ASSUME NEW k \in Done
        PROVE  /\ events[k].exchange <= exchanges
               /\ Twice(events[k].exchange)
               /\ \A b \in Actor : Underway(b) => job[b].exchange # events[k].exchange
    BY DEF CaptureInv, CompleteIsOver
  <1>3. CompleteIsOver'
    <2> SUFFICES ASSUME NEW k \in Done, NEW x, x = events[k].exchange
                 PROVE  /\ x <= exchanges' /\ Twice(x)'
                        /\ \A b \in Actor : Underway(b)' => job'[b].exchange # x
      BY <1>1 DEF CompleteIsOver, Twice, Positions
    <2>1. x <= exchanges'
      BY <1>1, <1>2, NumbersTyped
    <2>2. Twice(x)'
      BY <1>0, <1>2, OthersKept
    <2>3. \A b \in Actor : Underway(b)' => job'[b].exchange # x
      BY <1>2 DEF Underway
    <2> QED
      BY <2>1, <2>2, <2>3
  <1>4. BundleHolds'
    <2>1. /\ bundle \in (0..Len(events)) \X (0..Len(payloads)) /\ Len(payloads) \in Nat
          /\ Len(payloads)' = Len(payloads) + 1
      BY <1>0, PositionsAppend DEF CaptureInv, BundleHolds
    <2>2. bundle' \in (0..Len(events)') \X (0..Len(payloads)')
      BY <2>1
    <2>3. ASSUME NEW k \in Done, k <= bundle[1], NEW p \in Positions(events[k].exchange)'
          PROVE  p <= bundle[2]
      <3>1. PICK x : x = events[k].exchange
        OBVIOUS
      <3>2. p \in Positions(x)'
        BY <2>3, <3>1 DEF Positions
      <3>3. p \in Positions(x)
        BY <1>0, <3>1, <3>2, OthersKept
      <3> QED
        BY <2>3, <3>1, <3>3 DEF CaptureInv, BundleHolds
    <2> QED
      BY <1>1, <2>2, <2>3 DEF BundleHolds
  <1> QED
    BY <1>3, <1>4

(* An exchange that begins has a new number, of which nothing is captured. *)
LEMMA BeginNumbers ==
    ASSUME ServerInv, ServerInv', CaptureInv, NEW a \in Actor, Begin(a)
    PROVE  CaptureInv'
  <1>0. PICK x : x = exchanges + 1
    OBVIOUS
  <1>1. /\ UNCHANGED <<payloads, events, bundle>>
        /\ exchanges' = x /\ exchanges \in Nat /\ x \in 0..MaxExchanges
        /\ job' = [job EXCEPT ![a] = JobAt("begun", x)]
    BY <1>0 DEF Begin, recordVars, ServerInv, ProcTyped
  <1>2. /\ job'[a].pc = "begun" /\ job'[a].exchange = x /\ ~job'[a].ok
        /\ \A b \in Actor : b # a => job'[b] = job[b]
    <2>1. JobAt("begun", x).pc = "begun" /\ JobAt("begun", x).exchange = x
          /\ ~JobAt("begun", x).ok
      BY DEF JobAt
    <2>2. job \in [Actor -> Jobs]
      BY DEF ServerInv, ProcTyped
    <2> QED
      BY <1>1, <2>1, <2>2
  <1>3. Positions(x) = {}
    BY <1>0, <1>1, NumbersTyped DEF Positions, CaptureInv, OwnNumbers
  <1>4. ASSUME NEW b \in Actor, b # a, Underway(b)'
        PROVE  Underway(b) /\ job'[b] = job[b] /\ job[b].exchange <= exchanges
               /\ job[b].exchange \in Nat
    BY <1>2, <1>4, NumbersTyped DEF Underway, CaptureInv, OwnNumbers
  <1>5. OwnNumbers'
    <2>1. \A p \in DOMAIN payloads' : payloads'[p].exchange <= exchanges'
      BY <1>0, <1>1, NumbersTyped DEF CaptureInv, OwnNumbers
    <2>2. \A b \in Actor : Underway(b)' => job'[b].exchange <= exchanges'
      BY <1>0, <1>1, <1>2, <1>4
    <2>3. \A b, c \in Actor : Underway(b)' /\ Underway(c)' /\ b # c
                                => job'[b].exchange # job'[c].exchange
      BY <1>0, <1>1, <1>2, <1>4 DEF CaptureInv, OwnNumbers
    <2> QED
      BY <2>1, <2>2, <2>3 DEF OwnNumbers
  <1>6. \A y : /\ Positions(y)' = Positions(y) /\ (Once(y)' <=> Once(y))
               /\ (Twice(y)' <=> Twice(y))
    BY <1>1, CaptureKept
  <1>7. CapturedSoFar'
    <2> SUFFICES ASSUME NEW b \in Actor
                 PROVE  /\ job'[b].pc = "begun" => ~job'[b].ok /\ Positions(job[b].exchange)' = {}
                        /\ job'[b].pc = "sent" => ~job'[b].ok /\ Once(job[b].exchange)'
                        /\ job'[b].pc = "replied" /\ job'[b].ok => Twice(job[b].exchange)'
      BY DEF CapturedSoFar
    <2>1. CASE b = a
      BY <1>1, <1>2, <1>3, <2>1 DEF Positions
    <2>2. CASE b # a
      <3>1. PICK y : y = job[b].exchange /\ job'[b] = job[b]
        BY <1>2, <2>2
      <3>2. /\ job[b].pc = "begun" => ~job[b].ok /\ Positions(y) = {}
            /\ job[b].pc = "sent" => ~job[b].ok /\ Once(y)
            /\ job[b].pc = "replied" /\ job[b].ok => Twice(y)
        BY <3>1 DEF CaptureInv, CapturedSoFar
      <3>3. Positions(y)' = Positions(y) /\ (Once(y)' <=> Once(y)) /\ (Twice(y)' <=> Twice(y))
        BY <1>6
      <3>4. (job[b].exchange)' = y
        BY <3>1
      <3>5. Positions(job[b].exchange)' = Positions(y)' /\ (Once(job[b].exchange)' <=> Once(y)')
            /\ (Twice(job[b].exchange)' <=> Twice(y)')
        BY <3>1, <3>4 DEF Once, Twice, Positions
      <3> QED
        BY <3>1, <3>2, <3>3, <3>5
    <2> QED
      BY <2>1, <2>2
  <1>8. CompleteIsOver'
    <2> SUFFICES ASSUME NEW k \in Completed, NEW y, y = events[k].exchange
                 PROVE  /\ y <= exchanges' /\ Twice(y)'
                        /\ \A b \in Actor : Underway(b)' => job'[b].exchange # y
      BY <1>1 DEF CompleteIsOver, Completed, Twice, Positions
    <2>1. /\ y <= exchanges /\ Twice(y) /\ y \in Nat
          /\ \A b \in Actor : Underway(b) => job[b].exchange # y
      BY NumbersTyped DEF CaptureInv, CompleteIsOver, Completed
    <2>2. \A b \in Actor : Underway(b)' => job'[b].exchange # y
      BY <1>0, <1>1, <1>2, <1>4, <2>1
    <2> QED
      BY <1>0, <1>1, <1>6, <2>1, <2>2
  <1>9. BundleHolds'
    BY <1>1 DEF CaptureInv, BundleHolds, Completed, Positions
  <1> QED
    BY <1>5, <1>7, <1>8, <1>9 DEF CaptureInv

(* A capture is one more payload of an exchange under way: what the others *)
(* have captured stays, and so does the log.                               *)
LEMMA CaptureStep ==
    ASSUME ServerInv, CaptureInv, NEW a \in Actor, NEW x, x = job[a].exchange, Underway(a),
           NEW r, r.exchange = x, payloads' = Append(payloads, r),
           UNCHANGED <<events, bundle, exchanges>>,
           Underway(a)', job'[a].exchange = x,
           \A b \in Actor : b # a => job'[b] = job[b],
           job'[a].pc # "begun",
           job'[a].pc = "sent" => ~job'[a].ok /\ Once(x)',
           job'[a].pc = "replied" /\ job'[a].ok => Twice(x)'
    PROVE  CaptureInv'
  <1> DEFINE n == Len(payloads)
  <1>1. payloads \in Seq(Payloads) /\ exchanges \in Nat
    BY DEF ServerInv, RecordsTyped, ProcTyped
  <1>2. x <= exchanges /\ x \in Nat
    BY NumbersTyped DEF CaptureInv, OwnNumbers
  <1>3. ASSUME NEW b \in Actor, b # a, Underway(b)'
        PROVE  Underway(b) /\ job'[b] = job[b] /\ job[b].exchange # x
    BY <1>3 DEF Underway, CaptureInv, OwnNumbers
  <1>4. OwnNumbers'
    <2>1. \A p \in DOMAIN payloads' : payloads'[p].exchange <= exchanges'
      <3>1. /\ DOMAIN payloads' = 1..(n + 1) /\ DOMAIN payloads = 1..n
            /\ \A p \in DOMAIN payloads : payloads'[p] = payloads[p]
            /\ payloads'[n + 1] = r /\ n \in Nat
        BY <1>1, PositionsAppend
      <3>2. \A p \in 1..n : payloads'[p].exchange <= exchanges
        BY <3>1 DEF CaptureInv, OwnNumbers
      <3> QED
        BY <1>2, <3>1, <3>2
    <2>2. \A b \in Actor : Underway(b)' => job'[b].exchange <= exchanges'
      BY <1>2, <1>3 DEF CaptureInv, OwnNumbers
    <2>3. \A b, c \in Actor : Underway(b)' /\ Underway(c)' /\ b # c
                                => job'[b].exchange # job'[c].exchange
      BY <1>3 DEF CaptureInv, OwnNumbers
    <2> QED
      BY <2>1, <2>2, <2>3 DEF OwnNumbers
  <1>5. CapturedSoFar'
    <2>1. ASSUME NEW b \in Actor, b # a, Underway(b)'
          PROVE  /\ job'[b].pc = "begun" => ~job'[b].ok /\ Positions(job[b].exchange)' = {}
                 /\ job'[b].pc = "sent" => ~job'[b].ok /\ Once(job[b].exchange)'
                 /\ job'[b].pc = "replied" /\ job'[b].ok => Twice(job[b].exchange)'
      <3>1. PICK y : y = job[b].exchange
        OBVIOUS
      <3>2. job'[b] = job[b] /\ y # x
        BY <1>3, <2>1, <3>1
      <3>3. Positions(y)' = Positions(y) /\ (Once(y) => Once(y)') /\ (Twice(y) => Twice(y)')
        BY <1>1, <3>2, OthersKept
      <3>4. /\ job[b].pc = "begun" => ~job[b].ok /\ Positions(y) = {}
            /\ job[b].pc = "sent" => ~job[b].ok /\ Once(y)
            /\ job[b].pc = "replied" /\ job[b].ok => Twice(y)
        BY <3>1 DEF CaptureInv, CapturedSoFar
      <3> QED
        BY <3>1, <3>2, <3>3, <3>4 DEF Once, Twice, Positions
    <2> QED
      BY <2>1 DEF CapturedSoFar, Once, Twice, Positions, Underway
  <1>6. \A k \in Completed : events[k].exchange # x
    BY DEF CaptureInv, CompleteIsOver
  <1>7. CompleteIsOver' /\ BundleHolds'
    BY <1>1, <1>6, CaptureKeepsLog
  <1> QED
    BY <1>4, <1>5, <1>7 DEF CaptureInv

(* A request is the first payload of its exchange.                         *)
LEMMA SendCaptures ==
    ASSUME ServerInv, CaptureInv, NEW a \in Actor, Send(a)
    PROVE  CaptureInv'
  <1> DEFINE n == Len(payloads)
  <1>0. PICK type \in MessageType :
          /\ job' = [job EXCEPT ![a].pc = "sent", ![a].type = type]
          /\ WritePayload(RequestDir(a), type, job[a].exchange)
    BY DEF Send
  <1>1. PICK x, r : /\ x = job[a].exchange
                    /\ r = [dir |-> RequestDir(a), type |-> type, exchange |-> x]
    OBVIOUS
  <1>2. /\ payloads' = Append(payloads, r) /\ payloads \in Seq(Payloads) /\ r.exchange = x
        /\ UNCHANGED <<events, bundle, exchanges>> /\ job[a].pc = "begun"
    BY <1>0, <1>1 DEF Send, WritePayload, ServerInv, RecordsTyped
  <1>3. /\ job'[a].pc = "sent" /\ job'[a].exchange = x /\ job'[a].ok = job[a].ok
        /\ \A b \in Actor : b # a => job'[b] = job[b]
    BY <1>0, <1>1 DEF ServerInv, ProcTyped, Jobs
  <1>4. ~job[a].ok /\ Positions(x) = {}
    BY <1>1, <1>2 DEF CaptureInv, CapturedSoFar
  <1>5. Once(x)'
    <2>1. n + 1 \in DOMAIN payloads' /\ Positions(x)' = {n + 1}
      BY <1>2, <1>4, PositionsAppend
    <2> QED
      BY <1>2, <2>1 DEF Once
  <1>6. Underway(a) /\ Underway(a)'
    BY <1>2, <1>3 DEF Underway
  <1> QED
    BY <1>1, <1>2, <1>3, <1>4, <1>5, <1>6, CaptureStep

(* An answer is the second payload of its exchange.                        *)
LEMMA ReplyCaptures ==
    ASSUME ServerInv, CaptureInv, NEW a \in Actor, Reply(a)
    PROVE  CaptureInv'
  <1> DEFINE n == Len(payloads)
  <1>0. PICK x, r : /\ x = job[a].exchange
                    /\ r = [dir |-> ResponseDir(a), type |-> ResponseType(a), exchange |-> x]
    OBVIOUS
  <1>1. /\ payloads' = Append(payloads, r) /\ payloads \in Seq(Payloads) /\ r.exchange = x
        /\ UNCHANGED <<events, bundle, exchanges>>
    BY <1>0 DEF Reply, WritePayload, ServerInv, RecordsTyped
  <1>2. /\ job'[a].pc = "replied" /\ job'[a].exchange = x
        /\ \A b \in Actor : b # a => job'[b] = job[b]
        /\ job[a].pc = "sent"
    BY <1>0 DEF Reply, ServerInv, ProcTyped, Jobs
  <1>3. Once(x) /\ Underway(a) /\ Underway(a)'
    BY <1>0, <1>2 DEF Underway, CaptureInv, CapturedSoFar
  <1>4. Twice(x)'
    <2>1. PICK p \in DOMAIN payloads : Positions(x) = {p}
      BY <1>3 DEF Once
    <2>2. /\ n + 1 \in DOMAIN payloads' /\ p \in DOMAIN payloads' /\ p # n + 1
          /\ Positions(x)' = Positions(x) \cup {n + 1}
      BY <1>1, PositionsAppend
    <2>3. Positions(x)' = {p, n + 1}
      BY <2>1, <2>2
    <2> QED
      BY <2>2, <2>3 DEF Twice
  <1> QED
    BY <1>0, <1>1, <1>2, <1>3, <1>4, CaptureStep

(* The invariant holds when nothing is captured, and every step keeps it.  *)
LEMMA CaptureHolds == Spec => []CaptureInv
  <1>1. Init => CaptureInv
    BY DEF Init, RecordsInit, CaptureInv, OwnNumbers, CapturedSoFar, CompleteIsOver, BundleHolds,
       Underway, Completed, Positions, NoJobs, NoJob, JobAt
  <1>2. ServerInv /\ ServerInv' /\ CaptureInv /\ [Next]_vars => CaptureInv'
    BY ExchangeSteps, BeginNumbers, SendCaptures, ReplyCaptures, NoCaptureKeeps, LogStepKeeps DEF CaptureInv
  <1> QED
    BY <1>1, <1>2, Invariant, PTL DEF Spec

(* Two payloads are two.                                                   *)
LEMMA PairCounts ==
    ASSUME NEW p, NEW q, p # q
    PROVE  Cardinality({p, q}) = 2
  <1>1. {p, q} = {p} \cup {q} /\ q \notin {p}
    OBVIOUS
  <1>2. IsFiniteSet({p}) /\ Cardinality({p}) = 1
    BY FS_Singleton
  <1> QED
    BY <1>1, <1>2, FS_AddElement

(* ExportComplete holds for any number of exchanges, starts and exports:   *)
(* ExportBundle reads the log under l.mu, and a sender logs an exchange as *)
(* complete only after it has captured both its payloads, which nobody     *)
(* else's exchange shares a number with.                                   *)
THEOREM BundlesComplete == Spec => []ExportComplete
  <1>1. ServerInv /\ CaptureInv => ExportComplete
    <2> SUFFICES ASSUME ServerInv, CaptureInv, NEW k \in 1..bundle[1], events[k].kind = "complete"
                 PROVE  Cardinality({p \in 1..bundle[2] :
                                       payloads[p].exchange = events[k].exchange}) = 2
      BY DEF ExportComplete
    <2>1. /\ bundle[1] \in 0..Len(events) /\ bundle[2] \in 0..Len(payloads)
          /\ Len(events) \in Nat /\ Len(payloads) \in Nat
          /\ DOMAIN events = 1..Len(events) /\ DOMAIN payloads = 1..Len(payloads)
      BY DEF CaptureInv, BundleHolds, ServerInv, RecordsTyped
    <2>2. k \in Completed /\ k <= bundle[1]
      BY <2>1 DEF Completed
    <2>3. Twice(events[k].exchange) /\ \A p \in Positions(events[k].exchange) : p <= bundle[2]
      BY <2>2 DEF CaptureInv, CompleteIsOver, BundleHolds
    <2>4. {p \in 1..bundle[2] : payloads[p].exchange = events[k].exchange}
            = Positions(events[k].exchange)
      BY <2>1, <2>3 DEF Positions
    <2>5. PICK p, q \in DOMAIN payloads : p # q /\ Positions(events[k].exchange) = {p, q}
      BY <2>3 DEF Twice
    <2>6. Cardinality({p, q}) = 2
      BY <2>5, PairCounts
    <2> QED
      BY <2>4, <2>5, <2>6
  <1> QED
    BY <1>1, Invariant, CaptureHolds, PTL

-----------------------------------------------------------------------------
(* The captured request of exchange x, of this type, before position s.    *)
AskedBefore(x, type, s) ==
    \E r \in DOMAIN payloads : /\ r < s /\ payloads[r].dir = "outbound_request"
                               /\ payloads[r].exchange = x /\ payloads[r].type = type

(* An outbound message that waits for its answer is captured.              *)
SentIsCaptured ==
    \A a \in Actor \ Wire :
        job[a].pc = "sent" => AskedBefore(job[a].exchange, job[a].type, Len(payloads) + 1)

(* An outbound response has its request before it, of the same type.       *)
AnswersFollow ==
    \A s \in DOMAIN payloads : payloads[s].dir = "outbound_response" =>
        AskedBefore(payloads[s].exchange, payloads[s].type, s)

PairInv == SentIsCaptured /\ AnswersFollow

(* One more payload hides no request, and answers only if it is a response *)
(* to one.                                                                 *)
LEMMA PairAppend ==
    ASSUME payloads \in Seq(Payloads), NEW r, payloads' = Append(payloads, r), PairInv,
           r.dir = "outbound_response" => AskedBefore(r.exchange, r.type, Len(payloads) + 1)
    PROVE  /\ AnswersFollow'
           /\ \A x, type : AskedBefore(x, type, Len(payloads) + 1)
                             => AskedBefore(x, type, Len(payloads) + 1)'
  <1> DEFINE n == Len(payloads)
  <1>1. /\ n \in Nat /\ Len(payloads)' = n + 1 /\ DOMAIN payloads' = 1..(n + 1) /\ DOMAIN payloads = 1..n
        /\ \A p \in 1..n : payloads'[p] = payloads[p]
        /\ payloads'[n + 1] = r
    BY PositionsAppend
  <1> HIDE DEF n
  <1>2. ASSUME NEW x, NEW type, NEW s \in Nat, AskedBefore(x, type, s)
        PROVE  \E q \in DOMAIN payloads' :
                 /\ q < s /\ payloads'[q].dir = "outbound_request"
                 /\ payloads'[q].exchange = x /\ payloads'[q].type = type
    <2>1. PICK q \in 1..n : /\ q < s /\ payloads[q].dir = "outbound_request"
                            /\ payloads[q].exchange = x /\ payloads[q].type = type
      BY <1>1, <1>2 DEF AskedBefore
    <2> QED
      BY <1>1, <2>1
  <1>3. AnswersFollow'
    <2> SUFFICES ASSUME NEW s \in DOMAIN payloads', payloads'[s].dir = "outbound_response"
                 PROVE  \E q \in DOMAIN payloads' :
                          /\ q < s /\ payloads'[q].dir = "outbound_request"
                          /\ payloads'[q].exchange = payloads'[s].exchange
                          /\ payloads'[q].type = payloads'[s].type
      BY DEF AnswersFollow, AskedBefore
    <2>1. CASE s \in 1..n
      BY <1>1, <1>2, <2>1 DEF PairInv, AnswersFollow
    <2>2. CASE s = n + 1
      BY <1>1, <1>2, <2>2 DEF n
    <2> QED
      BY <1>1, <2>1, <2>2
  <1>4. ASSUME NEW x, NEW type, AskedBefore(x, type, n + 1)
        PROVE  \E q \in DOMAIN payloads' :
                 /\ q < (n + 1) + 1 /\ payloads'[q].dir = "outbound_request"
                 /\ payloads'[q].exchange = x /\ payloads'[q].type = type
    <2>1. PICK q \in DOMAIN payloads' :
                 /\ q < n + 1 /\ payloads'[q].dir = "outbound_request"
                 /\ payloads'[q].exchange = x /\ payloads'[q].type = type
      BY <1>1, <1>2, <1>4
    <2> QED
      BY <1>1, <2>1
  <1>5. \A x, type : AskedBefore(x, type, n + 1) => AskedBefore(x, type, Len(payloads) + 1)'
    BY <1>1, <1>4 DEF AskedBefore
  <1> QED
    BY <1>3, <1>5 DEF n

(* A captured request is there while its sender waits.                     *)
LEMMA SendPairs ==
    ASSUME ServerInv, PairInv, NEW a \in Actor, Send(a)
    PROVE  PairInv'
  <1> DEFINE n == Len(payloads)
  <1>0. PICK type \in MessageType :
          /\ job' = [job EXCEPT ![a].pc = "sent", ![a].type = type]
          /\ WritePayload(RequestDir(a), type, job[a].exchange)
    BY DEF Send
  <1>1. PICK r : r = [dir |-> RequestDir(a), type |-> type, exchange |-> job[a].exchange]
    OBVIOUS
  <1>2. /\ payloads' = Append(payloads, r) /\ payloads \in Seq(Payloads)
        /\ r.dir = RequestDir(a) /\ r.type = type /\ r.exchange = job[a].exchange
        /\ r.dir # "outbound_response"
    BY <1>0, <1>1 DEF WritePayload, ServerInv, RecordsTyped, RequestDir
  <1>3. /\ job'[a].type = type /\ job'[a].exchange = job[a].exchange
        /\ \A b \in Actor : b # a => job'[b] = job[b]
    BY <1>0 DEF ServerInv, ProcTyped, Jobs
  <1>4. /\ AnswersFollow'
        /\ \A x, t : AskedBefore(x, t, n + 1) => AskedBefore(x, t, Len(payloads) + 1)'
    BY <1>2, PairAppend
  <1>5. ASSUME NEW b \in Actor \ Wire, job'[b].pc = "sent"
        PROVE  AskedBefore(job[b].exchange, job[b].type, Len(payloads) + 1)'
    <2>1. CASE b # a
      <3>1. PICK x, t : x = job[b].exchange /\ t = job[b].type
        OBVIOUS
      <3>2. job'[b] = job[b] /\ AskedBefore(x, t, n + 1)
        BY <1>3, <1>5, <2>1, <3>1 DEF PairInv, SentIsCaptured
      <3>3. AskedBefore(x, t, Len(payloads) + 1)'
        BY <1>4, <3>2
      <3> QED
        BY <3>1, <3>2, <3>3 DEF AskedBefore
    <2>2. CASE b = a
      <3>1. r.dir = "outbound_request"
        BY <1>2, <1>5, <2>2 DEF RequestDir
      <3>2. /\ n \in Nat /\ Len(payloads)' = n + 1 /\ n + 1 \in DOMAIN payloads'
            /\ payloads'[n + 1] = r
        BY <1>2, PositionsAppend
      <3>3. n + 1 < (n + 1) + 1
        BY <3>2
      <3> HIDE DEF n
      <3> QED
        BY <1>2, <1>3, <2>2, <3>1, <3>2, <3>3 DEF AskedBefore
    <2> QED
      BY <2>1, <2>2
  <1> QED
    BY <1>4, <1>5 DEF PairInv, SentIsCaptured, AskedBefore

(* An answer follows the request its sender waits with.                    *)
LEMMA ReplyPairs ==
    ASSUME ServerInv, PairInv, NEW a \in Actor, Reply(a)
    PROVE  PairInv'
  <1> DEFINE n == Len(payloads)
  <1>1. PICK r : r = [dir |-> ResponseDir(a), type |-> ResponseType(a), exchange |-> job[a].exchange]
    OBVIOUS
  <1>2. /\ payloads' = Append(payloads, r) /\ payloads \in Seq(Payloads)
        /\ r.dir = ResponseDir(a) /\ r.type = ResponseType(a) /\ r.exchange = job[a].exchange
        /\ job[a].pc = "sent"
    BY <1>1 DEF Reply, WritePayload, ServerInv, RecordsTyped
  <1>3. job'[a].pc = "replied" /\ \A b \in Actor : b # a => job'[b] = job[b]
    BY DEF Reply, ServerInv, ProcTyped, Jobs
  <1>a. ASSUME r.dir = "outbound_response"
        PROVE  AskedBefore(r.exchange, r.type, n + 1)
    <2>1. a \in Actor \ Wire /\ r.type = job[a].type
      BY <1>2, <1>a DEF ResponseDir, ResponseType
    <2> QED
      BY <1>2, <2>1 DEF PairInv, SentIsCaptured
  <1>4. /\ AnswersFollow'
        /\ \A x, t : AskedBefore(x, t, n + 1) => AskedBefore(x, t, Len(payloads) + 1)'
    BY <1>2, <1>a, PairAppend
  <1>5. ASSUME NEW b \in Actor \ Wire, job'[b].pc = "sent"
        PROVE  AskedBefore(job[b].exchange, job[b].type, Len(payloads) + 1)'
    <2>1. PICK x, t : x = job[b].exchange /\ t = job[b].type
      OBVIOUS
    <2>2. job'[b] = job[b] /\ AskedBefore(x, t, n + 1)
      BY <1>3, <1>5, <2>1 DEF PairInv, SentIsCaptured
    <2>3. AskedBefore(x, t, Len(payloads) + 1)'
      BY <1>4, <2>2
    <2> QED
      BY <2>1, <2>2, <2>3 DEF AskedBefore
  <1> QED
    BY <1>4, <1>5 DEF PairInv, SentIsCaptured, AskedBefore

(* The invariant holds when nothing is captured, and every step keeps it.  *)
LEMMA PairHolds == Spec => []PairInv
  <1>1. Init => PairInv
    BY DEF Init, RecordsInit, PairInv, SentIsCaptured, AnswersFollow, NoJobs, NoJob, JobAt
  <1>2. ASSUME PairInv, payloads' = payloads,
               \A a \in Actor : job'[a].pc = "sent" => job'[a] = job[a]
        PROVE  PairInv'
    BY <1>2 DEF PairInv, SentIsCaptured, AnswersFollow, AskedBefore
  <1>3. ASSUME NoCapture
        PROVE  payloads' = payloads /\ \A a \in Actor : job'[a].pc = "sent" => job'[a] = job[a]
    BY <1>3 DEF NoCapture, Underway
  <1>4. ASSUME ServerInv, NEW a \in Actor, Begin(a)
        PROVE  payloads' = payloads /\ \A b \in Actor : job'[b].pc = "sent" => job'[b] = job[b]
    <2>1. JobAt("begun", exchanges + 1).pc = "begun"
      BY DEF JobAt
    <2> QED
      BY <1>4, <2>1 DEF Begin, recordVars, ServerInv, ProcTyped
  <1>5. ServerInv /\ PairInv /\ [Next]_vars => PairInv'
    BY <1>2, <1>3, <1>4, ExchangeSteps, SendPairs, ReplyPairs
  <1> QED
    BY <1>1, <1>5, Invariant, PTL DEF Spec

(* What a search for the latest payload returns.                           *)
LEMMA LatestFacts ==
    ASSUME payloads \in Seq(Payloads), NEW S, S \subseteq DOMAIN payloads
    PROVE  /\ Max({0} \cup S) \in {0} \cup S
           /\ \A k \in S : k <= Max({0} \cup S)
  <1> DEFINE T == {0} \cup S
  <1>1. Len(payloads) \in Nat /\ T \in SUBSET (0..Len(payloads)) /\ T # {}
    OBVIOUS
  <1>2. Max(T) \in T /\ \A y \in T : Max(T) >= y
    BY <1>1, MaxFacts
  <1> HIDE DEF T
  <1>3. \A y \in T : y <= Max(T)
    BY <1>1, <1>2
  <1> QED
    BY <1>2, <1>3 DEF T

(* EvidenceStillOpen holds for any number of senders, message types,       *)
(* exchanges and restarts: a response is captured after its request and    *)
(* under its request's type, the request shown is the latest of all, and   *)
(* pairing.Warning tells when the response is the older of the two.        *)
THEOREM EvidencePairs == Spec => []EvidenceStillOpen
  <1>1. ServerInv /\ PairInv => EvidenceStillOpen
    <2> SUFFICES ASSUME ServerInv, PairInv, NEW q, q = latestPayload("outbound_request"),
                        NEW s, s = pairedLatestResponse(q), q # 0, s # 0, ~Warned(q, s),
                        payloads[s].dir = "outbound_response"
                 PROVE  OpenWhenSent(q, s)
      BY DEF EvidenceStillOpen
    <2>0. payloads \in Seq(Payloads) /\ DOMAIN payloads \subseteq Nat
      BY DEF ServerInv, RecordsTyped
    <2>1. /\ q \in DOMAIN payloads /\ payloads[q].dir = "outbound_request"
          /\ \A k \in DOMAIN payloads : payloads[k].dir = "outbound_request" => k <= q
      <3> DEFINE S == {k \in DOMAIN payloads : payloads[k].dir = "outbound_request"}
      <3>1. q \in {0} \cup S /\ \A k \in S : k <= q
        BY <2>0, LatestFacts, Zenon DEF latestPayload
      <3> QED
        BY <3>1, Zenon
    <2>2. s \in DOMAIN payloads
      <3>1. ASSUME NEW d PROVE latestPayload(d) = 0 \/ latestPayload(d) \in DOMAIN payloads
        <4> DEFINE S == {k \in DOMAIN payloads : payloads[k].dir = d}
        <4>1. latestPayload(d) \in {0} \cup S
          BY <2>0, LatestFacts, Zenon DEF latestPayload
        <4> QED
          BY <4>1, Zenon
      <3>2. ASSUME NEW d, NEW t
            PROVE  \/ latestPayloadForMessageType(d, t) = 0
                   \/ latestPayloadForMessageType(d, t) \in DOMAIN payloads
        <4> DEFINE S == {k \in DOMAIN payloads : payloads[k].dir = d /\ payloads[k].type = t}
        <4>1. latestPayloadForMessageType(d, t) \in {0} \cup S
          BY <2>0, LatestFacts, Zenon DEF latestPayloadForMessageType
        <4> QED
          BY <4>1, Zenon
      <3> QED
        BY <3>1, <3>2, Zenon DEF pairedLatestResponse, FirstOf
    <2>3. payloads[s].type = payloads[q].type /\ ~(s < q) /\ s # q
      BY <2>1, Zenon DEF Warned
    <2>4. q < s
      BY <2>0, <2>1, <2>2, <2>3
    <2>5. PICK r \in DOMAIN payloads :
            /\ r < s /\ payloads[r].dir = "outbound_request"
            /\ payloads[r].exchange = payloads[s].exchange /\ payloads[r].type = payloads[s].type
      BY <2>2 DEF PairInv, AnswersFollow, AskedBefore
    <2>6. r \in 1..q
      BY <2>0, <2>1, <2>5
    <2> QED
      BY <2>3, <2>4, <2>5, <2>6 DEF OpenWhenSent
  <1> QED
    BY <1>1, Invariant, PairHolds, PTL

-----------------------------------------------------------------------------
(* The four forms of a time's text: what its first characters are.         *)
LEMMA TextForms ==
    ASSUME NEW t \in Nat
    PROVE  /\ t % 4 \in {0, 1, 2, 3} /\ t \div 4 \in Nat
           /\ TimeText(t) \in Seq(Nat) /\ TimeText(t)[1] = t \div 4
           /\ 2 <= Len(TimeText(t))
           /\ t % 4 = 0 => Len(TimeText(t)) = 2
           /\ t % 4 = 1 => Len(TimeText(t)) = 4 /\ TimeText(t)[2] = 0
           /\ t % 4 = 2 => Len(TimeText(t)) = 3 /\ TimeText(t)[2] = 1
           /\ t % 4 = 3 => Len(TimeText(t)) = 4 /\ TimeText(t)[2] = 1
  <1> DEFINE s == t \div 4
             f == IF t % 4 = 0 THEN <<>> ELSE IF t % 4 = 2 THEN <<1>> ELSE <<(t % 4) \div 2, t % 2>>
  <1>1. s \in Nat /\ t % 4 \in {0, 1, 2, 3} /\ t % 2 \in Nat /\ (t % 4) \div 2 \in Nat
        /\ (t % 4 = 1 => (t % 4) \div 2 = 0) /\ (t % 4 = 3 => (t % 4) \div 2 = 1)
    OBVIOUS
  <1>2. /\ f \in Seq(Nat)
        /\ t % 4 = 0 => Len(f) = 0
        /\ t % 4 = 1 => Len(f) = 2 /\ f[1] = 0
        /\ t % 4 = 2 => Len(f) = 1 /\ f[1] = 1
        /\ t % 4 = 3 => Len(f) = 2 /\ f[1] = 1
    BY <1>1
  <1>3. TimeText(t) = (<<s>> \o f) \o <<Zulu>>
    BY DEF TimeText
  <1> HIDE DEF s, f
  <1>4. <<s>> \in Seq(Nat) /\ Len(<<s>>) = 1 /\ <<s>>[1] = s
        /\ <<Zulu>> \in Seq(Nat) /\ Len(<<Zulu>>) = 1
    BY <1>1 DEF Zulu
  <1>5. PICK h : h = <<s>> \o f
    OBVIOUS
  <1>6. h \in Seq(Nat) /\ Len(h) = 1 + Len(f) /\ h[1] = s
        /\ (Len(f) \in Nat /\ Len(f) >= 1 => h[2] = f[1])
    BY <1>2, <1>4, <1>5, ConcatProperties
  <1>7. TimeText(t) \in Seq(Nat) /\ Len(TimeText(t)) = 2 + Len(f) /\ TimeText(t)[1] = s
        /\ (Len(f) >= 1 => TimeText(t)[2] = f[1])
    <2>1. TimeText(t) = h \o <<Zulu>> /\ Len(f) \in Nat
      BY <1>2, <1>3, <1>5
    <2> QED
      BY <1>4, <1>6, <2>1, ConcatProperties
  <1>8. s = t \div 4
    BY DEF s
  <1>9. PICK n \in Nat : n = Len(f)
    BY <1>2
  <1>10. Len(TimeText(t)) = 2 + n /\ (n >= 1 => TimeText(t)[2] = f[1])
    BY <1>7, <1>9
  <1>11. /\ t % 4 = 0 => n = 0
         /\ t % 4 = 1 => n = 2 /\ f[1] = 0
         /\ t % 4 = 2 => n = 1 /\ f[1] = 1
         /\ t % 4 = 3 => n = 2 /\ f[1] = 1
    BY <1>2, <1>9
  <1>12. 2 <= Len(TimeText(t))
    BY <1>10
  <1>13. /\ t % 4 = 0 => Len(TimeText(t)) = 2
         /\ t % 4 = 1 => Len(TimeText(t)) = 4 /\ TimeText(t)[2] = 0
         /\ t % 4 = 2 => Len(TimeText(t)) = 3 /\ TimeText(t)[2] = 1
         /\ t % 4 = 3 => Len(TimeText(t)) = 4 /\ TimeText(t)[2] = 1
    BY <1>10, <1>11
  <1> QED
    BY <1>1, <1>7, <1>8, <1>12, <1>13

(* Texts are compared where they first differ.                             *)
LEMMA TextOrder ==
    ASSUME NEW a \in Seq(Nat), NEW b \in Seq(Nat), 2 <= Len(a), 2 <= Len(b)
    PROVE  /\ a[1] < b[1] => TextLess(a, b) /\ ~TextLess(b, a)
           /\ a[1] = b[1] /\ a[2] < b[2] => TextLess(a, b) /\ ~TextLess(b, a)
           /\ ~TextLess(a, a)
  <1>1. ASSUME a[1] < b[1] PROVE TextLess(a, b) /\ ~TextLess(b, a)
    <2>1. TextLess(a, b)
      <3>1. 1 \in DOMAIN a \cap DOMAIN b /\ 1..(1 - 1) = {}
        OBVIOUS
      <3> QED
        BY <1>1, <3>1 DEF TextLess
    <2>2. ASSUME NEW k \in DOMAIN b \cap DOMAIN a, b[k] < a[k], \A j \in 1..(k - 1) : b[j] = a[j]
          PROVE  FALSE
      <3>1. CASE k = 1
        BY <1>1, <2>2, <3>1
      <3>2. CASE k # 1
        <4>1. 1 \in 1..(k - 1)
          BY <3>2
        <4> QED
          BY <1>1, <2>2, <4>1
      <3> QED
        BY <3>1, <3>2
    <2> QED
      BY <2>1, <2>2 DEF TextLess
  <1>2. ASSUME a[1] = b[1], a[2] < b[2] PROVE TextLess(a, b) /\ ~TextLess(b, a)
    <2>1. TextLess(a, b)
      <3>1. 2 \in DOMAIN a \cap DOMAIN b /\ 1..(2 - 1) = {1}
        OBVIOUS
      <3> QED
        BY <1>2, <3>1 DEF TextLess
    <2>2. ASSUME NEW k \in DOMAIN b \cap DOMAIN a, b[k] < a[k], \A j \in 1..(k - 1) : b[j] = a[j]
          PROVE  FALSE
      <3>1. CASE k \in {1, 2}
        BY <1>2, <2>2, <3>1
      <3>2. CASE k \notin {1, 2}
        <4>1. 2 \in 1..(k - 1)
          BY <3>2
        <4> QED
          BY <1>2, <2>2, <4>1
      <3> QED
        BY <3>1, <3>2
    <2> QED
      BY <2>1, <2>2 DEF TextLess
  <1>3. ~TextLess(a, a)
    BY DEF TextLess
  <1> QED
    BY <1>1, <1>2, <1>3

(* What is left of a text without its last character begins another such   *)
(* text if the characters agree.                                           *)
LEMMA FrontPrefix ==
    ASSUME NEW a \in Seq(Nat), NEW b \in Seq(Nat), 2 <= Len(a), Len(a) <= Len(b),
           \A i \in 1..(Len(a) - 1) : a[i] = b[i]
    PROVE  IsPrefix(Front(a), Front(b))
  <1>1. PICK m \in Nat, n \in Nat : Len(a) = m + 1 /\ Len(b) = n + 1 /\ 1 <= m /\ m <= n
    <2> DEFINE m == Len(a) - 1
               n == Len(b) - 1
    <2>1. m \in Nat /\ n \in Nat /\ Len(a) = m + 1 /\ Len(b) = n + 1 /\ 1 <= m /\ m <= n
      OBVIOUS
    <2> HIDE DEF m, n
    <2> QED
      BY <2>1
  <1>2. PICK fa, fb : fa = Front(a) /\ fb = Front(b)
    OBVIOUS
  <1>3. fa \in Seq(Nat) /\ Len(fa) = m /\ \A i \in 1..m : fa[i] = a[i]
    BY <1>1, <1>2, SubSeqProperties DEF Front
  <1>4. fb \in Seq(Nat) /\ Len(fb) = n /\ \A i \in 1..n : fb[i] = b[i]
    BY <1>1, <1>2, SubSeqProperties DEF Front
  <1>5. PICK p, q : p = SubSeq(fa, 1, m) /\ q = SubSeq(fb, 1, m)
    OBVIOUS
  <1>6. p \in Seq(Nat) /\ Len(p) = m /\ \A i \in 1..m : p[i] = fa[i]
    BY <1>1, <1>3, <1>5, SubSeqProperties
  <1>7. q \in Seq(Nat) /\ Len(q) = m /\ \A i \in 1..m : q[i] = fb[i]
    BY <1>1, <1>4, <1>5, SubSeqProperties
  <1>8. \A i \in 1..m : a[i] = b[i]
    BY <1>1
  <1>9. \A i \in 1..m : p[i] = q[i]
    BY <1>1, <1>3, <1>4, <1>6, <1>7, <1>8
  <1>10. p = q
    BY <1>6, <1>7, <1>9, SeqEqual
  <1> QED
    BY <1>1, <1>2, <1>3, <1>4, <1>5, <1>10 DEF IsPrefix

(* Times of one second whose fractions do not differ in their first digit  *)
(* are shortened, one in the other.                                        *)
LEMMA SameSecond ==
    ASSUME NEW t \in Nat, NEW u \in Nat, t # u, t \div 4 = u \div 4
    PROVE  \/ Shortened(t, u)
           \/ t % 4 = 1 /\ u % 4 \in {2, 3}
           \/ u % 4 = 1 /\ t % 4 \in {2, 3}
  <1>1. t % 4 # u % 4
    OBVIOUS
  <1>2. ASSUME NEW v \in Nat, NEW w \in Nat, v \div 4 = w \div 4,
               v % 4 = 0 \/ (v % 4 = 2 /\ w % 4 = 3)
        PROVE  IsPrefix(Front(TimeText(v)), Front(TimeText(w)))
    <2>1. PICK a \in Seq(Nat), b \in Seq(Nat) : a = TimeText(v) /\ b = TimeText(w)
      BY TextForms
    <2>2. a[1] = b[1]
      <3>1. TimeText(v)[1] = v \div 4 /\ TimeText(w)[1] = w \div 4
        BY TextForms
      <3> QED
        BY <1>2, <2>1, <3>1
    <2>3. CASE v % 4 = 0
      <3>1. Len(a) = 2 /\ 2 <= Len(a) /\ Len(a) <= Len(b)
        BY <2>1, <2>3, TextForms
      <3>2. \A i \in 1..(Len(a) - 1) : a[i] = b[i]
        BY <2>2, <3>1
      <3>3. IsPrefix(Front(a), Front(b))
        BY <3>1, <3>2, FrontPrefix, Zenon
      <3> QED
        BY <2>1, <3>3
    <2>4. CASE v % 4 = 2 /\ w % 4 = 3
      <3>0. Len(a) = 3 /\ Len(b) = 4 /\ a[2] = 1 /\ b[2] = 1
        BY <2>1, <2>4, TextForms
      <3>1. Len(a) = 3 /\ 2 <= Len(a) /\ Len(a) <= Len(b) /\ a[2] = 1 /\ b[2] = 1
        BY <3>0
      <3>2. \A i \in 1..(Len(a) - 1) : a[i] = b[i]
        BY <2>2, <3>1
      <3>3. IsPrefix(Front(a), Front(b))
        BY <3>1, <3>2, FrontPrefix, Zenon
      <3> QED
        BY <2>1, <3>3
    <2> QED
      BY <1>2, <2>3, <2>4
  <1>4. t % 4 \in {0, 1, 2, 3} /\ u % 4 \in {0, 1, 2, 3}
    BY TextForms
  <1>3. /\ t % 4 = 0 \/ (t % 4 = 2 /\ u % 4 = 3) => IsPrefix(Front(TimeText(t)), Front(TimeText(u)))
        /\ u % 4 = 0 \/ (u % 4 = 2 /\ t % 4 = 3) => IsPrefix(Front(TimeText(u)), Front(TimeText(t)))
    BY <1>2
  <1>5. \/ IsPrefix(Front(TimeText(t)), Front(TimeText(u)))
        \/ IsPrefix(Front(TimeText(u)), Front(TimeText(t)))
        \/ t % 4 = 1 /\ u % 4 \in {2, 3}
        \/ u % 4 = 1 /\ t % 4 \in {2, 3}
    BY <1>1, <1>3, <1>4
  <1> QED
    BY <1>5 DEF Shortened

(* The text of a time sorts where the time does, unless one is shortened   *)
(* inside the other.                                                       *)
LEMMA TextSorts ==
    ASSUME NEW t \in Nat, NEW u \in Nat, ~Shortened(t, u)
    PROVE  (TextLess(TimeText(t), TimeText(u)) <=> t < u) /\ ~TextLess(TimeText(t), TimeText(t))
  <1>3. PICK a \in Seq(Nat) : a = TimeText(t)
    BY TextForms
  <1>4. PICK b \in Seq(Nat) : b = TimeText(u)
    BY TextForms
  <1>5. a[1] = t \div 4 /\ b[1] = u \div 4 /\ 2 <= Len(a) /\ 2 <= Len(b)
    BY <1>3, <1>4, TextForms
  <1>6. /\ a[1] < b[1] => TextLess(a, b)
        /\ b[1] < a[1] => ~TextLess(a, b)
        /\ a[1] = b[1] /\ a[2] < b[2] => TextLess(a, b)
        /\ a[1] = b[1] /\ b[2] < a[2] => ~TextLess(a, b)
        /\ ~TextLess(a, a)
    BY <1>5, TextOrder
  <1>7. CASE t = u
    BY <1>3, <1>4, <1>6, <1>7
  <1>8. CASE t \div 4 < u \div 4
    BY <1>3, <1>4, <1>5, <1>6, <1>8
  <1>9. CASE u \div 4 < t \div 4
    BY <1>3, <1>4, <1>5, <1>6, <1>9
  <1>10. CASE t # u /\ t \div 4 = u \div 4
    <2>1. CASE t % 4 = 1 /\ u % 4 \in {2, 3}
      <3>1. a[2] = 0 /\ b[2] = 1
        BY <1>3, <1>4, <2>1, TextForms
      <3>2. t < u
        BY <1>10, <2>1
      <3> QED
        BY <1>3, <1>4, <1>5, <1>6, <1>10, <3>1, <3>2
    <2>2. CASE u % 4 = 1 /\ t % 4 \in {2, 3}
      <3>1. a[2] = 1 /\ b[2] = 0
        BY <1>3, <1>4, <2>2, TextForms
      <3>2. u < t
        BY <1>10, <2>2
      <3> QED
        BY <1>3, <1>4, <1>5, <1>6, <1>10, <3>1, <3>2
    <2> QED
      BY <1>10, <2>1, <2>2, SameSecond
  <1>11. t \div 4 \in Int /\ u \div 4 \in Int
    OBVIOUS
  <1> QED
    BY <1>7, <1>8, <1>9, <1>10, <1>11

(* Being shortened does not depend on the order.                           *)
LEMMA ShortenedSymmetric ==
    ASSUME NEW t, NEW u
    PROVE  Shortened(t, u) <=> Shortened(u, t)
  BY DEF Shortened

(* A query of the index selects by time the events that a query of the log *)
(* selects, for all times and bounds, unless one of the two texts is cut   *)
(* short inside the other: the text order of RFC3339Nano and the order of  *)
(* the times agree.  (SQLiteIndex.Query is kept for tools; no handler of   *)
(* the runtime calls it.)                                                  *)
THEOREM WindowsSame ==
    \A t, bound \in Nat : Shortened(t, bound) \/
        /\ InIndexWindow(t, bound, t) <=> InLogWindow(t, bound, t)
        /\ InIndexWindow(t, t, bound) <=> InLogWindow(t, t, bound)
  <1> SUFFICES ASSUME NEW t \in Nat, NEW bound \in Nat, ~Shortened(t, bound)
               PROVE  /\ InIndexWindow(t, bound, t) <=> InLogWindow(t, bound, t)
                      /\ InIndexWindow(t, t, bound) <=> InLogWindow(t, t, bound)
    OBVIOUS
  <1>1. /\ TextLess(TimeText(t), TimeText(bound)) <=> t < bound
        /\ ~TextLess(TimeText(t), TimeText(t))
    BY TextSorts
  <1>2. TextLess(TimeText(bound), TimeText(t)) <=> bound < t
    BY TextSorts, ShortenedSymmetric
  <1> QED
    BY <1>1, <1>2 DEF InIndexWindow, InLogWindow
=============================================================================
