---------------------------- MODULE SessionProofs ----------------------------
(***************************************************************************)
(* What TLAPS proves about the session, for any number of scheduler        *)
(* goroutines and manual requests, every failure threshold and every       *)
(* setting of the options.                                                 *)
(***************************************************************************)
EXTENDS Session, TLAPS

(* A step of a scheduler goroutine keeps the goroutines' type.             *)
LEMMA WorkerStep ==
    ASSUME TypeOK, NEW w \in Worker, SchedStep(w)
    PROVE  worker' \in [Worker -> WorkerState]
  <1>1. worker[w] \in WorkerState /\ worker \in [Worker -> WorkerState]
    BY DEF TypeOK
  <1>2. TickOperation \in Op
    BY DEF TickOperation, Op
  <1>3. CASE SchedTick(w)
    <2>1. /\ [worker[w] EXCEPT !.pc = "select"] \in WorkerState
          /\ [worker[w] EXCEPT !.pc = "result", !.op = TickOperation, !.reply = "error"] \in WorkerState
          /\ [worker[w] EXCEPT !.pc = "inflight", !.op = TickOperation] \in WorkerState
      BY <1>1, <1>2 DEF WorkerState, Reply
    <2> QED
      BY <1>1, <1>3, <2>1 DEF SchedTick
  <1>4. ASSUME NEW r \in Reply, SchedReply(w, r)
        PROVE  worker' \in [Worker -> WorkerState]
    BY <1>1, <1>4 DEF SchedReply, WorkerState
  <1>5. CASE SchedUpdate(w)
    <2>1. [NoWorker EXCEPT !.pc = "select", !.ctx = worker[w].ctx] \in WorkerState
      BY <1>1 DEF WorkerState, NoWorker, Op, Reply
    <2> QED
      BY <1>1, <1>5, <2>1 DEF SchedUpdate
  <1>6. CASE SchedTickerFires(w)
    BY <1>1, <1>6 DEF SchedTickerFires, WorkerState
  <1>7. CASE SchedReturns(w)
    BY <1>1, <1>7 DEF SchedReturns, WorkerState, NoWorker, Op, Reply
  <1>8. CASE StopCancels(w)
    BY <1>1, <1>8 DEF StopCancels, WorkerState
  <1> QED
    BY <1>3, <1>4, <1>5, <1>6, <1>7, <1>8 DEF SchedStep

(* A step of a scheduler goroutine keeps the state it reports in its type, *)
(* and the failure count within the threshold.                             *)
LEMMA SchedStateStep ==
    ASSUME TypeOK, NEW w \in Worker, SchedStep(w)
    PROVE  /\ SessionState' \in SessionStates
           /\ HeartbeatState' \in HeartbeatStates
           /\ ConsecutiveFailures' \in 0..FailureThreshold
           /\ recentAttempt' \in BOOLEAN
           /\ UNCHANGED <<ConnectionState, schedulerCancel, engine, manual, ctxDone, hostOk>>
  <1>1. CASE SchedUpdate(w)
    <2>1. \A ok \in BOOLEAN : FailuresAfter(ok) \in 0..FailureThreshold
      BY SessionAssumption DEF FailuresAfter, TypeOK, SessionAssumption
    <2>2. ConsecutiveFailures' \in 0..FailureThreshold
      BY <1>1, <2>1 DEF SchedUpdate
    <2>3. /\ SessionState' \in {"online", "idle", SessionState}
          /\ HeartbeatState' \in {"healthy", "degraded", HeartbeatState}
          /\ recentAttempt' = TRUE
          /\ UNCHANGED <<ConnectionState, schedulerCancel, engine, manual, ctxDone, hostOk>>
      BY <1>1 DEF SchedUpdate
    <2> QED
      BY <2>2, <2>3 DEF TypeOK, SessionStates, HeartbeatStates
  <1>2. CASE ~SchedUpdate(w)
    <2>1. UNCHANGED <<stateVars, schedulerCancel, ConsecutiveFailures, recentAttempt,
                      engine, manual, ctxDone, hostOk>>
      BY <1>2 DEF SchedStep, SchedTick, SchedReply, SchedTickerFires, SchedReturns, StopCancels
    <2> QED
      BY <2>1 DEF stateVars, TypeOK
  <1> QED
    BY <1>1, <1>2

(* A step of the session engine keeps the types.                           *)
LEMMA EngineStep ==
    ASSUME TypeOK, sessionEngineLoop
    PROVE  /\ SessionState' \in SessionStates
           /\ HeartbeatState' \in HeartbeatStates
           /\ ConnectionState' \in ConnectionStates
           /\ engine' \in EngineState
           /\ UNCHANGED <<schedVars, manual, ctxDone, hostOk>>
  <1> DEFINE E == /\ SessionState' \in SessionStates
                  /\ HeartbeatState' \in HeartbeatStates
                  /\ ConnectionState' \in ConnectionStates
                  /\ engine' \in EngineState
                  /\ UNCHANGED <<schedVars, manual, ctxDone, hostOk>>
  <1>t. /\ SessionState \in SessionStates /\ HeartbeatState \in HeartbeatStates
        /\ ConnectionState \in ConnectionStates /\ engine \in EngineState
    BY DEF TypeOK
  <1>1. ASSUME NEW r \in Reply, EngineReply(r)
        PROVE  E
    BY <1>1, <1>t DEF EngineReply, EngineState, stateVars
  <1>2. ASSUME NEW pc \in EnginePc, EngineGoto(pc)
        PROVE  engine' \in EngineState /\ UNCHANGED <<schedVars, manual, ctxDone, hostOk>>
    <2>1. engine' \in EngineState
      BY <1>2 DEF EngineGoto, EngineState, Reply
    <2>2. UNCHANGED <<schedVars, manual, ctxDone, hostOk>>
      BY <1>2 DEF EngineGoto
    <2> QED
      BY <2>1, <2>2
  <1>3. CASE EngineOnline
    BY <1>2, <1>3 DEF EngineOnline, EnginePc, SessionStates, HeartbeatStates, ConnectionStates
  <1>4. CASE EngineConnectFails
    BY <1>2, <1>4 DEF EngineConnectFails, EnginePc, SessionStates, HeartbeatStates, ConnectionStates
  <1>5. CASE EngineExchange
    BY <1>2, <1>5, <1>t DEF EngineExchange, EnginePc, stateVars
  <1>6. CASE EngineStartupFails
    BY <1>2, <1>6 DEF EngineStartupFails, EnginePc, SessionStates, HeartbeatStates, ConnectionStates
  <1>7. CASE EngineKeepAlive \/ EngineKeepAliveFails
    BY <1>2, <1>7, <1>t DEF EngineKeepAlive, EngineKeepAliveFails, EnginePc, SessionStates,
                        HeartbeatStates, ConnectionStates
  <1>8. CASE EngineTicker \/ EngineWakes \/ EngineStops
    BY <1>2, <1>8, <1>t DEF EngineTicker, EngineWakes, EngineStops, EnginePc, stateVars
  <1> QED
    BY <1>1, <1>3, <1>4, <1>5, <1>6, <1>7, <1>8 DEF sessionEngineLoop

(* Every step keeps every variable in its type.                            *)
LEMMA TypeStep ==
    TypeOK /\ [Next]_vars => TypeOK'
  <1> SUFFICES ASSUME TypeOK, [Next]_vars PROVE TypeOK'
    OBVIOUS
  <1> USE SessionAssumption DEF SessionAssumption
  <1>1. CASE StartOutboundScheduler
    <2>1. [NoWorker EXCEPT !.pc = "tick"] \in WorkerState
      BY DEF NoWorker, WorkerState, Op, Reply
    <2> QED
      BY <1>1, <2>1 DEF StartOutboundScheduler, TypeOK, stateVars
  <1>2. CASE StopOutboundScheduler
    <2>1. schedulerCancel \in Worker
      BY <1>2 DEF StopOutboundScheduler, Running, TypeOK
    <2>2. worker' \in [Worker -> WorkerState]
      BY <1>2, <2>1 DEF StopOutboundScheduler, TypeOK, WorkerState
    <2> QED
      BY <1>2, <2>2 DEF StopOutboundScheduler, TypeOK, stateVars
  <1>3. ASSUME NEW w \in Worker, SchedStep(w)
        PROVE  TypeOK'
    BY <1>3, WorkerStep, SchedStateStep DEF TypeOK
  <1>4. CASE RetryIntervalElapses
    BY <1>4 DEF RetryIntervalElapses, TypeOK, stateVars
  <1>5. CASE sessionEngineLoop
    BY <1>5, EngineStep DEF TypeOK, schedVars
  <1>6. ASSUME NEW m \in Manual, NEW op \in Op, NEW generic \in BOOLEAN,
               ManualSend(m, op, generic)
        PROVE  TypeOK'
    <2>1. [pc |-> "inflight", op |-> op, generic |-> generic, reply |-> "error"] \in ManualState
      BY DEF ManualState, Reply
    <2>2. manual' \in [Manual -> ManualState]
      BY <1>6, <2>1 DEF ManualSend, TypeOK
    <2>3. UNCHANGED <<stateVars, schedVars, engine, ctxDone, hostOk>>
      BY <1>6 DEF ManualSend
    <2> QED
      BY <2>2, <2>3 DEF TypeOK, stateVars, schedVars
  <1>7. ASSUME NEW m \in Manual, NEW r \in Reply, ManualReply(m, r)
        PROVE  TypeOK'
    <2>1. manual' \in [Manual -> ManualState]
      BY <1>7 DEF ManualReply, TypeOK, ManualState
    <2>2. UNCHANGED <<stateVars, schedVars, engine, ctxDone, hostOk>>
      BY <1>7 DEF ManualReply
    <2> QED
      BY <2>1, <2>2 DEF TypeOK, stateVars, schedVars
  <1>8. ASSUME NEW m \in Manual, ManualUpdate(m)
        PROVE  TypeOK'
    <2>1. NoManual \in ManualState
      BY DEF NoManual, ManualState, Op, Reply
    <2>2. manual' \in [Manual -> ManualState]
      BY <1>8, <2>1 DEF ManualUpdate, TypeOK
    <2>3. /\ SessionState' \in {"online", SessionState}
          /\ HeartbeatState' \in {"healthy", HeartbeatState}
          /\ UNCHANGED <<ConnectionState, schedVars, engine, ctxDone, hostOk>>
      BY <1>8 DEF ManualUpdate
    <2> QED
      BY <2>2, <2>3 DEF TypeOK, schedVars, SessionStates, HeartbeatStates
  <1>9. ASSUME NEW op \in InboundOps,
               NEW conn \in {"controller_connected", "controller_simulated"},
               Inbound(op, conn)
        PROVE  TypeOK'
    <2>1. /\ SessionState' \in {"online", "closed", SessionState}
          /\ HeartbeatState' \in {"healthy", HeartbeatState}
          /\ ConnectionState' = conn
          /\ UNCHANGED <<schedVars, engine, manual, ctxDone, hostOk>>
      BY <1>9 DEF Inbound
    <2> QED
      BY <2>1 DEF TypeOK, schedVars, SessionStates, HeartbeatStates, ConnectionStates
  <1>10. CASE Interrupt \/ HostChanges
    BY <1>10 DEF Interrupt, HostChanges, TypeOK, stateVars, schedVars
  <1>11. CASE UNCHANGED vars
    BY <1>11 DEF vars, TypeOK, stateVars, schedVars
  <1> QED
    BY <1>1, <1>2, <1>3, <1>4, <1>5, <1>6, <1>7, <1>8, <1>9, <1>10, <1>11
       DEF Next, ManualStep

(* The initial state is typed.                                             *)
LEMMA InitType == Init => TypeOK
  <1>1. NoWorker \in WorkerState /\ NoManual \in ManualState
    BY DEF NoWorker, NoManual, WorkerState, ManualState, Op, Reply
  <1>2. ASSUME Init PROVE engine \in EngineState
    BY <1>2 DEF Init, EngineState, EnginePc
  <1>3. 0 \in 0..FailureThreshold
    BY SessionAssumption DEF SessionAssumption
  <1> QED
    BY <1>1, <1>2, <1>3 DEF Init, TypeOK, SessionStates, HeartbeatStates, ConnectionStates

(* The session's variables always have their types.                        *)
THEOREM TypeCorrect == Spec => []TypeOK
  BY InitType, TypeStep, PTL DEF Spec

-----------------------------------------------------------------------------
(* A step of a scheduler goroutine concerns that goroutine only, never     *)
(* revives a context, and ends the goroutine only when it was cancelled.   *)
LEMMA WorkerFrame ==
    ASSUME TypeOK, NEW w \in Worker, SchedStep(w)
    PROVE  /\ \A v \in Worker : v # w => worker'[v] = worker[v]
           /\ worker'[w].pc # "none" /\ worker'[w].ctx = "live" <=>
              worker[w].pc # "none" /\ worker[w].ctx = "live"
           /\ schedulerCancel' = schedulerCancel
  <1>1. worker[w] \in WorkerState /\ worker \in [Worker -> WorkerState]
    BY DEF TypeOK
  <1>2. CASE SchedTick(w)
    BY <1>1, <1>2 DEF SchedTick, WorkerState
  <1>3. ASSUME NEW r \in Reply, SchedReply(w, r)
        PROVE  /\ \A v \in Worker : v # w => worker'[v] = worker[v]
               /\ worker'[w].pc # "none" /\ worker'[w].ctx = "live" <=>
                  worker[w].pc # "none" /\ worker[w].ctx = "live"
               /\ schedulerCancel' = schedulerCancel
    BY <1>1, <1>3 DEF SchedReply, WorkerState
  <1>4. CASE SchedUpdate(w)
    BY <1>1, <1>4 DEF SchedUpdate, WorkerState, NoWorker
  <1>5. CASE SchedTickerFires(w)
    BY <1>1, <1>5 DEF SchedTickerFires, WorkerState
  <1>6. CASE SchedReturns(w)
    BY <1>1, <1>6 DEF SchedReturns, WorkerState, NoWorker
  <1>7. CASE StopCancels(w)
    BY <1>1, <1>7 DEF StopCancels, WorkerState
  <1> QED
    BY <1>2, <1>3, <1>4, <1>5, <1>6, <1>7 DEF SchedStep

(* The inductive form: schedulerCancel names the one goroutine that no     *)
(* stop has laid hands on, if there is one.                                *)
CancelIsLive ==
    \A w \in Worker :
        (worker[w].pc # "none" /\ worker[w].ctx = "live") <=> schedulerCancel = w

(* Every step keeps it.                                                    *)
LEMMA CancelReaches == Spec => []CancelIsLive
  <1>1. Init => CancelIsLive
    <2>1. ASSUME Init, NEW w \in Worker PROVE worker[w].pc = "none" /\ schedulerCancel # w
      <3>1. worker[w].pc = "none"
        BY <2>1 DEF Init, NoWorker
      <3>2. schedulerCancel # w
        BY <2>1, SessionAssumption, Zenon DEF Init, SessionAssumption
      <3> QED
        BY <3>1, <3>2
    <2> QED
      BY <2>1, Zenon DEF CancelIsLive
  <1>2. TypeOK /\ CancelIsLive /\ [Next]_vars => CancelIsLive'
    <2> SUFFICES ASSUME TypeOK, CancelIsLive, [Next]_vars PROVE CancelIsLive'
      OBVIOUS
    <2>1. ASSUME UNCHANGED <<worker, schedulerCancel>>
          PROVE  CancelIsLive'
      BY <2>1 DEF CancelIsLive
    <2>2. CASE StartOutboundScheduler
      <3>1. PICK w \in Worker : /\ worker[w].pc = "none" /\ schedulerCancel' = w
                               /\ worker' = [worker EXCEPT ![w] = [NoWorker EXCEPT !.pc = "tick"]]
        BY <2>2 DEF StartOutboundScheduler
      <3>2. schedulerCancel = None
        BY <2>2 DEF StartOutboundScheduler
      <3>3. worker'[w].pc = "tick" /\ worker'[w].ctx = "live"
        BY <3>1 DEF TypeOK, NoWorker
      <3>4. \A v \in Worker : v # w => worker'[v] = worker[v]
        BY <3>1 DEF TypeOK
      <3> QED
        BY <3>1, <3>2, <3>3, <3>4, SessionAssumption DEF CancelIsLive, SessionAssumption
    <2>3. CASE StopOutboundScheduler
      <3>1. schedulerCancel \in Worker
        BY <2>3 DEF StopOutboundScheduler, Running, TypeOK
      <3>2. worker'[schedulerCancel].ctx = "stopping" /\ schedulerCancel' = None
        BY <2>3, <3>1 DEF StopOutboundScheduler, TypeOK, WorkerState
      <3>3. \A v \in Worker : v # schedulerCancel => worker'[v] = worker[v]
        BY <2>3, <3>1 DEF StopOutboundScheduler, TypeOK
      <3> QED
        BY <3>1, <3>2, <3>3, SessionAssumption DEF CancelIsLive, SessionAssumption
    <2>4. ASSUME NEW w \in Worker, SchedStep(w)
          PROVE  CancelIsLive'
      BY <2>4, WorkerFrame DEF CancelIsLive
    <2>5. CASE sessionEngineLoop
      BY <2>1, <2>5, EngineStep DEF schedVars
    <2>6. CASE RetryIntervalElapses
      BY <2>1, <2>6 DEF RetryIntervalElapses
    <2>7. CASE UNCHANGED schedVars
      BY <2>1, <2>7 DEF schedVars
    <2> QED
      BY <2>2, <2>3, <2>4, <2>5, <2>6, <2>7
         DEF Next, ManualSend, ManualStep, ManualReply, ManualUpdate, Inbound, Interrupt,
             HostChanges, vars
  <1> QED
    BY <1>1, <1>2, TypeCorrect, PTL DEF Spec

(* However starts and stops cross, a live scheduler goroutine is the one   *)
(* the next stop will cancel or one that a stop is about to cancel, and    *)
(* schedulerCancel never names one that is cancelled or gone.              *)
THEOREM NoneLost == Spec => []NoSchedulerLost
  <1>1. TypeOK /\ CancelIsLive => NoSchedulerLost
    <2> SUFFICES ASSUME TypeOK, CancelIsLive, NEW w \in Worker
                 PROVE  /\ Live(w) => schedulerCancel = w \/ BeingStopped(w)
                        /\ schedulerCancel = w => Live(w) /\ ~BeingStopped(w)
      BY DEF NoSchedulerLost
    <2>1. worker[w].ctx \in {"live", "stopping", "done"}
      BY DEF TypeOK, WorkerState
    <2> QED
      BY <2>1 DEF CancelIsLive, Live, BeingStopped
  <1> QED
    BY <1>1, TypeCorrect, CancelReaches, PTL

-----------------------------------------------------------------------------
(* What a step does to the heartbeat, the session and the failure count:   *)
(* only a failure at the threshold degrades, and only it drops a session   *)
(* to idle; only a success, which is shown as healthy, clears the count.   *)
LEMMA HeartbeatKinds ==
    ASSUME TypeOK, [Next]_vars
    PROVE  \/ /\ UNCHANGED ConsecutiveFailures
              /\ HeartbeatState' # "degraded" \/ UNCHANGED HeartbeatState
              /\ SessionState' # "idle" \/ UNCHANGED SessionState
           \/ /\ ConsecutiveFailures' = 0
              /\ HeartbeatState' = "healthy"
              /\ SessionState' # "idle" \/ UNCHANGED SessionState
           \/ /\ ConsecutiveFailures' = FailureThreshold
              /\ HeartbeatState' = "degraded"
           \/ /\ ConsecutiveFailures < FailureThreshold
              /\ UNCHANGED <<SessionState, HeartbeatState>>
  <1> DEFINE K1 == /\ UNCHANGED ConsecutiveFailures
                   /\ HeartbeatState' # "degraded" \/ UNCHANGED HeartbeatState
                   /\ SessionState' # "idle" \/ UNCHANGED SessionState
             K2 == /\ ConsecutiveFailures' = 0
                   /\ HeartbeatState' = "healthy"
                   /\ SessionState' # "idle" \/ UNCHANGED SessionState
             K3 == /\ ConsecutiveFailures' = FailureThreshold
                   /\ HeartbeatState' = "degraded"
             K4 == /\ ConsecutiveFailures < FailureThreshold
                   /\ UNCHANGED <<SessionState, HeartbeatState>>
  <1>1. CASE UNCHANGED <<SessionState, HeartbeatState, ConsecutiveFailures>>
    BY <1>1
  <1>2. ASSUME NEW w \in Worker, SchedUpdate(w)
        PROVE  K2 \/ K3 \/ K4
    <2>0. ConsecutiveFailures \in 0..FailureThreshold /\ FailureThreshold \in Nat \ {0}
      BY SessionAssumption DEF TypeOK, SessionAssumption
    <2>1. CASE worker[w].reply = "ack"
      <3>1. ConsecutiveFailures' = 0
        BY <1>2, <2>1 DEF SchedUpdate, FailuresAfter
      <3>2. HeartbeatState' = "healthy" /\ SessionState' \in {"online", SessionState}
        BY <1>2, <2>1 DEF SchedUpdate
      <3> QED
        BY <3>1, <3>2
    <2>2. CASE worker[w].reply # "ack"
      <3>1. FailuresAfter(FALSE) \in 0..FailureThreshold
        BY <2>0 DEF FailuresAfter
      <3>2. ConsecutiveFailures' = FailuresAfter(FALSE)
        BY <1>2, <2>2, Zenon DEF SchedUpdate, FailuresAfter
      <3>3. CASE FailuresAfter(FALSE) >= FailureThreshold
        <4>1. FailuresAfter(FALSE) = FailureThreshold
          BY <2>0, <3>3 DEF FailuresAfter
        <4>2. HeartbeatState' = "degraded"
          BY <1>2, <2>2, <3>3 DEF SchedUpdate, FailuresAfter
        <4> QED
          BY <3>2, <4>1, <4>2
      <3>4. CASE ~(FailuresAfter(FALSE) >= FailureThreshold)
        <4>1. ConsecutiveFailures < FailureThreshold
          BY <2>0, <3>4 DEF FailuresAfter
        <4>2. ~(FailuresAfter(worker[w].reply = "ack") >= FailureThreshold)
          BY <2>2, <3>4 DEF FailuresAfter
        <4>3. UNCHANGED <<SessionState, HeartbeatState>>
          BY <1>2, <2>2, <4>2, Zenon DEF SchedUpdate
        <4> QED
          BY <4>1, <4>3
      <3> QED
        BY <3>3, <3>4
    <2> QED
      BY <2>1, <2>2
  <1>3. CASE sessionEngineLoop
    <2>1. UNCHANGED ConsecutiveFailures
      BY <1>3, EngineStep DEF schedVars
    <2>2. \/ UNCHANGED <<SessionState, HeartbeatState>>
          \/ /\ HeartbeatState' \in {"idle", "healthy", "failed"}
             /\ SessionState' \in {"online", "connect_failed", "startup_failed", SessionState}
      BY <1>3 DEF sessionEngineLoop, EngineReply, EngineOnline, EngineConnectFails, EngineExchange,
                  EngineStartupFails, EngineKeepAlive, EngineKeepAliveFails, EngineTicker,
                  EngineWakes, EngineStops, stateVars
    <2> QED
      BY <2>1, <2>2
  <1>4. ASSUME NEW m \in Manual, ManualUpdate(m)
        PROVE  K1
    BY <1>4 DEF ManualUpdate, schedVars
  <1>5. ASSUME NEW op \in InboundOps,
               NEW conn \in {"controller_connected", "controller_simulated"},
               Inbound(op, conn)
        PROVE  K1
    BY <1>5 DEF Inbound, schedVars
  <1>6. CASE UNCHANGED stateVars /\ UNCHANGED ConsecutiveFailures
    BY <1>1, <1>6 DEF stateVars
  <1>7. ASSUME NEW w \in Worker, SchedStep(w), ~SchedUpdate(w)
        PROVE  UNCHANGED stateVars /\ UNCHANGED ConsecutiveFailures
    BY <1>7 DEF SchedStep, SchedTick, SchedReply, SchedTickerFires, SchedReturns, StopCancels
  <1> QED
    BY <1>2, <1>3, <1>4, <1>5, <1>6, <1>7
       DEF Next, StartOutboundScheduler, StopOutboundScheduler, RetryIntervalElapses,
           ManualSend, ManualStep, ManualReply, Interrupt, HostChanges, vars, schedVars

(* A heartbeat shown as degraded goes with a failure count at the          *)
(* threshold, whatever starts, stops, messages and late results cross.     *)
THEOREM DegradedFailures == Spec => []DegradedMeansFailures
  <1>1. Init => DegradedMeansFailures
    BY DEF Init, DegradedMeansFailures
  <1>2. TypeOK /\ DegradedMeansFailures /\ [Next]_vars => DegradedMeansFailures'
    <2> SUFFICES ASSUME TypeOK, DegradedMeansFailures, [Next]_vars
                 PROVE  DegradedMeansFailures'
      OBVIOUS
    <2>1. FailureThreshold \in Nat
      BY SessionAssumption DEF SessionAssumption
    <2>2. ConsecutiveFailures < FailureThreshold => HeartbeatState # "degraded"
      BY <2>1 DEF DegradedMeansFailures
    <2> QED
      BY <2>2, HeartbeatKinds DEF DegradedMeansFailures
  <1> QED
    BY <1>1, <1>2, TypeCorrect, PTL DEF Spec

(* The scheduler takes an online session down only after a full run of     *)
(* consecutive failures.                                                   *)
THEOREM DropNotEarly == Spec => NoEarlyDrop
  <1> DEFINE A == SessionState = "online" /\ SessionState' = "idle" =>
                    ConsecutiveFailures' = FailureThreshold /\ HeartbeatState' = "degraded"
  <1>1. TypeOK /\ [Next]_vars => [A]_vars
    BY HeartbeatKinds
  <1> QED
    BY <1>1, TypeCorrect, PTL DEF Spec, NoEarlyDrop

(* No step of the scheduler or of a manual request touches the connection  *)
(* state, an inbound message shows its sender, and the engine leaves       *)
(* "host_unreachable" behind only when it has lost the host.               *)
THEOREM UnreachableLost == Spec => []UnreachableMeansLost
  <1>1. Init => UnreachableMeansLost
    BY DEF Init, UnreachableMeansLost
  <1>2. TypeOK /\ UnreachableMeansLost /\ [Next]_vars => UnreachableMeansLost'
    <2> SUFFICES ASSUME TypeOK, UnreachableMeansLost, [Next]_vars
                 PROVE  UnreachableMeansLost'
      OBVIOUS
    <2>1. CASE UNCHANGED <<ConnectionState, engine>>
      BY <2>1 DEF UnreachableMeansLost
    <2>2. ASSUME NEW r \in Reply, EngineReply(r) PROVE UnreachableMeansLost'
      BY <2>2 DEF EngineReply, stateVars, TypeOK, EngineState, UnreachableMeansLost
    <2>3. CASE EngineConnectFails \/ EngineKeepAliveFails
      BY <2>3 DEF EngineConnectFails, EngineKeepAliveFails, EngineGoto, UnreachableMeansLost
    <2>4. CASE EngineOnline \/ EngineStartupFails \/ EngineKeepAlive
      BY <2>4 DEF EngineOnline, EngineStartupFails, EngineKeepAlive, UnreachableMeansLost
    <2>5. CASE EngineExchange \/ EngineTicker
      BY <2>5 DEF EngineExchange, EngineTicker, EngineAcked, stateVars, UnreachableMeansLost
    <2>6. CASE EngineWakes \/ EngineStops
      BY <2>6 DEF EngineWakes, EngineStops, EngineGoto, stateVars, UnreachableMeansLost
    <2>7. ASSUME NEW op \in InboundOps,
                 NEW conn \in {"controller_connected", "controller_simulated"}, Inbound(op, conn)
          PROVE  UnreachableMeansLost'
      BY <2>7 DEF Inbound, UnreachableMeansLost
    <2>8. ASSUME NEW w \in Worker, SchedStep(w)
          PROVE  UNCHANGED <<ConnectionState, engine>>
      BY <2>8 DEF SchedStep, SchedTick, SchedReply, SchedUpdate, SchedTickerFires, SchedReturns,
         StopCancels, stateVars
    <2>9. ASSUME NEW m \in Manual, ManualStep(m)
          PROVE  UNCHANGED <<ConnectionState, engine>>
      BY <2>9 DEF ManualStep, ManualReply, ManualUpdate, stateVars
    <2>10. CASE \/ StartOutboundScheduler \/ StopOutboundScheduler \/ RetryIntervalElapses
                \/ Interrupt \/ HostChanges
                \/ \E m \in Manual, op \in Op, generic \in BOOLEAN : ManualSend(m, op, generic)
                \/ UNCHANGED vars
      <3>1. UNCHANGED <<ConnectionState, engine>>
        BY <2>10 DEF StartOutboundScheduler, StopOutboundScheduler, RetryIntervalElapses, Interrupt,
           HostChanges, ManualSend, stateVars, vars
      <3> QED
        BY <2>1, <3>1
    <2> QED
      BY <2>1, <2>2, <2>3, <2>4, <2>5, <2>6, <2>7, <2>8, <2>9, <2>10 DEF Next, sessionEngineLoop
  <1> QED
    BY <1>1, <1>2, TypeCorrect, PTL DEF Spec

-----------------------------------------------------------------------------
(* Without allow_generic_ack only a heartbeat may be content with a bare   *)
(* g2sResponse, from the time it is sent to the time its reply is applied. *)
GenericIsHeartbeat ==
    \A m \in Manual : manual[m].generic => manual[m].op = "keepAlive"

(* Every step keeps it.                                                    *)
LEMMA GenericStep ==
    ASSUME ~AllowGeneric, TypeOK, GenericIsHeartbeat, [Next]_vars
    PROVE  GenericIsHeartbeat'
  <1>0. manual \in [Manual -> ManualState]
    BY DEF TypeOK
  <1>1. ASSUME NEW m \in Manual, NEW op \in Op, NEW generic \in BOOLEAN, ManualSend(m, op, generic)
        PROVE  GenericIsHeartbeat'
    BY <1>0, <1>1 DEF ManualSend, GenericIsHeartbeat
  <1>2. ASSUME NEW m \in Manual, ManualStep(m)
        PROVE  GenericIsHeartbeat'
    <2>1. ASSUME NEW r \in Reply, ManualReply(m, r) PROVE GenericIsHeartbeat'
      BY <1>0, <2>1 DEF ManualReply, ManualState, GenericIsHeartbeat
    <2>2. CASE ManualUpdate(m)
      <3>1. manual' = [manual EXCEPT ![m] = NoManual]
        BY <2>2 DEF ManualUpdate
      <3> QED
        BY <1>0, <3>1 DEF NoManual, GenericIsHeartbeat
    <2> QED
      BY <1>2, <2>1, <2>2 DEF ManualStep
  <1>3. CASE UNCHANGED manual
    BY <1>3 DEF GenericIsHeartbeat
  <1>4. ASSUME NEW w \in Worker, SchedStep(w) PROVE UNCHANGED manual
    BY <1>4, SchedStateStep
  <1>5. CASE sessionEngineLoop
    BY <1>3, <1>5, EngineStep
  <1> QED
    BY <1>1, <1>2, <1>3, <1>4, <1>5
       DEF Next, StartOutboundScheduler, StopOutboundScheduler, RetryIntervalElapses, Inbound,
           Interrupt, HostChanges, vars

(* With neither of the two options that let a bare g2sResponse pass, the   *)
(* session goes online only on the proper ack of a commsOnLine it sent or  *)
(* on an inbound commsOnLine, whichever goroutine applies it and however   *)
(* late.  With allow_generic_ack it is false: see run SessionGeneric.      *)
THEOREM OnlineAcked ==
    ASSUME ~AllowGeneric, ~AcceptWrapped
    PROVE  Spec => OnlineNeedsAck
  <1> DEFINE A == SessionState # "online" /\ SessionState' = "online" =>
         \/ \E w \in Worker : /\ worker[w].pc = "result" /\ worker'[w].pc # "result"
                              /\ worker[w].op = "commsOnLine" /\ worker[w].reply = "ack"
         \/ \E m \in Manual : /\ manual[m].pc = "result" /\ manual'[m].pc # "result"
                              /\ manual[m].op = "commsOnLine" /\ manual[m].reply = "ack"
         \/ engine.pc = "commsOnLine" /\ engine.reply = "ack" /\ engine' # engine
         \/ UNCHANGED <<worker, manual, engine>>
  <1>1. Init => GenericIsHeartbeat
    BY DEF Init, GenericIsHeartbeat, NoManual
  <1>2. TypeOK /\ GenericIsHeartbeat /\ [Next]_vars => GenericIsHeartbeat'
    BY GenericStep
  <1>3. TypeOK /\ GenericIsHeartbeat /\ [Next]_vars => A
    <2> SUFFICES ASSUME TypeOK, GenericIsHeartbeat, [Next]_vars,
                        SessionState # "online", SessionState' = "online"
                 PROVE  A
      OBVIOUS
    <2>1. ASSUME NEW w \in Worker, SchedStep(w)
          PROVE  A
      <3>1. SchedUpdate(w)
        BY <2>1 DEF SchedStep, SchedTick, SchedReply, SchedTickerFires, SchedReturns,
           StopCancels, stateVars
      <3>2. worker[w].pc = "result" /\ worker[w].op = "commsOnLine" /\ worker[w].reply = "ack"
        BY <3>1 DEF SchedUpdate
      <3>3. worker'[w].pc = "select"
        BY <3>1 DEF SchedUpdate, TypeOK, NoWorker
      <3> QED
        BY <3>2, <3>3
    <2>2. ASSUME NEW m \in Manual, ManualStep(m)
          PROVE  A
      <3>1. ManualUpdate(m)
        BY <2>2 DEF ManualStep, ManualReply, stateVars
      <3>2. /\ manual[m].pc = "result" /\ manual[m].op = "commsOnLine"
            /\ SendOK(manual[m].reply, manual[m].generic)
        BY <3>1 DEF ManualUpdate
      <3>3. manual[m].reply = "ack"
        BY <3>2 DEF SendOK, GenericIsHeartbeat
      <3>4. manual'[m].pc = "none"
        BY <3>1 DEF ManualUpdate, TypeOK, NoManual
      <3> QED
        BY <3>2, <3>3, <3>4
    <2>3. CASE sessionEngineLoop
      <3>1. EngineOnline
        BY <2>3 DEF sessionEngineLoop, EngineReply, EngineConnectFails, EngineExchange,
           EngineStartupFails, EngineKeepAlive, EngineKeepAliveFails, EngineTicker, EngineWakes,
           EngineStops, stateVars
      <3>2. engine.pc = "commsOnLine" /\ engine.reply = "ack"
        BY <3>1 DEF EngineOnline, EngineAcked, resolveAck
      <3>3. engine'.pc = "getDescriptor"
        BY <3>1 DEF EngineOnline, EngineGoto
      <3> QED
        BY <3>2, <3>3
    <2>4. ASSUME NEW op \in InboundOps, NEW conn, Inbound(op, conn)
          PROVE  A
      BY <2>4 DEF Inbound, schedVars
    <2> QED
      BY <2>1, <2>2, <2>3, <2>4
         DEF Next, StartOutboundScheduler, StopOutboundScheduler, RetryIntervalElapses, ManualSend,
             Interrupt, HostChanges, vars, stateVars
  <1>4. TypeOK /\ GenericIsHeartbeat /\ [Next]_vars => [A]_vars
    BY <1>3
  <1> QED
    BY <1>1, <1>2, <1>4, TypeCorrect, PTL DEF Spec, OnlineNeedsAck
=============================================================================
