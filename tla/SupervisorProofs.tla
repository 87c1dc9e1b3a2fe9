-------------------------- MODULE SupervisorProofs --------------------------
(***************************************************************************)
(* What TLAPS proves about the supervisor, for every fleet, any number of  *)
(* processes and requests, every restart budget, and both meanings of      *)
(* ProcessState.Exited.                                                    *)
(***************************************************************************)
EXTENDS Supervisor, TLAPS

(* The inductive invariant: a monitor may only retire when its instance is *)
(* unwanted or untracked, so TrackedIsMonitored needs TrackedIsWanted.     *)
IInv == TypeOK /\ TrackedIsWanted /\ TrackedIsMonitored

(* A start takes a slot nobody tracks: the other instances keep their      *)
(* child.                                                                  *)
LEMMA SpawnFacts ==
    ASSUME TypeOK, NEW i \in Instance, NEW p \in Proc, startVEGMProcess(i, p)
    PROVE  /\ cmds' \in [Instance -> Proc \cup {None}]
           /\ procSt' \in [Proc -> ProcState]
           /\ procOf' \in [Proc -> Instance \cup {None}]
           /\ cmds'[i] = p /\ procSt'[p] = "up" /\ procOf'[p] = i
           /\ \A j \in Instance : j # i => cmds'[j] = cmds[j] /\ cmds[j] # p
           /\ \A q \in Proc : q # p => procSt'[q] = procSt[q] /\ procOf'[q] = procOf[q]
  BY DEF TypeOK, startVEGMProcess, FreeSlot, ProcState

(* Writing back a meta record of the right type changes one entry.         *)
LEMMA MetaFacts ==
    ASSUME TypeOK, NEW i \in Instance, NEW d \in BOOLEAN,
           NEW n \in 0..maxSupervisorRestarts, NEW x \in ExitText, writeMeta(i, d, n, x)
    PROVE  /\ restart' \in [Instance -> RestartMeta]
           /\ restart'[i] = [Desired |-> d, RestartCount |-> n, LastExit |-> x]
           /\ \A j \in Instance : j # i => restart'[j] = restart[j]
  BY DEF TypeOK, writeMeta, RestartMeta

(* The count of a typed state is within the budget.                        *)
LEMMA CountInRange ==
    ASSUME TypeOK, NEW i \in Instance
    PROVE  restart[i].RestartCount \in 0..maxSupervisorRestarts
  BY DEF TypeOK, RestartMeta

(* markDesired keeps the exit text; a stop clears the count.               *)
LEMMA MarkFacts ==
    ASSUME TypeOK, NEW i \in Instance, NEW d \in BOOLEAN, markDesired(i, d)
    PROVE  /\ restart' \in [Instance -> RestartMeta]
           /\ restart'[i] = [Desired |-> d, LastExit |-> restart[i].LastExit,
                             RestartCount |-> IF d THEN restart[i].RestartCount ELSE 0]
           /\ \A j \in Instance : j # i => restart'[j] = restart[j]
  <1>1. restart[i] \in RestartMeta
    BY DEF TypeOK
  <1>2. /\ restart[i].LastExit \in ExitText
        /\ (IF d THEN restart[i].RestartCount ELSE 0) \in 0..maxSupervisorRestarts
    BY <1>1, SupervisorAssumption DEF RestartMeta, SupervisorAssumption
  <1> QED
    BY <1>2, MetaFacts DEF markDesired

(* stopOne forgets one child; a process it leaves up is not that child.    *)
LEMMA StopFacts ==
    ASSUME TypeOK, NEW i \in Instance, stopOne(i)
    PROVE  /\ cmds' \in [Instance -> Proc \cup {None}]
           /\ procSt' \in [Proc -> ProcState]
           /\ restart' \in [Instance -> RestartMeta]
           /\ cmds'[i] = None
           /\ \A j \in Instance : j # i => cmds'[j] = cmds[j] /\ restart'[j] = restart[j]
           /\ ~restart'[i].Desired /\ restart'[i].RestartCount = 0
           /\ restart'[i].LastExit = restart[i].LastExit
           /\ \A p \in Proc : procSt[p] # "free" => procSt'[p] # "free"
           /\ \A p \in Proc : p = cmds[i] => procSt'[p] # "up"
           /\ UNCHANGED <<monitors, procOf>>
  <1>1. markDesired(i, FALSE)
    BY DEF stopOne
  <1>2. /\ restart' \in [Instance -> RestartMeta]
        /\ restart'[i] = [Desired |-> FALSE, RestartCount |-> 0,
                          LastExit |-> restart[i].LastExit]
        /\ \A j \in Instance : j # i => restart'[j] = restart[j]
    BY <1>1, MarkFacts
  <1>3. /\ cmds' \in [Instance -> Proc \cup {None}]
        /\ cmds'[i] = None
        /\ \A j \in Instance : j # i => cmds'[j] = cmds[j]
        /\ UNCHANGED <<monitors, procOf>>
    BY DEF stopOne, TypeOK
  <1>4. /\ procSt' \in [Proc -> ProcState]
        /\ \A p \in Proc : procSt[p] # "free" => procSt'[p] # "free"
        /\ \A p \in Proc : p = cmds[i] => procSt'[p] # "up"
    BY DEF stopOne, TypeOK, ProcState
  <1> QED
    BY <1>2, <1>3, <1>4

-----------------------------------------------------------------------------
(* A request moves on to its second half.                                  *)
SetPc(h, pc) == req' = [req EXCEPT ![h] = [pc |-> pc, todo |-> req[h].todo]]

(* The request records keep their type: the three ways a step writes them. *)
LEMMA ReqFacts ==
    ASSUME TypeOK, NEW h \in Handler
    PROVE  /\ \A i \in Instance : Advance(h, i) => ReqOK'
           /\ req' = [req EXCEPT ![h] = Idle] => ReqOK'
           /\ \A pc \in {"start", "commit"} : SetPc(h, pc) => ReqOK'
  <1>1. req[h] \in Request /\ req \in [Handler -> Request]
    BY DEF TypeOK, ReqOK
  <1>2. Idle \in Request
    BY DEF Idle, Request
  <1>3. \A i \in Instance : [pc |-> req[h].pc, todo |-> req[h].todo \ {i}] \in Request
    BY <1>1 DEF Request
  <1>4. \A pc \in {"start", "commit"} : [pc |-> pc, todo |-> req[h].todo] \in Request
    BY <1>1 DEF Request
  <1> QED
    BY <1>1, <1>2, <1>3, <1>4 DEF Advance, SetPc, ReqOK

(* Every step keeps every variable in its type.                            *)
LEMMA TypeStep ==
    TypeOK /\ [Next]_vars => TypeOK'
  <1> SUFFICES ASSUME TypeOK, [Next]_vars PROVE TypeOK'
    OBVIOUS
  <1> USE SupervisorAssumption DEF SupervisorAssumption
  <1>1. ASSUME NEW h \in Handler, NEW op \in {"start", "stop", "restart", "remove", "add"},
               NEW todo \in SUBSET Instance, Receive(h, op, todo)
        PROVE  TypeOK'
    BY <1>1 DEF Receive, TypeOK, ReqOK, Request
  <1>2. ASSUME NEW h \in Handler, ServeStart(h)
        PROVE  TypeOK'
    <2>1. PICK i \in req[h].todo :
             \/ startOneNoop(i) /\ Advance(h, i)
             \/ startOneSpawns(i) /\ Advance(h, i)
             \/ startOneFails(i) /\ req' = [req EXCEPT ![h] = Idle]
      BY <1>2 DEF ServeStart
    <2>2. i \in Instance /\ UNCHANGED generated
      BY <1>2 DEF ServeStart, TypeOK, ReqOK, Request
    <2>3. ReqOK'
      BY <2>1, <2>2, ReqFacts
    <2>4. CASE startOneNoop(i)
      BY <2>2, <2>3, <2>4 DEF startOneNoop, TypeOK
    <2>5. CASE startOneSpawns(i)
      <3>1. PICK p \in Proc : startVEGMProcess(i, p)
        BY <2>5 DEF startOneSpawns
      <3>2. markDesired(i, TRUE)
        BY <2>5 DEF startOneSpawns
      <3>3. restart' \in [Instance -> RestartMeta]
        BY <3>2, <2>2, MarkFacts
      <3>4. monitors' \in [Instance -> 0..MaxMonitors]
        BY <2>2, <2>5 DEF startOneSpawns, TypeOK
      <3> QED
        BY <3>1, <3>3, <3>4, <2>2, <2>3, SpawnFacts DEF TypeOK
    <2>6. CASE startOneFails(i)
      BY <2>2, <2>3, <2>6 DEF startOneFails, TypeOK
    <2> QED
      BY <2>1, <2>4, <2>5, <2>6
  <1>3. ASSUME NEW h \in Handler, ServeStop(h) \/ ServeRestart(h) \/ ServeRemoveStop(h)
        PROVE  TypeOK'
    <2>1. PICK i \in req[h].todo :
             /\ stopOne(i)
             /\ \/ Advance(h, i)
                \/ \E pc \in {"start", "commit"} : SetPc(h, pc)
      BY <1>3 DEF ServeStop, ServeRestart, ServeRemoveStop, SetPc
    <2>2. i \in Instance /\ UNCHANGED generated
      BY <1>3 DEF ServeStop, ServeRestart, ServeRemoveStop, TypeOK, ReqOK, Request
    <2>3. ReqOK'
      BY <2>1, <2>2, ReqFacts
    <2> QED
      BY <2>1, <2>2, <2>3, StopFacts DEF TypeOK
  <1>4. ASSUME NEW h \in Handler, ServeRemoveCommit(h)
        PROVE  TypeOK'
    <2>1. ReqOK'
      BY <1>4, ReqFacts DEF ServeRemoveCommit
    <2>2. ZeroMeta \in RestartMeta
      BY DEF ZeroMeta, RestartMeta, ExitText
    <2> QED
      BY <1>4, <2>1, <2>2 DEF ServeRemoveCommit, TypeOK, ReqOK, Request
  <1>5. ASSUME NEW h \in Handler, ServeEditFails(h) \/ ServeAdd(h)
        PROVE  TypeOK'
    <2>1. ReqOK'
      BY <1>5, ReqFacts DEF ServeEditFails, ServeAdd
    <2> QED
      BY <1>5, <2>1 DEF ServeEditFails, ServeAdd, TypeOK, ReqOK, Request
  <1>6. ASSUME NEW i \in Instance, MonitorReturns(i)
        PROVE  TypeOK'
    BY <1>6 DEF MonitorReturns, TypeOK, ReqOK
  <1>7. ASSUME NEW i \in Instance, MonitorGivesUp(i)
        PROVE  TypeOK'
    <2>1. restart' \in [Instance -> RestartMeta]
      BY <1>7, CountInRange, MetaFacts DEF MonitorGivesUp, ExitText
    <2>2. monitors' \in [Instance -> 0..MaxMonitors]
      BY <1>7 DEF MonitorGivesUp, MonitorSeesExit, TypeOK
    <2> QED
      BY <1>7, <2>1, <2>2 DEF MonitorGivesUp, TypeOK, ReqOK
  <1>8. ASSUME NEW i \in Instance, MonitorRestarts(i)
        PROVE  TypeOK'
    <2>1. PICK p \in Proc : startVEGMProcess(i, p)
      BY <1>8 DEF MonitorRestarts
    <2>2. restart[i].RestartCount + 1 \in 0..maxSupervisorRestarts
      BY <1>8, CountInRange DEF MonitorRestarts
    <2>3. restart' \in [Instance -> RestartMeta]
      BY <1>8, <2>2, MetaFacts DEF MonitorRestarts, ExitText
    <2> QED
      BY <1>8, <2>1, <2>3, SpawnFacts DEF MonitorRestarts, TypeOK, ReqOK
  <1>9. ASSUME NEW i \in Instance, MonitorCannotRestart(i)
        PROVE  TypeOK'
    <2>0. /\ monitors[i] > 0 /\ restart[i].RestartCount < maxSupervisorRestarts
          /\ monitors' = [monitors EXCEPT ![i] = @ - 1]
      BY <1>9, Zenon DEF MonitorCannotRestart, MonitorSeesExit
    <2>1. restart[i].RestartCount + 1 \in 0..maxSupervisorRestarts
      BY <2>0, CountInRange
    <2>2. restart' \in [Instance -> RestartMeta]
      BY <1>9, <2>1, MetaFacts DEF MonitorCannotRestart, ExitText
    <2>3. monitors' \in [Instance -> 0..MaxMonitors]
      BY <2>0 DEF TypeOK
    <2>4. cmds' \in [Instance -> Proc \cup {None}]
      BY <1>9 DEF MonitorCannotRestart, TypeOK
    <2> QED
      BY <1>9, <2>2, <2>3, <2>4 DEF MonitorCannotRestart, TypeOK, ReqOK
  <1>10. ASSUME NEW p \in Proc, NEW how \in {"exited", "signaled"}, ChildEnds(p, how)
         PROVE  TypeOK'
    BY <1>10 DEF ChildEnds, TypeOK, ReqOK, ProcState
  <1>11. CASE UNCHANGED vars
    BY <1>11 DEF vars, TypeOK, ReqOK
  <1> QED
    BY <1>1, <1>2, <1>3, <1>4, <1>5, <1>6, <1>7, <1>8, <1>9, <1>10, <1>11
       DEF Next, Serve, monitorChild

(* The initial state is typed.                                             *)
LEMMA InitType == Init => TypeOK
  <1>1. ZeroMeta \in RestartMeta
    BY SupervisorAssumption DEF ZeroMeta, RestartMeta, ExitText, SupervisorAssumption
  <1>2. Idle \in Request
    BY DEF Idle, Request
  <1>3. 0 \in 0..MaxMonitors /\ InitFleet \subseteq Instance
    BY SupervisorAssumption DEF SupervisorAssumption
  <1> QED
    BY <1>1, <1>2, <1>3 DEF Init, TypeOK, ReqOK, ProcState

(* The supervisor's variables always have their types: in particular the   *)
(* restart count never passes maxSupervisorRestarts.                       *)
THEOREM TypeCorrect == Spec => []TypeOK
  BY InitType, TypeStep, PTL DEF Spec

-----------------------------------------------------------------------------
(* A spawn for a wanted instance of the fleet keeps the tracked children   *)
(* wanted; monitors never go down in such a step.                          *)
LEMMA SpawnKeepsTracked ==
    ASSUME IInv, NEW i \in Instance, NEW p \in Proc, startVEGMProcess(i, p),
           restart'[i].Desired, \A j \in Instance : j # i => restart'[j] = restart[j],
           i \in generated, UNCHANGED generated,
           monitors'[i] > 0, \A j \in Instance : j # i => monitors'[j] = monitors[j]
    PROVE  TrackedIsWanted' /\ TrackedIsMonitored'
  <1>1. TypeOK
    BY DEF IInv
  <1>2. /\ cmds'[i] = p /\ procSt'[p] = "up" /\ procOf'[p] = i
        /\ \A j \in Instance : j # i => cmds'[j] = cmds[j] /\ cmds[j] # p
        /\ \A q \in Proc : q # p => procSt'[q] = procSt[q] /\ procOf'[q] = procOf[q]
    BY <1>1, SpawnFacts
  <1>3. \A j \in Instance : cmds[j] # None => cmds[j] \in Proc
    BY <1>1 DEF TypeOK
  <1> QED
    BY <1>2, <1>3 DEF IInv, TrackedIsWanted, TrackedIsMonitored

(* Forgetting one child, and nothing else about the others, keeps the      *)
(* tracked children wanted and monitored.                                  *)
LEMMA ForgetKeepsTracked ==
    ASSUME IInv, NEW i \in Instance, cmds'[i] = None,
           \A j \in Instance : j # i => /\ cmds'[j] = cmds[j]
                                        /\ restart'[j] = restart[j]
                                        /\ monitors'[j] = monitors[j]
                                        /\ j \in generated => j \in generated',
           \A p \in Proc : procSt[p] # "free" => procSt'[p] # "free",
           UNCHANGED procOf
    PROVE  TrackedIsWanted' /\ TrackedIsMonitored'
  <1>1. \A j \in Instance : cmds[j] # None => cmds[j] \in Proc
    BY DEF IInv, TypeOK
  <1> SUFFICES ASSUME NEW j \in Instance, cmds'[j] # None
               PROVE  /\ restart'[j].Desired /\ j \in generated'
                      /\ procOf'[cmds'[j]] = j /\ procSt'[cmds'[j]] # "free"
                      /\ monitors'[j] > 0
    BY DEF TrackedIsWanted, TrackedIsMonitored
  <1>2. /\ cmds'[j] = cmds[j] /\ restart'[j] = restart[j] /\ monitors'[j] = monitors[j]
        /\ j \in generated => j \in generated'
    OBVIOUS
  <1> QED
    BY <1>1, <1>2 DEF IInv, TrackedIsWanted, TrackedIsMonitored

(* Every step keeps the tracked children wanted and monitored.             *)
LEMMA TrackedStep ==
    IInv /\ [Next]_vars => TrackedIsWanted' /\ TrackedIsMonitored'
  <1> SUFFICES ASSUME IInv, [Next]_vars PROVE TrackedIsWanted' /\ TrackedIsMonitored'
    OBVIOUS
  <1>t. TypeOK
    BY DEF IInv
  <1>1. ASSUME UNCHANGED <<generated, cmds, restart, monitors, procSt, procOf>>
        PROVE  TrackedIsWanted' /\ TrackedIsMonitored'
    BY <1>1 DEF IInv, TrackedIsWanted, TrackedIsMonitored
  <1>2. ASSUME NEW h \in Handler, ServeStart(h)
        PROVE  TrackedIsWanted' /\ TrackedIsMonitored'
    <2>1. PICK i \in req[h].todo : startOneNoop(i) \/ startOneSpawns(i) \/ startOneFails(i)
      BY <1>2 DEF ServeStart
    <2>2. i \in Instance /\ UNCHANGED generated
      BY <1>2, <1>t DEF ServeStart, TypeOK, ReqOK, Request
    <2>3. CASE startOneNoop(i)
      BY <2>2, <2>3, <1>1 DEF startOneNoop
    <2>4. CASE startOneSpawns(i)
      <3>1. PICK p \in Proc : startVEGMProcess(i, p)
        BY <2>4 DEF startOneSpawns
      <3>2. markDesired(i, TRUE) /\ i \in generated
        BY <2>4 DEF startOneSpawns
      <3>3. restart'[i].Desired /\ \A j \in Instance : j # i => restart'[j] = restart[j]
        BY <1>t, <2>2, <3>2 DEF markDesired, writeMeta, TypeOK
      <3>4. monitors'[i] > 0 /\ \A j \in Instance : j # i => monitors'[j] = monitors[j]
        BY <1>t, <2>2, <2>4 DEF startOneSpawns, TypeOK
      <3> QED
        BY <2>2, <3>1, <3>2, <3>3, <3>4, SpawnKeepsTracked
    <2>5. CASE startOneFails(i)
      BY <1>t, <2>2, <2>5, ForgetKeepsTracked DEF startOneFails, TypeOK
    <2> QED
      BY <2>1, <2>3, <2>4, <2>5
  <1>3. ASSUME NEW h \in Handler, ServeStop(h) \/ ServeRestart(h) \/ ServeRemoveStop(h)
        PROVE  TrackedIsWanted' /\ TrackedIsMonitored'
    <2>1. PICK i \in req[h].todo : stopOne(i)
      BY <1>3 DEF ServeStop, ServeRestart, ServeRemoveStop
    <2>2. i \in Instance /\ UNCHANGED generated
      BY <1>3, <1>t DEF ServeStop, ServeRestart, ServeRemoveStop, TypeOK, ReqOK, Request
    <2> QED
      BY <1>t, <2>1, <2>2, StopFacts, ForgetKeepsTracked
  <1>4. ASSUME NEW h \in Handler, ServeRemoveCommit(h)
        PROVE  TrackedIsWanted' /\ TrackedIsMonitored'
    <2>1. PICK i \in req[h].todo :
             /\ generated' = generated \ {i}
             /\ cmds' = [cmds EXCEPT ![i] = None]
             /\ restart' = [restart EXCEPT ![i] = ZeroMeta]
      BY <1>4 DEF ServeRemoveCommit
    <2>2. i \in Instance
      BY <1>4, <1>t DEF ServeRemoveCommit, TypeOK, ReqOK, Request
    <2>3. UNCHANGED <<monitors, procSt, procOf>>
      BY <1>4 DEF ServeRemoveCommit
    <2> QED
      BY <1>t, <2>1, <2>2, <2>3, ForgetKeepsTracked DEF TypeOK
  <1>5. ASSUME NEW h \in Handler, ServeAdd(h)
        PROVE  TrackedIsWanted' /\ TrackedIsMonitored'
    BY <1>5 DEF ServeAdd, IInv, TrackedIsWanted, TrackedIsMonitored
  <1>6. ASSUME NEW i \in Instance, MonitorReturns(i)
        PROVE  TrackedIsWanted' /\ TrackedIsMonitored'
    <2>1. cmds[i] = None /\ UNCHANGED <<generated, cmds, restart, procSt, procOf>>
      BY <1>6 DEF MonitorReturns, IInv, TrackedIsWanted
    <2>2. \A j \in Instance : j # i => monitors'[j] = monitors[j]
      BY <1>6, <1>t DEF MonitorReturns, TypeOK
    <2> QED
      BY <2>1, <2>2, ForgetKeepsTracked
  <1>7. ASSUME NEW i \in Instance, MonitorGivesUp(i) \/ MonitorCannotRestart(i)
        PROVE  TrackedIsWanted' /\ TrackedIsMonitored'
    <2>1. /\ cmds' = [cmds EXCEPT ![i] = None]
          /\ monitors' = [monitors EXCEPT ![i] = @ - 1]
          /\ UNCHANGED <<generated, procSt, procOf>>
      BY <1>7, Zenon DEF MonitorGivesUp, MonitorCannotRestart
    <2>2. \A j \in Instance : j # i => restart'[j] = restart[j]
      BY <1>7, <1>t DEF MonitorGivesUp, MonitorCannotRestart, writeMeta, TypeOK
    <2>3. \A j \in Instance : j # i => cmds'[j] = cmds[j] /\ monitors'[j] = monitors[j]
      BY <1>t, <2>1 DEF TypeOK
    <2>4. cmds'[i] = None
      BY <1>t, <2>1 DEF TypeOK
    <2> QED
      BY <2>1, <2>2, <2>3, <2>4, ForgetKeepsTracked
  <1>8. ASSUME NEW i \in Instance, MonitorRestarts(i)
        PROVE  TrackedIsWanted' /\ TrackedIsMonitored'
    <2>1. PICK p \in Proc : startVEGMProcess(i, p)
      BY <1>8 DEF MonitorRestarts
    <2>2. /\ i \in generated /\ monitors[i] > 0
          /\ UNCHANGED <<generated, monitors>>
      BY <1>8 DEF MonitorRestarts, MonitorSeesExit
    <2>3. restart'[i].Desired /\ \A j \in Instance : j # i => restart'[j] = restart[j]
      BY <1>8, <1>t DEF MonitorRestarts, writeMeta, TypeOK
    <2> QED
      BY <2>1, <2>2, <2>3, SpawnKeepsTracked
  <1>9. ASSUME NEW p \in Proc, NEW how \in {"exited", "signaled"}, ChildEnds(p, how)
        PROVE  TrackedIsWanted' /\ TrackedIsMonitored'
    BY <1>9, <1>t DEF ChildEnds, IInv, TrackedIsWanted, TrackedIsMonitored, TypeOK
  <1> QED
    BY <1>1, <1>2, <1>3, <1>4, <1>5, <1>6, <1>7, <1>8, <1>9
       DEF Next, Serve, monitorChild, Receive, ServeEditFails, vars

(* The inductive invariant holds in every reachable state.                 *)
LEMMA Inductive == Spec => []IInv
  <1>1. Init => IInv
    <2>1. ASSUME Init PROVE TrackedIsWanted /\ TrackedIsMonitored
      BY <2>1 DEF Init, TrackedIsWanted, TrackedIsMonitored
    <2> QED
      BY <2>1, InitType DEF IInv
  <1>2. IInv /\ [Next]_vars => IInv'
    BY TypeStep, TrackedStep DEF IInv
  <1> QED
    BY <1>1, <1>2, PTL DEF Spec

(* However requests, monitors and the operating system interleave, a       *)
(* tracked child runs its own instance's configuration and the instance is *)
(* in the fleet and wanted.                                                *)
THEOREM TrackedWanted == Spec => []TrackedIsWanted
  BY Inductive, PTL DEF IInv

(* However requests, monitors and the operating system interleave, a       *)
(* tracked child has a monitor goroutine.                                  *)
THEOREM TrackedMonitored == Spec => []TrackedIsMonitored
  BY Inductive, PTL DEF IInv

-----------------------------------------------------------------------------
(* A step as a supervisor's log would show it: which instance, if any, it  *)
(* works on, and what it does to that instance's entries.                  *)
StartsOne(i) ==
    /\ ~processRunning(i)
    /\ \E p \in Proc : startVEGMProcess(i, p)
    /\ markDesired(i, TRUE)

GivesBack(i) ==
    /\ ~processRunning(i)
    /\ cmds' = [cmds EXCEPT ![i] = None]
    /\ UNCHANGED procSt
    /\ \/ UNCHANGED restart
       \/ \E d \in BOOLEAN, n \in Nat, x \in {"exited", "restart failed"} :
             n >= restart[i].RestartCount /\ writeMeta(i, d, n, x)

Replaces(i) ==
    /\ Exited(cmds[i])
    /\ \E p \in Proc : startVEGMProcess(i, p)
    /\ writeMeta(i, TRUE, restart[i].RestartCount + 1, "exited")

Removes(i) ==
    /\ generated' = generated \ {i}
    /\ cmds' = [cmds EXCEPT ![i] = None]
    /\ restart' = [restart EXCEPT ![i] = ZeroMeta]

(* Every step of the supervisor leaves s.cmds and s.restart alone or works *)
(* on exactly one instance in one of five ways.                            *)
LEMMA StepKinds ==
    ASSUME TypeOK, [Next]_vars
    PROVE  \/ UNCHANGED <<cmds, restart>>
           \/ \E i \in Instance :
                stopOne(i) \/ StartsOne(i) \/ GivesBack(i) \/ Replaces(i) \/ Removes(i)
  <1> DEFINE Kinds == \/ UNCHANGED <<cmds, restart>>
                     \/ \E i \in Instance : \/ stopOne(i) \/ StartsOne(i) \/ GivesBack(i)
                                             \/ Replaces(i) \/ Removes(i)
  <1>1. ASSUME NEW h \in Handler, ServeStart(h)
        PROVE  Kinds
    <2>1. PICK i \in req[h].todo : startOneNoop(i) \/ startOneSpawns(i) \/ startOneFails(i)
      BY <1>1 DEF ServeStart
    <2>2. i \in Instance
      BY <1>1 DEF TypeOK, ReqOK, Request
    <2>3. startOneNoop(i) => UNCHANGED <<cmds, restart>>
      BY DEF startOneNoop
    <2>4. startOneSpawns(i) => StartsOne(i)
      BY DEF startOneSpawns, StartsOne
    <2>5. startOneFails(i) => GivesBack(i)
      BY DEF startOneFails, GivesBack
    <2> QED
      BY <2>1, <2>2, <2>3, <2>4, <2>5
  <1>2. ASSUME NEW h \in Handler, ServeStop(h) \/ ServeRestart(h) \/ ServeRemoveStop(h)
        PROVE  Kinds
    <2>1. PICK i \in req[h].todo : stopOne(i)
      BY <1>2 DEF ServeStop, ServeRestart, ServeRemoveStop
    <2>2. i \in Instance
      BY <1>2 DEF TypeOK, ReqOK, Request
    <2> QED
      BY <2>1, <2>2
  <1>3. ASSUME NEW h \in Handler, ServeRemoveCommit(h)
        PROVE  Kinds
    <2>1. PICK i \in req[h].todo : Removes(i)
      BY <1>3 DEF ServeRemoveCommit, Removes
    <2>2. i \in Instance
      BY <1>3 DEF TypeOK, ReqOK, Request
    <2> QED
      BY <2>1, <2>2
  <1>4. ASSUME NEW i \in Instance, MonitorGivesUp(i) \/ MonitorCannotRestart(i)
        PROVE  GivesBack(i)
    <2>1. /\ Exited(cmds[i])
          /\ cmds' = [cmds EXCEPT ![i] = None]
          /\ UNCHANGED procSt
      BY <1>4, Zenon DEF MonitorGivesUp, MonitorCannotRestart, MonitorSeesExit
    <2>2. /\ restart[i].RestartCount \in Nat /\ restart[i].RestartCount + 1 \in Nat
          /\ restart[i].RestartCount >= restart[i].RestartCount
          /\ restart[i].RestartCount + 1 >= restart[i].RestartCount
      BY CountInRange
    <2>3. \/ writeMeta(i, FALSE, restart[i].RestartCount, "exited")
          \/ writeMeta(i, TRUE, restart[i].RestartCount + 1, "exited")
          \/ writeMeta(i, TRUE, restart[i].RestartCount + 1, "restart failed")
      BY <1>4 DEF MonitorGivesUp, MonitorCannotRestart, writeMeta
    <2>4. \E d \in BOOLEAN, n \in Nat, x \in {"exited", "restart failed"} :
             n >= restart[i].RestartCount /\ writeMeta(i, d, n, x)
      BY <2>2, <2>3, Zenon
    <2> QED
      BY <2>1, <2>4 DEF GivesBack, processRunning
  <1>5. ASSUME NEW i \in Instance, MonitorRestarts(i)
        PROVE  Replaces(i)
    BY <1>5 DEF MonitorRestarts, MonitorSeesExit, Replaces
  <1>6. ASSUME NEW i \in Instance, MonitorReturns(i)
        PROVE  UNCHANGED <<cmds, restart>>
    BY <1>6 DEF MonitorReturns
  <1> QED
    BY <1>1, <1>2, <1>3, <1>4, <1>5, <1>6
       DEF Next, Serve, monitorChild, Receive, ServeEditFails, ServeAdd, ChildEnds, vars

(* Of two monitors, or a monitor and a start request, that find the same   *)
(* exited child, only the first replaces it: the second finds the new one. *)
THEOREM ReplacedOnce == Spec => ReplacedOnlyWhenExited
  <1> DEFINE A == \A i \in Instance :
                     cmds[i] # None /\ cmds'[i] \notin {None, cmds[i]} => Exited(cmds[i])
  <1>1. TypeOK /\ [Next]_vars => A
    <2> SUFFICES ASSUME TypeOK, [Next]_vars, NEW j \in Instance,
                        cmds[j] # None, cmds'[j] \notin {None, cmds[j]}
                 PROVE  Exited(cmds[j])
      OBVIOUS
    <2>1. ~ UNCHANGED <<cmds, restart>>
      OBVIOUS
    <2>2. PICK i \in Instance :
             stopOne(i) \/ StartsOne(i) \/ GivesBack(i) \/ Replaces(i) \/ Removes(i)
      BY <2>1, StepKinds
    <2>3. CASE stopOne(i) \/ GivesBack(i) \/ Removes(i)
      <3>1. cmds' = [cmds EXCEPT ![i] = None]
        BY <2>3 DEF stopOne, GivesBack, Removes
      <3> QED
        BY <3>1 DEF TypeOK
    <2>4. CASE StartsOne(i) \/ Replaces(i)
      <3>1. PICK p \in Proc : startVEGMProcess(i, p)
        BY <2>4 DEF StartsOne, Replaces
      <3>2. i = j
        BY <3>1 DEF startVEGMProcess, TypeOK
      <3> QED
        BY <2>4, <3>2 DEF StartsOne, Replaces, processRunning
    <2> QED
      BY <2>2, <2>3, <2>4
  <1>2. TypeOK /\ [Next]_vars => [A]_vars
    BY <1>1
  <1> QED
    BY <1>2, TypeCorrect, PTL DEF Spec, ReplacedOnlyWhenExited

(* A running child that was not told to stop leaves s.cmds only together   *)
(* with its instance.                                                      *)
THEOREM OrphanedByRemoval == Spec => OrphanedOnlyByRemoval
  <1> DEFINE A == \A p \in Proc :
                     /\ procSt[p] = "up" /\ procSt'[p] = "up"
                     /\ \E i \in Instance : cmds[i] = p
                     /\ \A i \in Instance : cmds'[i] # p
                     => procOf[p] \notin generated'
  <1>1. IInv /\ [Next]_vars => A
    <2> SUFFICES ASSUME IInv, [Next]_vars, NEW p \in Proc, NEW j \in Instance,
                        procSt[p] = "up", procSt'[p] = "up", cmds[j] = p,
                        \A i \in Instance : cmds'[i] # p
                 PROVE  procOf[p] \notin generated'
      OBVIOUS
    <2>t. TypeOK
      BY DEF IInv
    <2>1. ~Exited(p) /\ processRunning(j)
      BY SupervisorAssumption DEF Exited, processRunning, SupervisorAssumption
    <2>2. cmds'[j] # cmds[j]
      OBVIOUS
    <2>3. PICK i \in Instance :
             stopOne(i) \/ StartsOne(i) \/ GivesBack(i) \/ Replaces(i) \/ Removes(i)
      BY <2>t, <2>2, StepKinds
    <2>4. i = j
      BY <2>t, <2>2, <2>3 DEF stopOne, StartsOne, GivesBack, Replaces, Removes,
                              startVEGMProcess, TypeOK
    <2>5. ~(stopOne(i) \/ StartsOne(i) \/ GivesBack(i) \/ Replaces(i))
      BY <2>t, <2>1, <2>4, StopFacts DEF StartsOne, GivesBack, Replaces
    <2>6. Removes(i)
      BY <2>3, <2>5
    <2>7. procOf[p] = j
      BY SupervisorAssumption DEF IInv, TrackedIsWanted, SupervisorAssumption
    <2> QED
      BY <2>4, <2>6, <2>7 DEF Removes
  <1>2. IInv /\ [Next]_vars => [A]_vars
    BY <1>1
  <1> QED
    BY <1>2, Inductive, PTL DEF Spec, OrphanedOnlyByRemoval

-----------------------------------------------------------------------------
(* Between the two halves of a removal nothing tracks the instance: a      *)
(* monitor only replaces a child that is tracked, so only another request  *)
(* could have started one.  A removal is of one instance.                  *)
StoppedForRemoval ==
    \A h \in Handler :
        /\ req[h].pc = "remove" => \E i \in Instance : req[h].todo = {i}
        /\ req[h].pc = "commit" => \A i \in req[h].todo : cmds[i] = None

(* A child that counts as exited is not up.                                *)
LEMMA ExitedNotUp ==
    ASSUME TypeOK, NEW i \in Instance, ~processRunning(i), NoOrphan
    PROVE  \A p \in Proc : procSt[p] = "up" => procOf[p] \in Instance /\ procOf[p] # i
                                               /\ cmds[procOf[p]] = p
  <1> SUFFICES ASSUME NEW p \in Proc, procSt[p] = "up"
               PROVE  procOf[p] \in Instance /\ procOf[p] # i /\ cmds[procOf[p]] = p
    OBVIOUS
  <1>1. procOf[p] \in Instance /\ cmds[procOf[p]] = p
    BY DEF NoOrphan, TypeOK
  <1>2. p # None
    BY SupervisorAssumption DEF SupervisorAssumption
  <1>3. cmds[i] # p
    BY <1>2 DEF processRunning, Exited
  <1> QED
    BY <1>1, <1>3

(* Starting a child where none is running leaves none out.                 *)
LEMMA SpawnKeepsReach ==
    ASSUME TypeOK, NoOrphan, NEW i \in Instance, NEW p \in Proc,
           ~processRunning(i), startVEGMProcess(i, p)
    PROVE  NoOrphan'
  <1>1. /\ cmds'[i] = p /\ procOf'[p] = i
        /\ \A j \in Instance : j # i => cmds'[j] = cmds[j]
        /\ \A q \in Proc : q # p => procSt'[q] = procSt[q] /\ procOf'[q] = procOf[q]
    BY SpawnFacts
  <1>2. \A q \in Proc : procSt[q] = "up" => procOf[q] \in Instance /\ procOf[q] # i
                                             /\ cmds[procOf[q]] = q
    BY ExitedNotUp
  <1>3. i # None
    BY SupervisorAssumption DEF SupervisorAssumption
  <1> SUFFICES ASSUME NEW q \in Proc, procSt'[q] = "up"
               PROVE  procOf'[q] # None /\ cmds'[procOf'[q]] = q
    BY DEF NoOrphan
  <1>4. CASE q = p
    BY <1>1, <1>3, <1>4
  <1>5. CASE q # p
    <2>1. procSt[q] = "up" /\ procOf'[q] = procOf[q]
      BY <1>1, <1>5
    <2> QED
      BY <1>1, <1>2, <2>1 DEF NoOrphan
  <1> QED
    BY <1>4, <1>5

(* Forgetting a child that does not run on leaves none out.                *)
LEMMA ForgetKeepsReach ==
    ASSUME TypeOK, NoOrphan, NEW i \in Instance, cmds' = [cmds EXCEPT ![i] = None],
           UNCHANGED procOf,
           \A p \in Proc : procSt'[p] = "up" => procSt[p] = "up" /\ cmds[i] # p
    PROVE  NoOrphan'
  <1> SUFFICES ASSUME NEW p \in Proc, procSt'[p] = "up"
               PROVE  procOf'[p] # None /\ cmds'[procOf'[p]] = p
    BY DEF NoOrphan
  <1>1. procSt[p] = "up" /\ cmds[i] # p
    OBVIOUS
  <1>2. procOf[p] # None /\ cmds[procOf[p]] = p /\ procOf[p] \in Instance
    BY <1>1 DEF NoOrphan, TypeOK
  <1> QED
    BY <1>1, <1>2 DEF TypeOK

(* With one request at a time every step keeps every running child within  *)
(* reach, and the instance of a half-done removal untracked.               *)
LEMMA ReachStep ==
    ASSUME TypeOK, NoOrphan, StoppedForRemoval, [Next]_vars,
           \A h, k \in Handler : h = k
    PROVE  NoOrphan' /\ StoppedForRemoval'
  <1>n. None \notin Proc
    BY SupervisorAssumption DEF SupervisorAssumption
  <1>i. ASSUME NEW h \in Handler, req' = [req EXCEPT ![h] = Idle]
        PROVE  StoppedForRemoval'
    BY <1>i DEF StoppedForRemoval, TypeOK, ReqOK, Idle
  <1>a. ASSUME NEW h \in Handler, NEW i \in Instance, Advance(h, i),
               req[h].pc # "commit", req[h].pc # "remove"
        PROVE  StoppedForRemoval'
    <2>1. req'[h].pc # "commit" /\ req'[h].pc # "remove"
      BY <1>a DEF Advance, TypeOK, ReqOK, Idle
    <2> QED
      BY <2>1 DEF StoppedForRemoval
  <1>m. ASSUME UNCHANGED req, \A i \in Instance : cmds[i] = None => cmds'[i] = None
        PROVE  StoppedForRemoval'
    BY <1>m DEF StoppedForRemoval, TypeOK, ReqOK, Request
  <1>1. ASSUME NEW h \in Handler, NEW op \in {"start", "stop", "restart", "remove", "add"},
               NEW todo \in SUBSET Instance, Receive(h, op, todo)
        PROVE  NoOrphan' /\ StoppedForRemoval'
    <2>1. req'[h].pc = op /\ req'[h].todo = todo
      BY <1>1 DEF Receive, TypeOK, ReqOK
    <2>2. op # "commit" /\ (op = "remove" => \E i \in Instance : todo = {i})
      BY <1>1 DEF Receive
    <2> QED
      BY <1>1, <2>1, <2>2 DEF Receive, NoOrphan, StoppedForRemoval
  <1>2. ASSUME NEW h \in Handler, ServeStart(h)
        PROVE  NoOrphan' /\ StoppedForRemoval'
    <2>1. PICK i \in req[h].todo :
             \/ startOneNoop(i) /\ Advance(h, i)
             \/ startOneSpawns(i) /\ Advance(h, i)
             \/ startOneFails(i) /\ req' = [req EXCEPT ![h] = Idle]
      BY <1>2 DEF ServeStart
    <2>2. i \in Instance /\ req[h].pc # "commit" /\ req[h].pc # "remove"
      BY <1>2 DEF ServeStart, TypeOK, ReqOK, Request
    <2>3. StoppedForRemoval'
      BY <1>a, <1>i, <2>1, <2>2
    <2>4. CASE startOneNoop(i)
      BY <2>3, <2>4 DEF startOneNoop, NoOrphan
    <2>5. CASE startOneSpawns(i)
      BY <2>2, <2>3, <2>5, SpawnKeepsReach DEF startOneSpawns
    <2>6. CASE startOneFails(i)
      <3>1. ~processRunning(i) /\ cmds' = [cmds EXCEPT ![i] = None] /\ UNCHANGED <<procSt, procOf>>
        BY <2>6 DEF startOneFails
      <3>2. \A p \in Proc : procSt[p] = "up" => cmds[i] # p
        BY <1>n, <3>1 DEF processRunning, Exited
      <3> QED
        BY <2>2, <2>3, <3>1, <3>2, ForgetKeepsReach
    <2> QED
      BY <2>1, <2>4, <2>5, <2>6
  <1>3. ASSUME NEW h \in Handler, ServeStop(h) \/ ServeRestart(h) \/ ServeRemoveStop(h)
        PROVE  NoOrphan' /\ StoppedForRemoval'
    <2>1. PICK i \in req[h].todo : stopOne(i) /\ (ServeStop(h) => Advance(h, i))
      BY <1>3 DEF ServeStop, ServeRestart, ServeRemoveStop
    <2>2. i \in Instance
      BY <1>3 DEF TypeOK, ReqOK, Request
    <2>3. NoOrphan'
      <3>1. cmds' = [cmds EXCEPT ![i] = None] /\ UNCHANGED procOf
        BY <2>1 DEF stopOne
      <3>2. \A p \in Proc : procSt'[p] = "up" => procSt[p] = "up" /\ cmds[i] # p
        BY <2>1 DEF stopOne, TypeOK
      <3> QED
        BY <2>2, <3>1, <3>2, ForgetKeepsReach
    <2>4. CASE ServeStop(h)
      <3>1. req[h].pc # "commit" /\ req[h].pc # "remove"
        BY <2>4 DEF ServeStop
      <3> QED
        BY <1>a, <2>1, <2>2, <2>3, <2>4, <3>1
    <2>5. CASE ServeRestart(h)
      <3>1. req'[h].pc # "commit" /\ req'[h].pc # "remove"
        BY <2>5 DEF ServeRestart, TypeOK, ReqOK
      <3> QED
        BY <2>3, <3>1 DEF StoppedForRemoval
    <2>6. CASE ServeRemoveStop(h)
      <3>1. req'[h].todo = req[h].todo /\ req[h].pc = "remove" /\ req'[h].pc = "commit"
        BY <2>6 DEF ServeRemoveStop, TypeOK, ReqOK
      <3>2. req[h].todo = {i}
        BY <2>1, <3>1 DEF StoppedForRemoval
      <3>3. cmds'[i] = None
        BY <2>1, <2>2, StopFacts
      <3> QED
        BY <2>3, <3>1, <3>2, <3>3 DEF StoppedForRemoval
    <2> QED
      BY <1>3, <2>4, <2>5, <2>6
  <1>4. ASSUME NEW h \in Handler, ServeRemoveCommit(h)
        PROVE  NoOrphan' /\ StoppedForRemoval'
    <2>1. PICK i \in req[h].todo : cmds' = [cmds EXCEPT ![i] = None]
      BY <1>4 DEF ServeRemoveCommit
    <2>2. i \in Instance /\ cmds[i] = None /\ UNCHANGED <<procSt, procOf>>
      BY <1>4 DEF ServeRemoveCommit, StoppedForRemoval, TypeOK, ReqOK, Request
    <2>3. NoOrphan'
      BY <1>n, <2>1, <2>2, ForgetKeepsReach
    <2> QED
      BY <1>4, <1>i, <2>3 DEF ServeRemoveCommit
  <1>5. ASSUME NEW h \in Handler, ServeEditFails(h) \/ ServeAdd(h)
        PROVE  NoOrphan' /\ StoppedForRemoval'
    BY <1>5, <1>i DEF ServeEditFails, ServeAdd, NoOrphan
  <1>6. ASSUME NEW i \in Instance, MonitorReturns(i)
        PROVE  NoOrphan' /\ StoppedForRemoval'
    BY <1>6, <1>m DEF MonitorReturns, NoOrphan
  <1>7. ASSUME NEW i \in Instance, MonitorGivesUp(i) \/ MonitorCannotRestart(i)
        PROVE  NoOrphan' /\ StoppedForRemoval'
    <2>1. /\ Exited(cmds[i]) /\ cmds' = [cmds EXCEPT ![i] = None]
          /\ UNCHANGED <<procSt, procOf, req>>
      BY <1>7, Zenon DEF MonitorGivesUp, MonitorCannotRestart, MonitorSeesExit
    <2>2. \A p \in Proc : procSt[p] = "up" => cmds[i] # p
      BY <2>1 DEF Exited
    <2>3. \A j \in Instance : cmds[j] = None => cmds'[j] = None
      BY <2>1 DEF TypeOK
    <2> QED
      BY <1>m, <2>1, <2>2, <2>3, ForgetKeepsReach
  <1>8. ASSUME NEW i \in Instance, MonitorRestarts(i)
        PROVE  NoOrphan' /\ StoppedForRemoval'
    <2>1. PICK p \in Proc : startVEGMProcess(i, p)
      BY <1>8 DEF MonitorRestarts
    <2>2. ~processRunning(i) /\ cmds[i] # None /\ UNCHANGED req
      BY <1>8 DEF MonitorRestarts, MonitorSeesExit, processRunning
    <2>3. \A j \in Instance : cmds[j] = None => cmds'[j] = None
      BY <2>1, <2>2, SpawnFacts
    <2> QED
      BY <1>m, <2>1, <2>2, <2>3, SpawnKeepsReach
  <1>9. ASSUME NEW p \in Proc, NEW how \in {"exited", "signaled"}, ChildEnds(p, how)
        PROVE  NoOrphan' /\ StoppedForRemoval'
    <2>1. \A q \in Proc : procSt'[q] = "up" => procSt[q] = "up"
      BY <1>9 DEF ChildEnds, TypeOK
    <2> QED
      BY <1>9, <1>m, <2>1 DEF ChildEnds, NoOrphan
  <1>10. CASE UNCHANGED vars
    BY <1>10, <1>m DEF vars, NoOrphan
  <1> QED
    BY <1>1, <1>2, <1>3, <1>4, <1>5, <1>6, <1>7, <1>8, <1>9, <1>10
       DEF Next, Serve, monitorChild

(* While the operator sends one request at a time, every running child     *)
(* that was not told to stop is in s.cmds, whatever the monitors and the   *)
(* operating system do meanwhile.  Two requests at a time do orphan a      *)
(* child, by the removal that OrphanedOnlyByRemoval describes.             *)
THEOREM NoneOrphaned ==
    ASSUME \A h, k \in Handler : h = k
    PROVE  Spec => []NoOrphan
  <1>1. Init => NoOrphan /\ StoppedForRemoval
    BY DEF Init, NoOrphan, StoppedForRemoval, Idle
  <1>2. TypeOK /\ NoOrphan /\ StoppedForRemoval /\ [Next]_vars => NoOrphan' /\ StoppedForRemoval'
    BY ReachStep
  <1> QED
    BY <1>1, <1>2, TypeCorrect, PTL DEF Spec
=============================================================================
