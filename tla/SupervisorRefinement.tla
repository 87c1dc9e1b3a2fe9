------------------------ MODULE SupervisorRefinement ------------------------
(***************************************************************************)
(* The supervisor implements InstanceLifecycle: every step maps to one     *)
(* step of one instance's life, or only to what operators ask for.         *)
(***************************************************************************)
EXTENDS SupervisorProofs

(* An instance whose command and process state a step leaves alone shows   *)
(* the same child.                                                         *)
LEMMA SameChild ==
    ASSUME TypeOK, NEW j \in Instance, cmds'[j] = cmds[j],
           cmds[j] # None => Exited(cmds[j])' = Exited(cmds[j])
    PROVE  ChildShown(j)' = ChildShown(j)
  <1>1. CASE cmds[j] = None
    BY <1>1 DEF ChildShown
  <1>2. CASE cmds[j] # None
    BY <1>2 DEF ChildShown, Exited
  <1> QED
    BY <1>1, <1>2

(* A step that changes what is shown of one instance only is a step of the *)
(* lifecycle on that instance.                                             *)
LEMMA OneBecomes ==
    ASSUME NEW i \in Instance, NEW w, NEW n, NEW c,
           restart'[i].Desired = w,
           maxSupervisorRestarts - restart'[i].RestartCount = n,
           ChildShown(i)' = c,
           \A j \in Instance : j # i => restart'[j] = restart[j] /\ ChildShown(j)' = ChildShown(j)
    PROVE  Lifecycle!Becomes(i, w, n, c)
  <1> DEFINE W == [j \in Instance |-> restart[j].Desired]
             L == [j \in Instance |-> maxSupervisorRestarts - restart[j].RestartCount]
             C == [j \in Instance |-> ChildShown(j)]
  <1>1. W' = [W EXCEPT ![i] = w]
    OBVIOUS
  <1>2. L' = [L EXCEPT ![i] = n]
    OBVIOUS
  <1>3. C' = [C EXCEPT ![i] = c]
    <2>1. C' = [j \in Instance |-> ChildShown(j)']
      OBVIOUS
    <2> HIDE DEF C
    <2>2. C = [j \in Instance |-> ChildShown(j)]
      BY DEF C
    <2>3. \A j \in Instance : j # i => ChildShown(j)' = ChildShown(j)
      OBVIOUS
    <2>4. ChildShown(i)' = c
      OBVIOUS
    <2> QED
      BY <2>1, <2>2, <2>3, <2>4, Zenon
  <1>4. Asked' \in Lifecycle!Asking
    BY DEF Asked, Lifecycle!Asking
  <1> QED
    BY <1>1, <1>2, <1>3, <1>4 DEF Lifecycle!Becomes

(* A step that shows the same meta data and children is only about what    *)
(* operators ask for.                                                      *)
LEMMA NoneBecomes ==
    ASSUME UNCHANGED restart, \A j \in Instance : ChildShown(j)' = ChildShown(j)
    PROVE  Lifecycle!Next
  <1>1. Asked' \in Lifecycle!Asking
    BY DEF Asked, Lifecycle!Asking
  <1> QED
    BY <1>1 DEF Lifecycle!Next, Lifecycle!Ask

(* A request that is being served for an instance is asked for.            *)
LEMMA ServedIsAsked ==
    ASSUME NEW h \in Handler, NEW i \in Instance, i \in req[h].todo
    PROVE  /\ req[h].pc = "start" => <<i, "start">> \in Asked
           /\ req[h].pc \in {"stop", "restart", "remove", "commit"} => <<i, "stop">> \in Asked
  BY DEF Asked, AskedFor

-----------------------------------------------------------------------------
(* A spawn for instance i shows i running and the others as before.        *)
LEMMA SpawnShows ==
    ASSUME TypeOK, NEW i \in Instance, NEW p \in Proc, startVEGMProcess(i, p)
    PROVE  /\ ChildShown(i)' = "running"
           /\ \A j \in Instance : j # i => ChildShown(j)' = ChildShown(j)
  <1>1. /\ cmds'[i] = p /\ procSt'[p] = "up"
        /\ \A j \in Instance : j # i => cmds'[j] = cmds[j] /\ cmds[j] # p
        /\ \A q \in Proc : q # p => procSt'[q] = procSt[q]
    BY SpawnFacts
  <1>2. ChildShown(i)' = "running"
    BY <1>1, SupervisorAssumption DEF ChildShown, Exited, SupervisorAssumption
  <1>3. ASSUME NEW j \in Instance, j # i PROVE ChildShown(j)' = ChildShown(j)
    <2>1. cmds'[j] = cmds[j] /\ cmds[j] # p
      BY <1>1, <1>3
    <2>2. cmds[j] # None => Exited(cmds[j])' = Exited(cmds[j])
      BY <1>1, <2>1 DEF Exited, TypeOK
    <2> QED
      BY <2>1, <2>2, SameChild
  <1> QED
    BY <1>2, <1>3

(* A step that forgets the child of i and ends no process shows i without  *)
(* a child and the others as before.                                       *)
LEMMA ForgetShows ==
    ASSUME TypeOK, NEW i \in Instance, cmds' = [cmds EXCEPT ![i] = None],
           \A q \in Proc : Exited(q)' = Exited(q)
    PROVE  /\ ChildShown(i)' = "none"
           /\ \A j \in Instance : j # i => ChildShown(j)' = ChildShown(j)
  <1>1. cmds'[i] = None /\ \A j \in Instance : j # i => cmds'[j] = cmds[j]
    BY DEF TypeOK
  <1>2. ChildShown(i)' = "none"
    BY <1>1 DEF ChildShown
  <1>3. ASSUME NEW j \in Instance, j # i PROVE ChildShown(j)' = ChildShown(j)
    <2>1. cmds'[j] = cmds[j] /\ (cmds[j] # None => cmds[j] \in Proc)
      BY <1>1, <1>3 DEF TypeOK
    <2>2. cmds[j] # None => Exited(cmds[j])' = Exited(cmds[j])
      BY <2>1
    <2> QED
      BY <2>1, <2>2, SameChild
  <1> QED
    BY <1>2, <1>3

(* What the mapped variables are at an instance.                           *)
LEMMA Mapped ==
    ASSUME TypeOK, NEW i \in Instance
    PROVE  /\ restart[i].Desired \in BOOLEAN
           /\ restart[i].RestartCount \in 0..maxSupervisorRestarts
           /\ maxSupervisorRestarts \in Nat
           /\ ChildShown(i) # "running" <=> ~processRunning(i)
           /\ cmds[i] # None /\ Exited(cmds[i]) => ChildShown(i) = "ended"
  <1>1. restart[i] \in RestartMeta
    BY DEF TypeOK
  <1>2. restart[i].Desired \in BOOLEAN
    BY <1>1 DEF RestartMeta
  <1>3. ChildShown(i) # "running" <=> ~processRunning(i)
    BY DEF ChildShown, processRunning
  <1>4. cmds[i] # None /\ Exited(cmds[i]) => ChildShown(i) = "ended"
    BY DEF ChildShown
  <1> QED
    BY <1>2, <1>3, <1>4, CountInRange, SupervisorAssumption DEF SupervisorAssumption

(* One action of the supervisor at a time: start requests.                 *)
LEMMA StartMaps ==
    ASSUME TypeOK, NEW i \in Instance,
           startOneNoop(i) \/ startOneSpawns(i) \/ startOneFails(i),
           <<i, "start">> \in Asked
    PROVE  [Lifecycle!Next]_(Lifecycle!vars)
  <1>1. CASE startOneNoop(i)
    <2>1. \A j \in Instance : ChildShown(j)' = ChildShown(j)
      BY <1>1 DEF startOneNoop, ChildShown, Exited
    <2> QED
      BY <1>1, <2>1, NoneBecomes DEF startOneNoop
  <1>2. CASE startOneSpawns(i)
    <2>1. PICK p \in Proc : startVEGMProcess(i, p)
      BY <1>2 DEF startOneSpawns
    <2>2. markDesired(i, TRUE) /\ ~processRunning(i)
      BY <1>2 DEF startOneSpawns
    <2>3. /\ restart'[i].Desired = TRUE
          /\ restart'[i].RestartCount = restart[i].RestartCount
          /\ \A j \in Instance : j # i => restart'[j] = restart[j]
      BY <2>2 DEF markDesired, writeMeta, TypeOK
    <2>4. Lifecycle!Becomes(i, TRUE, maxSupervisorRestarts - restart[i].RestartCount, "running")
      BY <2>1, <2>3, SpawnShows, OneBecomes
    <2>5. Lifecycle!Start(i)
      BY <2>2, <2>4, Mapped DEF Lifecycle!Start
    <2> QED
      BY <2>5 DEF Lifecycle!Next
  <1>3. CASE startOneFails(i)
    <2>1. ~processRunning(i) /\ UNCHANGED restart /\ cmds' = [cmds EXCEPT ![i] = None]
      BY <1>3 DEF startOneFails
    <2>2. \A q \in Proc : Exited(q)' = Exited(q)
      BY <1>3 DEF startOneFails, Exited
    <2>3. /\ ChildShown(i)' = "none"
          /\ \A j \in Instance : j # i => ChildShown(j)' = ChildShown(j)
      BY <2>1, <2>2, ForgetShows
    <2>4. Lifecycle!Becomes(i, restart[i].Desired,
                            maxSupervisorRestarts - restart[i].RestartCount, "none")
      BY <2>1, <2>3, OneBecomes
    <2>5. Lifecycle!StartFails(i)
      BY <2>1, <2>4, Mapped DEF Lifecycle!StartFails
    <2> QED
      BY <2>5 DEF Lifecycle!Next
  <1> QED
    BY <1>1, <1>2, <1>3

(* Stop requests and removals.                                             *)
LEMMA StopMaps ==
    ASSUME TypeOK, NEW i \in Instance, stopOne(i) \/ (Removes(i) /\ UNCHANGED procSt),
           <<i, "stop">> \in Asked
    PROVE  [Lifecycle!Next]_(Lifecycle!vars)
  <1>1. cmds' = [cmds EXCEPT ![i] = None]
    BY DEF stopOne, Removes
  <1>2. \A q \in Proc : Exited(q)' = Exited(q)
    BY DEF stopOne, Exited, TypeOK
  <1>3. /\ restart'[i].Desired = FALSE /\ restart'[i].RestartCount = 0
        /\ \A j \in Instance : j # i => restart'[j] = restart[j]
    <2>1. CASE stopOne(i)
      BY <2>1 DEF stopOne, markDesired, writeMeta, TypeOK
    <2>2. CASE Removes(i)
      BY <2>2 DEF Removes, ZeroMeta, TypeOK
    <2> QED
      BY <2>1, <2>2
  <1>4. maxSupervisorRestarts - restart'[i].RestartCount = maxSupervisorRestarts
    BY <1>3, SupervisorAssumption DEF SupervisorAssumption
  <1>5. Lifecycle!Becomes(i, FALSE, maxSupervisorRestarts, "none")
    BY <1>1, <1>2, <1>3, <1>4, ForgetShows, OneBecomes
  <1>6. Lifecycle!Stop(i)
    BY <1>5 DEF Lifecycle!Stop
  <1> QED
    BY <1>6 DEF Lifecycle!Next

(* What a monitor does about an exited child.                              *)
LEMMA MonitorMaps ==
    ASSUME TypeOK, NEW i \in Instance,
           MonitorGivesUp(i) \/ MonitorRestarts(i) \/ MonitorCannotRestart(i)
    PROVE  [Lifecycle!Next]_(Lifecycle!vars)
  <1> DEFINE n == restart[i].RestartCount
  <1>1. restart[i].Desired /\ cmds[i] # None /\ Exited(cmds[i])
    BY DEF MonitorGivesUp, MonitorRestarts, MonitorCannotRestart, MonitorSeesExit
  <1>2. /\ ChildShown(i) = "ended"
        /\ n \in 0..maxSupervisorRestarts /\ maxSupervisorRestarts \in Nat
    BY <1>1, Mapped
  <1>3. CASE MonitorRestarts(i)
    <2>1. PICK p \in Proc : startVEGMProcess(i, p)
      BY <1>3 DEF MonitorRestarts
    <2>2. n < maxSupervisorRestarts /\ writeMeta(i, TRUE, n + 1, "exited")
      BY <1>3 DEF MonitorRestarts
    <2>3. /\ restart'[i].Desired = TRUE /\ restart'[i].RestartCount = n + 1
          /\ \A j \in Instance : j # i => restart'[j] = restart[j]
      BY <2>2 DEF writeMeta, TypeOK
    <2>4. maxSupervisorRestarts - restart'[i].RestartCount = (maxSupervisorRestarts - n) - 1
      BY <1>2, <2>3
    <2>5. Lifecycle!Becomes(i, TRUE, (maxSupervisorRestarts - n) - 1, "running")
      BY <2>1, <2>3, <2>4, SpawnShows, OneBecomes
    <2>6. maxSupervisorRestarts - n > 0
      BY <1>2, <2>2
    <2>7. Lifecycle!Restart(i)
      BY <1>1, <1>2, <2>5, <2>6 DEF Lifecycle!Restart
    <2> QED
      BY <2>7 DEF Lifecycle!Next
  <1>4. CASE MonitorCannotRestart(i)
    <2>0. n < maxSupervisorRestarts
      BY <1>4 DEF MonitorCannotRestart
    <2>1. /\ writeMeta(i, TRUE, n + 1, IF i \in generated THEN "restart failed" ELSE "exited")
          /\ cmds' = [cmds EXCEPT ![i] = None] /\ UNCHANGED procSt
      BY <1>4, Zenon DEF MonitorCannotRestart
    <2>2. \A q \in Proc : Exited(q)' = Exited(q)
      BY <2>1 DEF Exited
    <2>3. /\ restart'[i].Desired = TRUE /\ restart'[i].RestartCount = n + 1
          /\ \A j \in Instance : j # i => restart'[j] = restart[j]
      BY <2>1 DEF writeMeta, TypeOK
    <2>4. maxSupervisorRestarts - restart'[i].RestartCount = (maxSupervisorRestarts - n) - 1
      BY <1>2, <2>3
    <2>5. Lifecycle!Becomes(i, TRUE, (maxSupervisorRestarts - n) - 1, "none")
      BY <2>1, <2>2, <2>3, <2>4, ForgetShows, OneBecomes
    <2>6. maxSupervisorRestarts - n > 0
      BY <1>2, <2>0
    <2>7. Lifecycle!RestartFails(i)
      BY <1>1, <1>2, <2>5, <2>6 DEF Lifecycle!RestartFails
    <2> QED
      BY <2>7 DEF Lifecycle!Next
  <1>5. CASE MonitorGivesUp(i)
    <2>1. /\ n >= maxSupervisorRestarts /\ writeMeta(i, FALSE, n, "exited")
          /\ cmds' = [cmds EXCEPT ![i] = None] /\ UNCHANGED procSt
      BY <1>5 DEF MonitorGivesUp
    <2>2. \A q \in Proc : Exited(q)' = Exited(q)
      BY <2>1 DEF Exited
    <2>3. /\ restart'[i].Desired = FALSE /\ restart'[i].RestartCount = n
          /\ \A j \in Instance : j # i => restart'[j] = restart[j]
      BY <2>1 DEF writeMeta, TypeOK
    <2>4. maxSupervisorRestarts - n = 0
      BY <1>2, <2>1
    <2>5. Lifecycle!Becomes(i, FALSE, 0, "none")
      BY <2>1, <2>2, <2>3, <2>4, ForgetShows, OneBecomes
    <2>6. Lifecycle!GiveUp(i)
      BY <1>1, <1>2, <2>4, <2>5 DEF Lifecycle!GiveUp
    <2> QED
      BY <2>6 DEF Lifecycle!Next
  <1> QED
    BY <1>3, <1>4, <1>5

(* A process ends: if it is the tracked child of an instance, it is so of  *)
(* that instance only, because it was started for it.                      *)
LEMMA EndMaps ==
    ASSUME IInv, NEW p \in Proc, NEW how \in {"exited", "signaled"}, ChildEnds(p, how)
    PROVE  [Lifecycle!Next]_(Lifecycle!vars)
  <1>1. TypeOK /\ TrackedIsWanted
    BY DEF IInv
  <1>2. /\ UNCHANGED <<cmds, restart>>
        /\ ~Exited(p) /\ procSt'[p] = how
        /\ \A q \in Proc : q # p => procSt'[q] = procSt[q]
    BY <1>1 DEF ChildEnds, Exited, TypeOK
  <1>3. ASSUME NEW j \in Instance, cmds[j] # p
        PROVE  ChildShown(j)' = ChildShown(j)
    <2>1. cmds[j] # None => Exited(cmds[j])' = Exited(cmds[j])
      BY <1>1, <1>2, <1>3 DEF Exited, TypeOK
    <2> QED
      BY <1>1, <1>2, <2>1, SameChild
  <1>4. CASE \A j \in Instance : cmds[j] # p
    BY <1>2, <1>3, <1>4, NoneBecomes
  <1>5. CASE \E i \in Instance : cmds[i] = p
    <2>1. PICK i \in Instance : cmds[i] = p
      BY <1>5
    <2>2. p # None
      BY SupervisorAssumption DEF SupervisorAssumption
    <2>3. \A j \in Instance : cmds[j] = p => j = i
      BY <1>1, <2>1, <2>2 DEF TrackedIsWanted
    <2>4. \A j \in Instance : j # i => ChildShown(j)' = ChildShown(j)
      BY <1>3, <2>3
    <2>5. ChildShown(i) = "running"
      BY <1>2, <2>1, <2>2 DEF ChildShown
    <2>6. CASE Exited(p)'
      <3>1. ChildShown(i)' = "ended"
        BY <1>2, <2>1, <2>2, <2>6 DEF ChildShown, Exited
      <3>2. Lifecycle!Becomes(i, restart[i].Desired,
                              maxSupervisorRestarts - restart[i].RestartCount, "ended")
        BY <1>2, <2>4, <3>1, OneBecomes
      <3>3. Lifecycle!End(i)
        BY <2>5, <3>2 DEF Lifecycle!End
      <3> QED
        BY <3>3 DEF Lifecycle!Next
    <2>7. CASE ~Exited(p)'
      <3>1. ChildShown(i)' = "running"
        BY <1>2, <2>1, <2>2, <2>7 DEF ChildShown, Exited
      <3> QED
        BY <1>2, <2>4, <2>5, <3>1, NoneBecomes
    <2> QED
      BY <2>6, <2>7
  <1> QED
    BY <1>4, <1>5

-----------------------------------------------------------------------------
(* Every step of the supervisor is a step of the lifecycle or none.        *)
LEMMA StepMaps == IInv /\ [Next]_vars => [Lifecycle!Next]_(Lifecycle!vars)
  <1> SUFFICES ASSUME IInv, [Next]_vars PROVE [Lifecycle!Next]_(Lifecycle!vars)
    OBVIOUS
  <1>t. TypeOK
    BY DEF IInv
  <1>1. ASSUME UNCHANGED <<cmds, restart, procSt>>
        PROVE  [Lifecycle!Next]_(Lifecycle!vars)
    <2>1. \A j \in Instance : ChildShown(j)' = ChildShown(j)
      BY <1>1 DEF ChildShown, Exited
    <2> QED
      BY <1>1, <2>1, NoneBecomes
  <1>2. ASSUME NEW h \in Handler, ServeStart(h)
        PROVE  [Lifecycle!Next]_(Lifecycle!vars)
    <2>1. PICK i \in req[h].todo : startOneNoop(i) \/ startOneSpawns(i) \/ startOneFails(i)
      BY <1>2 DEF ServeStart
    <2>2. i \in Instance
      BY <1>t DEF TypeOK, ReqOK, Request
    <2> QED
      BY <1>t, <1>2, <2>1, <2>2, StartMaps, ServedIsAsked DEF ServeStart
  <1>3. ASSUME NEW h \in Handler, ServeStop(h) \/ ServeRestart(h) \/ ServeRemoveStop(h)
        PROVE  [Lifecycle!Next]_(Lifecycle!vars)
    <2>1. PICK i \in req[h].todo : stopOne(i)
      BY <1>3 DEF ServeStop, ServeRestart, ServeRemoveStop
    <2>2. i \in Instance
      BY <1>t DEF TypeOK, ReqOK, Request
    <2> QED
      BY <1>t, <1>3, <2>1, <2>2, StopMaps, ServedIsAsked
         DEF ServeStop, ServeRestart, ServeRemoveStop
  <1>4. ASSUME NEW h \in Handler, ServeRemoveCommit(h)
        PROVE  [Lifecycle!Next]_(Lifecycle!vars)
    <2>1. PICK i \in req[h].todo : Removes(i)
      BY <1>4 DEF ServeRemoveCommit, Removes
    <2>2. i \in Instance /\ UNCHANGED procSt
      BY <1>t, <1>4 DEF TypeOK, ReqOK, Request, ServeRemoveCommit
    <2> QED
      BY <1>t, <1>4, <2>1, <2>2, StopMaps, ServedIsAsked DEF ServeRemoveCommit
  <1>5. ASSUME NEW i \in Instance, monitorChild(i)
        PROVE  [Lifecycle!Next]_(Lifecycle!vars)
    <2>1. CASE MonitorReturns(i)
      BY <1>1, <2>1 DEF MonitorReturns
    <2> QED
      BY <1>t, <1>5, <2>1, MonitorMaps DEF monitorChild
  <1>6. ASSUME NEW p \in Proc, NEW how \in {"exited", "signaled"}, ChildEnds(p, how)
        PROVE  [Lifecycle!Next]_(Lifecycle!vars)
    BY <1>6, EndMaps
  <1> QED
    BY <1>1, <1>2, <1>3, <1>4, <1>5, <1>6
       DEF Next, Serve, Receive, ServeEditFails, ServeAdd, vars

(* For every fleet, every number of requests, monitors and processes and   *)
(* every restart budget, the supervisor shows each instance a legal life:  *)
(* no unasked start but in place of an ended child and charged to the      *)
(* budget, no unasked stop, no step that touches two instances.            *)
THEOREM SupervisorImplements == Spec => ImplementsLifecycle
  <1>1. Init => Lifecycle!Init
    <2> SUFFICES ASSUME Init PROVE Lifecycle!Init
      OBVIOUS
    <2>1. \A i \in Instance : /\ restart[i].Desired = FALSE
                              /\ restart[i].RestartCount = 0 /\ cmds[i] = None
      BY DEF Init, ZeroMeta
    <2>2. \A i \in Instance : ChildShown(i) = "none"
      BY <2>1 DEF ChildShown
    <2>3. ASSUME NEW i \in Instance
          PROVE  maxSupervisorRestarts - restart[i].RestartCount = maxSupervisorRestarts
      <3>1. restart[i].RestartCount = 0
        BY <2>1
      <3> HIDE DEF Init
      <3>2. maxSupervisorRestarts \in Nat
        BY SupervisorAssumption DEF SupervisorAssumption
      <3> QED
        BY <3>1, <3>2
    <2>4. /\ [i \in Instance |-> restart[i].Desired] = [i \in Instance |-> FALSE]
          /\ [i \in Instance |-> maxSupervisorRestarts - restart[i].RestartCount]
               = [i \in Instance |-> maxSupervisorRestarts]
          /\ [i \in Instance |-> ChildShown(i)] = [i \in Instance |-> "none"]
      BY <2>1, <2>2, <2>3, Zenon
    <2>5. Asked = {}
      BY DEF Asked, Init, Idle
    <2> QED
      BY <2>4, <2>5 DEF Lifecycle!Init
  <1> QED
    BY <1>1, StepMaps, Inductive, PTL DEF Spec, ImplementsLifecycle, Lifecycle!Spec
=============================================================================
