----------------------------- MODULE Supervisor -----------------------------
(***************************************************************************)
(* The fleet supervisor (cmd/vegm-supervisor): it starts one `vegm` child  *)
(* process per fleet instance, watches the children, restarts the ones     *)
(* that exit, and edits the fleet while it runs.                           *)
(*                                                                         *)
(* Every critical section of supervisorServer.mu is one atomic step.  An   *)
(* HTTP request is a goroutine (an element of Handler) that may need       *)
(* several critical sections, so the steps of two requests, of the monitor *)
(* goroutines and of the operating system interleave between them.         *)
(***************************************************************************)
EXTENDS Naturals

CONSTANTS
    Instance,               \* instance ids that can ever be in the manifest
    Proc,                   \* slots for child processes (bound on live children)
    Handler,                \* HTTP request goroutines served concurrently
    None,                   \* the nil *exec.Cmd
    InitFleet,              \* instances of the manifest loaded at start-up
    maxSupervisorRestarts,  \* restart_policy.go:9
    MaxMonitors,            \* bound on the monitor goroutines of one instance
    SignalIsExit,           \* ProcessState.Exited() of a signalled process:
                            \*   TRUE on Windows, FALSE on Unix
    StartMayFail            \* whether starting a child can return an error

ASSUME SupervisorAssumption ==
    /\ None \notin Proc \cup Instance
    /\ InitFleet \subseteq Instance /\ InitFleet # {}
    /\ maxSupervisorRestarts \in Nat
    /\ MaxMonitors \in Nat
    /\ SignalIsExit \in BOOLEAN
    /\ StartMayFail \in BOOLEAN

VARIABLES
    generated,  \* instance ids of s.generated (and of the manifest file)
    cmds,       \* s.cmds: the tracked child of each instance, or None
    restart,    \* s.restart: Desired, RestartCount, LastExit
    monitors,   \* number of running monitorChild goroutines per instance
    procSt,     \* operating system's view of each child process
    procOf,     \* the instance whose configuration the process was given
    req         \* what each HTTP request goroutine still has to do

vars == <<generated, cmds, restart, monitors, procSt, procOf, req>>

-----------------------------------------------------------------------------
(* restartMeta; the zero value is what the map yields for a missing key.   *)
ExitText == {"", "exited", "restart failed"}

RestartMeta == [Desired: BOOLEAN, RestartCount: 0..maxSupervisorRestarts,
                LastExit: ExitText]

ZeroMeta == [Desired |-> FALSE, RestartCount |-> 0, LastExit |-> ""]

(* A process is up, up with a kill signal on its way, or ended in one of   *)
(* the two ways Exited() tells apart.  It counts as ended when cmd.Wait    *)
(* has stored ProcessState where the lock holders read it: until then the  *)
(* supervisor cannot tell it from a running one.                           *)
ProcState == {"free", "up", "killed", "exited", "signaled"}

Idle == [pc |-> "idle", todo |-> {}]

Init ==
    /\ generated = InitFleet
    /\ cmds = [i \in Instance |-> None]
    /\ restart = [i \in Instance |-> ZeroMeta]
    /\ monitors = [i \in Instance |-> 0]
    /\ procSt = [p \in Proc |-> "free"]
    /\ procOf = [p \in Proc |-> None]
    /\ req = [h \in Handler |-> Idle]

-----------------------------------------------------------------------------
(* os.ProcessState.Exited, and processRunning for a tracked child.         *)
Exited(p) ==
    \/ procSt[p] = "exited"
    \/ procSt[p] = "signaled" /\ SignalIsExit

processRunning(i) == cmds[i] # None /\ ~Exited(cmds[i])

(* A slot the operating system can use for a new process.                  *)
FreeSlot(p) ==
    /\ procSt[p] \in {"free", "exited", "signaled"}
    /\ \A i \in Instance : cmds[i] # p

(* startVEGMProcessForScale(i) succeeds with process p.                    *)
startVEGMProcess(i, p) ==
    /\ FreeSlot(p)
    /\ procSt' = [procSt EXCEPT ![p] = "up"]
    /\ procOf' = [procOf EXCEPT ![p] = i]
    /\ cmds' = [cmds EXCEPT ![i] = p]

(* s.restart[i] = meta, the local copy a lock holder changed.              *)
writeMeta(i, desired, count, exit) ==
    restart' = [restart EXCEPT ![i] = [Desired |-> desired, RestartCount |-> count,
                                       LastExit |-> exit]]

(* markDesired; stopping clears the restart budget, starting does not.     *)
markDesired(i, desired) ==
    writeMeta(i, desired, IF desired THEN restart[i].RestartCount ELSE 0, restart[i].LastExit)

-----------------------------------------------------------------------------
(* startOne: three outcomes of one critical section.                       *)
startOneNoop(i) ==
    /\ processRunning(i)
    /\ UNCHANGED <<cmds, restart, monitors, procSt, procOf>>

startOneSpawns(i) ==
    /\ ~processRunning(i)
    /\ i \in generated
    /\ monitors[i] < MaxMonitors
    /\ \E p \in Proc : startVEGMProcess(i, p)
    /\ markDesired(i, TRUE)
    /\ monitors' = [monitors EXCEPT ![i] = @ + 1]

startOneFails(i) ==
    /\ ~processRunning(i)
    /\ i \notin generated \/ StartMayFail
    /\ cmds' = [cmds EXCEPT ![i] = None]
    /\ UNCHANGED <<restart, monitors, procSt, procOf>>

(* Mutant of stopOne: forgets the child without killing it.                *)
stopOneSpares(i) ==
    /\ markDesired(i, FALSE)
    /\ cmds' = [cmds EXCEPT ![i] = None]
    /\ UNCHANGED <<monitors, procSt, procOf>>

(* stopOne: forget the child first, the kill signal is delivered later.    *)
stopOne(i) ==
    /\ markDesired(i, FALSE)
    /\ procSt' = [p \in Proc |-> IF p = cmds[i] /\ procSt[p] = "up"
                                 THEN "killed" ELSE procSt[p]]
    /\ cmds' = [cmds EXCEPT ![i] = None]
    /\ UNCHANGED <<monitors, procOf>>

-----------------------------------------------------------------------------
(* A request arrives.  start-all and stop-all range over a snapshot of     *)
(* s.generated; the order of the manifest is abstracted to any order.      *)
Receive(h, op, todo) ==
    /\ req[h] = Idle
    /\ op \in {"start", "stop"} => todo = generated \/ \E i \in Instance : todo = {i}
    /\ op \in {"restart", "remove", "add"} => \E i \in Instance : todo = {i}
    /\ req' = [req EXCEPT ![h] = [pc |-> op, todo |-> todo]]
    /\ UNCHANGED <<generated, cmds, restart, monitors, procSt, procOf>>

(* The loop of handleStartAll, or the single startOne of handleInstance-   *)
(* Action: go on with the rest, or give up at the first error.             *)
Advance(h, i) ==
    req' = [req EXCEPT ![h] = IF @.todo = {i} THEN Idle
                              ELSE [pc |-> @.pc, todo |-> @.todo \ {i}]]

ServeStart(h) ==
    /\ req[h].pc = "start"
    /\ \E i \in req[h].todo :
         \/ startOneNoop(i) /\ Advance(h, i)
         \/ startOneSpawns(i) /\ Advance(h, i)
         \/ startOneFails(i) /\ req' = [req EXCEPT ![h] = Idle]
    /\ UNCHANGED generated

ServeStop(h) ==
    /\ req[h].pc = "stop"
    /\ \E i \in req[h].todo : stopOne(i) /\ Advance(h, i)
    /\ UNCHANGED generated

(* "restart" is stopOne followed by startOne, the lock released between.   *)
ServeRestart(h) ==
    /\ req[h].pc = "restart"
    /\ \E i \in req[h].todo : stopOne(i)
    /\ req' = [req EXCEPT ![h] = [pc |-> "start", todo |-> @.todo]]
    /\ UNCHANGED generated

(* removeFleetInstance: stopOne, then the edit in a second critical        *)
(* section.  The edit fails for an unknown instance, for the last one      *)
(* (a manifest must not be empty) and on a file error.                     *)
ServeRemoveStop(h) ==
    /\ req[h].pc = "remove"
    /\ \E i \in req[h].todo : stopOne(i)
    /\ req' = [req EXCEPT ![h] = [pc |-> "commit", todo |-> @.todo]]
    /\ UNCHANGED generated

(* Mutant of ServeRemoveCommit: the removed instance's child stays tracked. *)
ServeRemoveCommitKeepsCmd(h) ==
    /\ req[h].pc = "commit"
    /\ \E i \in req[h].todo :
         /\ i \in generated
         /\ generated # {i}
         /\ generated' = generated \ {i}
         /\ restart' = [restart EXCEPT ![i] = ZeroMeta]
    /\ req' = [req EXCEPT ![h] = Idle]
    /\ UNCHANGED <<cmds, monitors, procSt, procOf>>

ServeRemoveCommit(h) ==
    /\ req[h].pc = "commit"
    /\ \E i \in req[h].todo :
         /\ i \in generated
         /\ generated # {i}
         /\ generated' = generated \ {i}
         /\ cmds' = [cmds EXCEPT ![i] = None]
         /\ restart' = [restart EXCEPT ![i] = ZeroMeta]
    /\ req' = [req EXCEPT ![h] = Idle]
    /\ UNCHANGED <<monitors, procSt, procOf>>

ServeEditFails(h) ==
    /\ req[h].pc \in {"commit", "add"}
    /\ req' = [req EXCEPT ![h] = Idle]
    /\ UNCHANGED <<generated, cmds, restart, monitors, procSt, procOf>>

(* addFleetInstance: one critical section; an id already there is refused. *)
ServeAdd(h) ==
    /\ req[h].pc = "add"
    /\ \E i \in req[h].todo :
         /\ i \notin generated
         /\ generated' = generated \cup {i}
    /\ req' = [req EXCEPT ![h] = Idle]
    /\ UNCHANGED <<cmds, restart, monitors, procSt, procOf>>

Serve(h) ==
    \/ ServeStart(h)
    \/ ServeStop(h)
    \/ ServeRestart(h)
    \/ ServeRemoveStop(h)
    \/ ServeRemoveCommit(h)
    \/ ServeEditFails(h)
    \/ ServeAdd(h)

-----------------------------------------------------------------------------
(* Mutant of MonitorReturns: the last goroutine stays for a later start.   *)
MonitorReturnsButLast(i) ==
    /\ monitors[i] > 1
    /\ ~restart[i].Desired \/ cmds[i] = None
    /\ monitors' = [monitors EXCEPT ![i] = @ - 1]
    /\ UNCHANGED <<generated, cmds, restart, procSt, procOf, req>>

(* monitorChild, one iteration of one of the instance's goroutines.  The   *)
(* goroutines keep nothing between iterations, so counting them is enough. *)
(* The iteration that finds the child running changes nothing.             *)
MonitorReturns(i) ==
    /\ monitors[i] > 0
    /\ ~restart[i].Desired \/ cmds[i] = None
    /\ monitors' = [monitors EXCEPT ![i] = @ - 1]
    /\ UNCHANGED <<generated, cmds, restart, procSt, procOf, req>>

(* Mutant of MonitorSeesExit: does not look whether the child exited.      *)
MonitorSeesChild(i) ==
    /\ monitors[i] > 0
    /\ restart[i].Desired
    /\ cmds[i] # None

MonitorSeesExit(i) ==
    /\ monitors[i] > 0
    /\ restart[i].Desired
    /\ cmds[i] # None
    /\ Exited(cmds[i])

(* Mutant of MonitorGivesUp: leaves the instance marked as desired.        *)
MonitorGivesUpSilently(i) ==
    /\ MonitorSeesExit(i)
    /\ restart[i].RestartCount >= maxSupervisorRestarts
    /\ restart' = [restart EXCEPT ![i].LastExit = "exited"]
    /\ cmds' = [cmds EXCEPT ![i] = None]
    /\ monitors' = [monitors EXCEPT ![i] = @ - 1]
    /\ UNCHANGED <<generated, procSt, procOf, req>>

MonitorGivesUp(i) ==
    /\ MonitorSeesExit(i)
    /\ restart[i].RestartCount >= maxSupervisorRestarts
    /\ writeMeta(i, FALSE, restart[i].RestartCount, "exited")
    /\ cmds' = [cmds EXCEPT ![i] = None]
    /\ monitors' = [monitors EXCEPT ![i] = @ - 1]
    /\ UNCHANGED <<generated, procSt, procOf, req>>

(* Mutants of MonitorRestarts: a restart that is not counted; one restart  *)
(* too many; the goroutine ends after a restart.                           *)
MonitorRestartsUncounted(i) ==
    /\ MonitorSeesExit(i)
    /\ restart[i].RestartCount < maxSupervisorRestarts
    /\ i \in generated
    /\ writeMeta(i, TRUE, restart[i].RestartCount, "exited")
    /\ \E p \in Proc : startVEGMProcess(i, p)
    /\ UNCHANGED <<generated, monitors, req>>

MonitorRestartsOnceMore(i) ==
    /\ MonitorSeesExit(i)
    /\ restart[i].RestartCount <= maxSupervisorRestarts
    /\ i \in generated
    /\ writeMeta(i, TRUE, restart[i].RestartCount + 1, "exited")
    /\ \E p \in Proc : startVEGMProcess(i, p)
    /\ UNCHANGED <<generated, monitors, req>>

MonitorRestartsAndEnds(i) ==
    /\ MonitorSeesExit(i)
    /\ restart[i].RestartCount < maxSupervisorRestarts
    /\ i \in generated
    /\ writeMeta(i, TRUE, restart[i].RestartCount + 1, "exited")
    /\ \E p \in Proc : startVEGMProcess(i, p)
    /\ monitors' = [monitors EXCEPT ![i] = @ - 1]
    /\ UNCHANGED <<generated, req>>

MonitorRestarts(i) ==
    /\ MonitorSeesExit(i)
    /\ restart[i].RestartCount < maxSupervisorRestarts
    /\ i \in generated
    /\ writeMeta(i, TRUE, restart[i].RestartCount + 1, "exited")
    /\ \E p \in Proc : startVEGMProcess(i, p)
    /\ UNCHANGED <<generated, monitors, req>>

MonitorCannotRestart(i) ==
    /\ MonitorSeesExit(i)
    /\ restart[i].RestartCount < maxSupervisorRestarts
    /\ i \notin generated \/ StartMayFail
    /\ writeMeta(i, TRUE, restart[i].RestartCount + 1,
                 IF i \in generated THEN "restart failed" ELSE "exited")
    /\ cmds' = [cmds EXCEPT ![i] = None]
    /\ monitors' = [monitors EXCEPT ![i] = @ - 1]
    /\ UNCHANGED <<generated, procSt, procOf, req>>

monitorChild(i) ==
    \/ MonitorReturns(i)
    \/ MonitorGivesUp(i)
    \/ MonitorRestarts(i)
    \/ MonitorCannotRestart(i)

-----------------------------------------------------------------------------
(* The child and the operating system: a child may end by itself or be     *)
(* signalled at any time, and a kill signal ends it.                       *)
ChildEnds(p, how) ==
    /\ procSt[p] \in {"up", "killed"}
    /\ procSt' = [procSt EXCEPT ![p] = how]
    /\ UNCHANGED <<generated, cmds, restart, monitors, procOf, req>>

KilledChildEnds(p) == procSt[p] = "killed" /\ ChildEnds(p, "signaled")

Next ==
    \/ \E h \in Handler, op \in {"start", "stop", "restart", "remove", "add"},
          todo \in SUBSET Instance : Receive(h, op, todo)
    \/ \E h \in Handler : Serve(h)
    \/ \E i \in Instance : monitorChild(i)
    \/ \E p \in Proc, how \in {"exited", "signaled"} : ChildEnds(p, how)

Spec == Init /\ [][Next]_vars

(* A monitor goroutine wakes every 2 s, a request goroutine is scheduled   *)
(* by the Go runtime, and a delivered SIGKILL ends the process.  Nothing   *)
(* obliges an operator to send requests or a child to crash.               *)
Fairness ==
    /\ \A i \in Instance : WF_vars(monitorChild(i))
    /\ \A h \in Handler : WF_vars(Serve(h))
    /\ \A p \in Proc : WF_vars(KilledChildEnds(p))

FairSpec == Spec /\ Fairness

-----------------------------------------------------------------------------
Request == [pc: {"idle", "start", "stop", "restart", "remove", "commit", "add"},
            todo: SUBSET Instance]

ReqOK == req \in [Handler -> Request]

(* Every variable has its type.                                            *)
TypeOK ==
    /\ generated \subseteq Instance
    /\ cmds \in [Instance -> Proc \cup {None}]
    /\ restart \in [Instance -> RestartMeta]
    /\ monitors \in [Instance -> 0..MaxMonitors]
    /\ procSt \in [Proc -> ProcState]
    /\ procOf \in [Proc -> Instance \cup {None}]
    /\ ReqOK

(* A tracked child is the process started from its own instance's          *)
(* configuration, the instance is still in the fleet and still wanted.     *)
TrackedIsWanted ==
    \A i \in Instance : cmds[i] # None =>
        /\ restart[i].Desired
        /\ i \in generated
        /\ procOf[cmds[i]] = i
        /\ procSt[cmds[i]] # "free"

(* A tracked child always has a monitor goroutine watching it, whatever    *)
(* stops, starts, give-ups and removals crossed before.                    *)
TrackedIsMonitored ==
    \A i \in Instance : cmds[i] # None => monitors[i] > 0

(* Every running child that was not told to stop is in s.cmds.  This holds *)
(* only while requests come one at a time (SupervisorProofs!NoneOrphaned): *)
(* with two, a removal can lose a child, see OrphanedOnlyByRemoval.        *)
NoOrphan ==
    \A p \in Proc : procSt[p] = "up" => procOf[p] # None /\ cmds[procOf[p]] = p

(* With concurrent requests a running child drops out of s.cmds without    *)
(* being told to stop only when its instance is removed in the same step   *)
(* (a start that slipped between the two halves of removeFleetInstance).   *)
OrphanedOnlyByRemoval ==
    [][\A p \in Proc :
         /\ procSt[p] = "up" /\ procSt'[p] = "up"
         /\ \E i \in Instance : cmds[i] = p
         /\ \A i \in Instance : cmds'[i] # p
         => procOf[p] \notin generated']_vars

(* Two monitors, or a monitor and a start request, never both replace the  *)
(* same exited child: the tracked child is replaced only once it exited.   *)
ReplacedOnlyWhenExited ==
    [][\A i \in Instance :
         cmds[i] # None /\ cmds'[i] \notin {None, cmds[i]} => Exited(cmds[i])]_vars

(* The refinement mapping: what the supervisor's maps and the processes    *)
(* say about each instance.                                                *)
ChildShown(i) ==
    IF cmds[i] = None THEN "none" ELSE IF Exited(cmds[i]) THEN "ended" ELSE "running"

AskedFor(what) ==
    IF what = "start" THEN {"start"} ELSE {"stop", "restart", "remove", "commit"}

Asked == {a \in Instance \X {"start", "stop"} :
            \E h \in Handler : a[1] \in req[h].todo /\ req[h].pc \in AskedFor(a[2])}

Lifecycle == INSTANCE InstanceLifecycle WITH
    Budget <- maxSupervisorRestarts,
    asked  <- Asked,
    wanted <- [i \in Instance |-> restart[i].Desired],
    left   <- [i \in Instance |-> maxSupervisorRestarts - restart[i].RestartCount],
    child  <- [i \in Instance |-> ChildShown(i)]

(* Requests, monitors, removals and failing starts, however they cross,    *)
(* show every instance one legal life: a child that nobody asks for comes  *)
(* up only in place of an ended one and at the expense of the budget, only *)
(* a request stops one, and no step touches two instances.                 *)
ImplementsLifecycle == Lifecycle!Spec

(* An ended child does not stay tracked: it is replaced or given up.       *)
EndedChildHandled ==
    \A i \in Instance, p \in Proc :
        (cmds[i] = p /\ procSt[p] \in {"exited", "signaled"}) ~> (cmds[i] # p)

(* The monitor goroutines of an instance nobody wants any more all end.    *)
MonitorsRetire ==
    \A i \in Instance : <>[](~restart[i].Desired) => <>[](monitors[i] = 0)
=============================================================================
