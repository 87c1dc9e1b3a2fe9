------------------------------- MODULE Launch -------------------------------
(***************************************************************************)
(* The supervisor together with the listeners of its children.  A child    *)
(* binds the control port of its instance some time after it was started,  *)
(* and ends with log.Fatal when the port is taken: the monitor counts that *)
(* as an exit like any other.  Process.Kill returns before the killed      *)
(* child has let its port go, so a restart races with its own predecessor. *)
(* The ports of different instances differ (module Fleet), so a port is    *)
(* named by its instance.                                                  *)
(***************************************************************************)
EXTENDS Supervisor

VARIABLE listening      \* the processes that hold their control port

launchVars == <<vars, listening>>

LaunchInit == Init /\ listening = {}

Alive(p) == procSt[p] \in {"up", "killed"}

(* A step of the supervisor, of a request or of the operating system; a    *)
(* process that has ended holds no port.                                   *)
Holding == {p \in listening : procSt'[p] \in {"up", "killed"}}

Supervised(A) == A /\ listening' = Holding

-----------------------------------------------------------------------------
PortTaken(p) == \E q \in listening : procOf[q] = procOf[p]

(* Start of the child's server: net.Listen on the control port.            *)
ChildListens(p) ==
    /\ Alive(p) /\ p \notin listening
    /\ ~PortTaken(p)
    /\ listening' = listening \cup {p}
    /\ UNCHANGED vars

(* Start returns the error and main calls log.Fatal.                       *)
ChildCannotListen(p) ==
    /\ Alive(p) /\ p \notin listening
    /\ PortTaken(p)
    /\ ChildEnds(p, "exited")
    /\ UNCHANGED listening

ChildStarts(p) == ChildListens(p) \/ ChildCannotListen(p)

LaunchNext ==
    \/ Supervised(Next)
    \/ \E p \in Proc : ChildStarts(p)

(* The supervisor's fairness, and a child that was started gets to its     *)
(* listen call.                                                            *)
LaunchFairness ==
    /\ \A i \in Instance : WF_launchVars(Supervised(monitorChild(i)))
    /\ \A h \in Handler : WF_launchVars(Supervised(Serve(h)))
    /\ \A p \in Proc : WF_launchVars(Supervised(KilledChildEnds(p)))
    /\ \A p \in Proc : WF_launchVars(ChildStarts(p))

LaunchSpec == LaunchInit /\ [][LaunchNext]_launchVars /\ LaunchFairness

-----------------------------------------------------------------------------
(* The control plane of the tracked child answers.                         *)
Serves(i) == cmds[i] \in listening

(* A wanted instance comes to serve unless it is stopped or given up:      *)
(* a child that loses the control port to its dying predecessor ends and   *)
(* a monitor restarts it; none is left tracked, wanted and without a port. *)
WantedServes ==
    \A i \in Instance : restart[i].Desired ~> (Serves(i) \/ ~restart[i].Desired)
=============================================================================
