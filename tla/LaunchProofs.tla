---------------------------- MODULE LaunchProofs ----------------------------
(***************************************************************************)
(* What TLAPS proves about the supervisor together with its children's     *)
(* listeners: the children's part leaves the supervisor a supervisor, so   *)
(* what SupervisorProofs proves holds here as well.                        *)
(***************************************************************************)
EXTENDS Launch, SupervisorProofs

(* A child that takes its port changes nothing of the supervisor, and one  *)
(* that cannot ends like any child that exits by itself.                   *)
THEOREM LaunchSupervises == LaunchSpec => Spec
  <1>1. LaunchInit => Init
    BY DEF LaunchInit
  <1>2. [LaunchNext]_launchVars => [Next]_vars
    BY DEF LaunchNext, launchVars, Supervised, ChildStarts, ChildListens, ChildCannotListen, Next
  <1> QED
    BY <1>1, <1>2, PTL DEF LaunchSpec, Spec

(* While the operator sends one request at a time, no running child is out *)
(* of the supervisor's reach, with the listeners as well.                  *)
THEOREM LaunchedReached ==
    ASSUME \A h, k \in Handler : h = k
    PROVE  LaunchSpec => []NoOrphan
  BY LaunchSupervises, NoneOrphaned, PTL
=============================================================================
