-------------------------- MODULE InstanceLifecycle --------------------------
(***************************************************************************)
(* What the supervisor promises for each fleet instance, without requests, *)
(* locks, monitor goroutines or processes: a child runs when somebody      *)
(* asked for it, an ended child is replaced at most Budget times without   *)
(* anybody asking again, and only a stop gives that budget back.           *)
(***************************************************************************)
EXTENDS Naturals

CONSTANTS
    Instance,
    Budget      \* automatic restarts between two stops

VARIABLES
    asked,      \* the starts and stops operators are asking for
    wanted,     \* the instance is meant to run
    left,       \* automatic restarts left
    child       \* no child, a running one, or one that ended

vars == <<asked, wanted, left, child>>

Asking == SUBSET (Instance \X {"start", "stop"})

Init ==
    /\ asked = {}
    /\ wanted = [i \in Instance |-> FALSE]
    /\ left = [i \in Instance |-> Budget]
    /\ child = [i \in Instance |-> "none"]

(* One instance changes; operators ask and are answered at any time.       *)
Becomes(i, w, n, c) ==
    /\ asked' \in Asking
    /\ wanted' = [wanted EXCEPT ![i] = w]
    /\ left' = [left EXCEPT ![i] = n]
    /\ child' = [child EXCEPT ![i] = c]

Ask == asked' \in Asking /\ UNCHANGED <<wanted, left, child>>

(* Somebody asks to start an instance that does not run: it runs, or not.  *)
Start(i) ==
    /\ <<i, "start">> \in asked /\ child[i] # "running"
    /\ Becomes(i, TRUE, left[i], "running")

StartFails(i) ==
    /\ <<i, "start">> \in asked /\ child[i] # "running"
    /\ Becomes(i, wanted[i], left[i], "none")

(* Somebody asks to stop the instance or to take it out of the fleet.      *)
Stop(i) == <<i, "stop">> \in asked /\ Becomes(i, FALSE, Budget, "none")

(* The child ends, whatever the reason.                                    *)
End(i) == child[i] = "running" /\ Becomes(i, wanted[i], left[i], "ended")

(* The supervisor acts on an ended child by itself.                        *)
Restart(i) ==
    /\ child[i] = "ended" /\ wanted[i] /\ left[i] > 0
    /\ Becomes(i, TRUE, left[i] - 1, "running")

RestartFails(i) ==
    /\ child[i] = "ended" /\ wanted[i] /\ left[i] > 0
    /\ Becomes(i, TRUE, left[i] - 1, "none")

GiveUp(i) ==
    /\ child[i] = "ended" /\ wanted[i] /\ left[i] = 0
    /\ Becomes(i, FALSE, 0, "none")

Next ==
    \/ Ask
    \/ \E i \in Instance :
         \/ Start(i)
         \/ StartFails(i)
         \/ Stop(i)
         \/ End(i)
         \/ Restart(i)
         \/ RestartFails(i)
         \/ GiveUp(i)

Spec == Init /\ [][Next]_vars
=============================================================================
