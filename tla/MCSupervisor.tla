---------------------------- MODULE MCSupervisor ----------------------------
(* The supervisor for TLC: processes and requests are interchangeable.     *)
EXTENDS Supervisor, TLC

Symmetry == Permutations(Proc) \cup Permutations(Handler)
=============================================================================
