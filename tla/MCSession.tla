------------------------------ MODULE MCSession ------------------------------
(* The session for TLC: scheduler goroutines are interchangeable.          *)
EXTENDS Session, TLC

Symmetry == Permutations(Worker) \cup Permutations(Manual)
=============================================================================
