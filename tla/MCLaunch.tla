------------------------------ MODULE MCLaunch ------------------------------
(* The supervisor and its children's listeners for TLC.                    *)
EXTENDS Launch
=============================================================================
