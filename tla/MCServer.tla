------------------------------ MODULE MCServer ------------------------------
(* One virtual EGM's process and its records for TLC.                      *)
EXTENDS Server
=============================================================================
