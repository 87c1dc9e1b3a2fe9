---------------------------- MODULE MCAdmission ----------------------------
(* Admission for TLC: concurrent requests are interchangeable.             *)
EXTENDS Admission, TLC

Symmetry == Permutations(Conn) \cup Permutations(Setter)

(* Changes with an effect, with a value the pack may not have, of an op or *)
(* a path that does nothing, and malformed ones.                           *)
MCSet(path, values) == {[op |-> "set", path |-> path, value |-> v] : v \in values}

MCChange ==
    MCSet("/state_defaults/registration_mode", {"open", "deny_all", "unknown mode"})
    \cup MCSet("/timers/artificial_response_delay_ms", Delay \cup {"not a number"})
    \cup MCSet("/timers/request_timeout_ms", Delay)
    \cup {[op |-> op, path |-> "/state_defaults/registration_mode", value |-> "open"] : op \in {"merge", ""}}
=============================================================================
