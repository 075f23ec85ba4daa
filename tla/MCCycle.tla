------------------------------- MODULE MCCycle -------------------------------
(* Instances of Cycle for TLC: the daemon and a command line. *)
EXTENDS Cycle, TLC

CONSTANTS u1, u2, daemon, cli

ProcKinds == [p \in Procs |-> IF p = daemon THEN {"loop"} ELSE {"once", "test"}]

\* The three variables, or no key.
Envs == {{"from", "key", "to"}, {"from", "to"}}

\* No mails, or none on the first day.
OffOrPaused == {[on |-> FALSE, until |-> 0], [on |-> TRUE, until |-> 1]}
=============================================================================
