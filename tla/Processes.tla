------------------------------ MODULE Processes ------------------------------
(* The processes that run the daily check: the daemon, and what the operator *)
(* or a timer starts from the command line.                                  *)
CONSTANT Procs
=============================================================================
