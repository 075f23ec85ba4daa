------------------------------- MODULE MCFeeds -------------------------------
(* Instances of Feeds for TLC: the daemon and a command line. *)
EXTENDS Feeds, TLC

CONSTANTS daemon, cli, rates, sport

\* The daemon has a key for IG, the symbol may have an epic; the command line's
\* environment has no key.
AllSetups == {[p \in Procs |-> [key |-> p = daemon, epic |-> e]] : e \in BOOLEAN}
=============================================================================
