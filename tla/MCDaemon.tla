------------------------------ MODULE MCDaemon ------------------------------
(***************************************************************************)
(* Instances of Daemon for TLC.  The run about clients starts without a    *)
(* killswitch, which none of its properties mentions, and assumes fairness *)
(* of no ticker and of no command.                                         *)
(***************************************************************************)
EXTENDS Daemon, TLC

OpenInit == Init /\ ~KsUp

LifetimeSpec == OpenInit /\ [][Next]_vars /\ LifetimeFairness
=============================================================================
