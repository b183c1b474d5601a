------------------------------ MODULE MCDaemon ------------------------------
(* Daemon on small instances, for TLC.                                     *)
EXTENDS Daemon
=============================================================================
