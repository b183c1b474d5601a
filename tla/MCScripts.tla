----------------------------- MODULE MCScripts -----------------------------
(* ScriptNotifier on small instances, for TLC.                             *)
EXTENDS ScriptNotifier
BothScripts == {On, Off}
=============================================================================
