----------------------------- MODULE MCService -----------------------------
(* Service on small instances, for TLC.                                    *)
EXTENDS Service
=============================================================================
