----------------------------- MODULE MCDetector -----------------------------
(* Detector, in its place in Daemon, on small instances, for TLC.          *)
EXTENDS DetectorInDaemon
=============================================================================
