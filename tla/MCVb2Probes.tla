---------------------------- MODULE MCVb2Probes ----------------------------
(* Vb2Probes on small instances, for TLC.                                  *)
EXTENDS Vb2Probes

CONSTANTS p1, p2, self, d1

OneProcess == {<<p1, d1, 1>>, <<self, d1, 1>>}
TwoProcesses == OneProcess \cup {<<p2, d1, 1>>}
=============================================================================
