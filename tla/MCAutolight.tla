---------------------------- MODULE MCAutolight ----------------------------
(* Autolight on small instances, for TLC.                                  *)
EXTENDS Autolight, TLC

Symmetry == Permutations(Cameras) \cup Permutations(Lights)
=============================================================================
