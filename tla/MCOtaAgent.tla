----------------------------- MODULE MCOtaAgent -----------------------------
(* Instances of OtaAgent for TLC.                                          *)
EXTENDS OtaAgent, TLC

Symmetry == Permutations(Threads)
=============================================================================
