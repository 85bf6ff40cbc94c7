----------------------------- MODULE MCOtaJobs -----------------------------
(* Instances of OtaJobs for TLC.                                           *)
EXTENDS OtaJobs, TLC

Symmetry == Permutations(ConsentIds) \cup Permutations(Workers) \cup Permutations(Devices)

=============================================================================
