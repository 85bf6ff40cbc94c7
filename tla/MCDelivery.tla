----------------------------- MODULE MCDelivery ----------------------------
(* Instances of Delivery for TLC.                                          *)
EXTENDS Delivery, TLC

Symmetry == Permutations(Devices) \cup Permutations(Workers)

=============================================================================
