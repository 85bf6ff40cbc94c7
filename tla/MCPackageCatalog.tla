-------------------------- MODULE MCPackageCatalog --------------------------
(* Instances of PackageCatalog for TLC.                                    *)
EXTENDS PackageCatalog, TLC

Symmetry == Permutations(Workers)
=============================================================================
