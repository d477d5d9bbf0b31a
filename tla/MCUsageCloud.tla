---------------------------- MODULE MCUsageCloud ----------------------------
(***************************************************************************)
(* Instances of UsageCloud for TLC.                                        *)
(***************************************************************************)
EXTENDS UsageCloud, TLC

Symmetry == Permutations(Procs)

=============================================================================
