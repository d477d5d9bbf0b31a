--------------------------- MODULE MCUsageBackup ---------------------------
(***************************************************************************)
(* Instances of UsageBackup for TLC.                                       *)
(***************************************************************************)
EXTENDS UsageBackup, TLC

CONSTANTS Leader, First, Second   \* one process, and the commands of it and the others

Together == [p \in Procs |-> IF p = Leader THEN First ELSE Second]
Symmetry == Permutations(Accounts)

=============================================================================
