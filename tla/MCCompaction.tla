---------------------------- MODULE MCCompaction ----------------------------
(* The instance TLC checks: two devices that are alike. *)
EXTENDS Compaction, TLC

CONSTANTS d1, d2

Symm == Permutations(Dev)

=============================================================================
