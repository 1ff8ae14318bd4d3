----------------------------- MODULE MCFolders -----------------------------
(* The instance TLC checks: two devices that are alike.                      *)
EXTENDS Folders, TLC

CONSTANTS d1, d2

Symm == Permutations(Devices)

\* What follows an exposed cycle is of no interest to properties that speak
\* of the others, but for what is done beside a conflict copy.
Calm == exposed \subseteq {"conflict"}
=============================================================================
