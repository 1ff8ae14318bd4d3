----------------------------- MODULE MCNoteTree -----------------------------
(* NoteTree for TLC: two names that differ in case only.                   *)
EXTENDS NoteTree

MCKey(n) == IF n = "A" THEN "a" ELSE n
=============================================================================
