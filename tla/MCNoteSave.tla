----------------------------- MODULE MCNoteSave -----------------------------
(* Two saves of different texts on one note.                               *)
EXTENDS NoteSave, TLC
CONSTANTS r1, r2, a, b, e1
MCBody == (r1 :> a) @@ (r2 :> b)
=============================================================================
