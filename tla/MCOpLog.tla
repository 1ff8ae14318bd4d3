------------------------------ MODULE MCOpLog ------------------------------
(***************************************************************************)
(* Constants for checking OpLog: two requests compete for one file and a   *)
(* third one changes another file.                                         *)
(***************************************************************************)
EXTENDS OpLog, TLC

CONSTANTS r1, r2, r3, f1, f2

TwoOnOneFile == (r1 :> f1) @@ (r2 :> f1) @@ (r3 :> f2)
=============================================================================
