------------------------------ MODULE MCBlobGC ------------------------------
(***************************************************************************)
(* Constants for checking BlobGC: one file that one or two devices upload, *)
(* with two contents, and the maintenance of one device.                   *)
(***************************************************************************)
EXTENDS BlobGC, TLC

CONSTANTS d1, d2, d3, f1, h1, h2

OneJob  == {<<d1, f1>>}
OneFile == {<<d1, f1>>, <<d2, f1>>}

\* The devices without maintenance are alike, and so are the contents.
Symmetry == {p @@ q : p \in Permutations({d1, d2}), q \in Permutations({h1, h2})}

\* A call fails, or the user edits the file, once.
OneMishap == faults + edits <= 1
=============================================================================
