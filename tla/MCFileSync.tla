----------------------------- MODULE MCFileSync -----------------------------
\* FileSync for TLC: edits and devices are interchangeable.
EXTENDS FileSync, TLC

Sym == Permutations(Edits) \cup Permutations(Devices)

\* A mishap takes the place of one edit, the deletion of an edit that of two.
OneMishapOrThreeEdits ==
    LET edits == Cardinality(UNION {made[d] : d \in Devices}) IN
    /\ Len(met) = MaxMishaps => edits < Cardinality(Edits)
    /\ dropped # {} => edits < Cardinality(Edits) - 1
=============================================================================
