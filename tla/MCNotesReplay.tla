---------------------------- MODULE MCNotesReplay ----------------------------
EXTENDS NotesReplay, TLC
CONSTANTS d1, d2
DeviceSymmetry == Permutations(Devices)
\* A third change beside a mishap only for what the mishap is about: deletions
\* and restores, when a record is kept or expires.
FewWithMishap ==
    /\ "stop" \in mishaps => Changes <= 2
    /\ mishaps # {} /\ Changes > 2 =>
         \A d \in Devices : \A i \in DOMAIN journal[d] :
            journal[d][i].kind \in {"create", "delete", "restore"}
=============================================================================
