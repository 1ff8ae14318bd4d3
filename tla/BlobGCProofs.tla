---------------------------- MODULE BlobGCProofs ----------------------------
(***************************************************************************)
(* Machine-checked proof that referenced bytes are lost only where a       *)
(* reference could appear behind the scan of a sweep, for any number of    *)
(* devices, files, contents, uploads and faults.                           *)
(*                                                                         *)
(* A sweep deletes the blob it found no reference to, reading one place    *)
(* after another.  The references of a content move the other way: a lease *)
(* becomes an operation and a tree entry before it is released, a tree     *)
(* entry becomes a deletion record before it goes.  So what a sweep has    *)
(* read stays without a reference to its candidate (ScanClean), and what   *)
(* is needed has its bytes (BytesThere).  The upload that created a blob   *)
(* may still delete it after its hash check; until then nobody needs the   *)
(* bytes (NoneNeedsUnchecked).                                             *)
(***************************************************************************)
EXTENDS BlobGC, TLAPS

-----------------------------------------------------------------------------
(* The inductive invariant.                                                *)

\* An upload of h has put its lease and is not over.
Promised(h) ==
  \E j \in Jobs : pc[j] \in {"commit", "tree", "release"} /\ hashed[j] = h

InTree(h)    == \E f \in Files : tree[f] = h
InRecords(h) == \E f \in Files : h \in record[f]
InOps(h)     == \E o \in ops : o[2] = h
InSnaps(h)   == \E i \in DOMAIN snapshots : h \in snapshots[i]

Needed(h) == Promised(h) \/ InTree(h) \/ InRecords(h) \/ InOps(h) \/ InSnaps(h)

\* An upload and a sweep under way are about some content.
Typed ==
  /\ TypeOK
  /\ \A j \in Jobs : Uploading(j) => hashed[j] \in Hashes
  /\ \A d \in Sweepers : at[d] # "idle" => candidate[d] \in Hashes

\* A device runs one upload at a time.
OneUpload ==
  \A j, k \in Jobs :
    Uploading(j) /\ Uploading(k) /\ Device(j) = Device(k) => j = k

\* Nobody but the upload takes its lease back, and time only by exposing it.
LeaseHeld ==
  \A j \in Jobs : pc[j] \in {"commit", "tree", "release"} =>
    <<hashed[j], Device(j)>> \in lease \/ hashed[j] \in exposed

\* What is needed has its bytes.
BytesThere == \A h \in Hashes \ exposed : Needed(h) => blob[h] = "good"

\* Bytes that are still compared with the file are needed by nobody.
NoneNeedsUnchecked ==
  \A j \in Jobs : pc[j] = "rehash" /\ hashed[j] \notin exposed => ~Needed(hashed[j])

PastLease   == {"tree", "tombstones", "ops", "snapshots", "delete"}
PastTree    == PastLease \ {"tree"}
PastRecords == PastTree \ {"tombstones"}
PastOps     == PastRecords \ {"ops"}
PastSnaps   == PastOps \ {"snapshots"}

\* No reference appears behind the scan of d.
ScanClean(d) ==
  candidate[d] \notin exposed =>
    /\ at[d] \in PastLease   => ~Promised(candidate[d])
    /\ at[d] \in PastTree    => ~InTree(candidate[d])
    /\ at[d] \in PastRecords => ~InRecords(candidate[d])
    /\ at[d] \in PastOps     => ~InOps(candidate[d])
    /\ at[d] \in PastSnaps   => ~InSnaps(candidate[d])

KeptInv ==
  /\ Typed
  /\ OneUpload
  /\ LeaseHeld
  /\ BytesThere
  /\ NoneNeedsUnchecked
  /\ \A d \in Sweepers : ScanClean(d)

-----------------------------------------------------------------------------
(* Types.                                                                  *)

(* The order in which remote_blob_is_referenced reads the places. *)
LEMMA ScanOrder ==
  /\ NextPlace("local") = "lease" /\ NextPlace("lease") = "tree"
  /\ NextPlace("tree") = "tombstones" /\ NextPlace("tombstones") = "ops"
  /\ NextPlace("ops") = "snapshots" /\ NextPlace("snapshots") = "delete"
<1>1. /\ DOMAIN Places = 1..6 /\ Len(Places) = 6
      /\ Places[1] = "local" /\ Places[2] = "lease" /\ Places[3] = "tree"
      /\ Places[4] = "tombstones" /\ Places[5] = "ops" /\ Places[6] = "snapshots"
  BY DEF Places
<1>2. \A i \in 1..6 : (CHOOSE k \in DOMAIN Places : Places[k] = Places[i]) = i
  <2>1. \A i, k \in 1..6 : Places[k] = Places[i] => k = i
    BY <1>1
  <2>2. QED
    BY <1>1, <2>1
<1>3. \A i \in 1..6 : NextPlace(Places[i]) = IF i = 6 THEN "delete" ELSE Places[i + 1]
  BY <1>1, <1>2 DEF NextPlace
<1>4. QED
  BY <1>1, <1>3

(* The phases of a sweep are the places it reads, and before and after. *)
LEMMA SweepPhasesAre ==
  SweepPhases = {"idle", "delete", "local", "lease", "tree", "tombstones", "ops",
                 "snapshots"}
<1>1. /\ DOMAIN Places = 1..6
      /\ Places[1] = "local" /\ Places[2] = "lease" /\ Places[3] = "tree"
      /\ Places[4] = "tombstones" /\ Places[5] = "ops" /\ Places[6] = "snapshots"
  BY DEF Places
<1>2. QED
  BY <1>1 DEF SweepPhases

(* No step leaves the types. *)
LEMMA TypeStep == Typed /\ [Next]_vars => Typed'
<1> SUFFICES ASSUME Typed, [Next]_vars PROVE Typed'
  OBVIOUS
<1>t. TypeOK
  BY DEF Typed
<1> USE JobsAssumption, SweepersAssumption, BoundsAssumption, KeepAssumption
<1>1. ASSUME NEW j \in Jobs, BeginUpload(j) PROVE Typed'
  <2>j. /\ Device(j) \in Devices /\ File(j) \in Files
        /\ Uploading(j) => hashed[j] \in Hashes
    BY DEF Device, File, Typed
  <2>1. UNCHANGED <<blob, lease, ops, old, tree, record, deleted, snapshots,
                    content, row, at, candidate, exposed, faults, edits>>
    BY <1>1 DEF BeginUpload, bucketVars, uploadVars, sweepVars, boundVars
  <2>2. hashed' \in [Jobs -> Hashes \cup {NoContent}]
    BY <1>1, <1>t, <2>j DEF BeginUpload, GoTo, Uploading, UploadPhases, TypeOK
  <2>3. pc' \in [Jobs -> UploadPhases]
    BY <1>1, <1>t, <2>j DEF BeginUpload, GoTo, Uploading, UploadPhases, TypeOK
  <2>4. index' \in [Sweepers -> SUBSET Hashes]
    BY <1>1, <1>t, <2>j DEF BeginUpload, GoTo, Uploading, UploadPhases, TypeOK
  <2>5. TypeOK'
    BY <2>1, <2>2, <2>3, <2>4, <1>t DEF TypeOK
  <2>6. QED
    BY <2>1, <2>5, <1>1, <1>t, <2>j DEF BeginUpload, GoTo, Uploading, Typed, TypeOK
<1>2. ASSUME NEW j \in Jobs, HeadBlob(j) PROVE Typed'
  <2>j. /\ Device(j) \in Devices /\ File(j) \in Files
        /\ Uploading(j) => hashed[j] \in Hashes
    BY DEF Device, File, Typed
  <2>1. UNCHANGED <<blob, lease, ops, old, tree, record, deleted, snapshots, content,
                    hashed, index, row, at, candidate, exposed, faults, edits>>
    BY <1>2 DEF HeadBlob, bucketVars, uploadVars, sweepVars, boundVars
  <2>2. pc' \in [Jobs -> UploadPhases]
    BY <1>2, <1>t, <2>j DEF HeadBlob, GoTo, Uploading, UploadPhases, TypeOK
  <2>3. TypeOK'
    BY <2>1, <2>2, <1>t DEF TypeOK
  <2>4. QED
    BY <2>1, <2>3, <1>2, <1>t, <2>j DEF HeadBlob, GoTo, Uploading, Typed, TypeOK
<1>3. ASSUME NEW j \in Jobs, PutBlob(j) PROVE Typed'
  <2>j. /\ Device(j) \in Devices /\ File(j) \in Files
        /\ Uploading(j) => hashed[j] \in Hashes
    BY DEF Device, File, Typed
  <2>1. UNCHANGED <<lease, ops, old, tree, record, deleted, snapshots, content,
                    hashed, index, row, at, candidate, exposed, edits>>
    BY <1>3 DEF PutBlob, bucketVars, uploadVars, sweepVars, boundVars
  <2>2. blob' \in [Hashes -> {"none", "good", "bad"}]
    <3>1. blob \in [Hashes -> {"none", "good", "bad"}]
      BY <1>t DEF TypeOK
    <3>2. Uploaded(j) \in {"none", "good", "bad"}
      BY DEF Uploaded
    <3>3. blob' = blob \/ blob' = [blob EXCEPT ![hashed[j]] = Uploaded(j)]
      BY <1>3 DEF PutBlob
    <3>4. QED
      BY <3>1, <3>2, <3>3
  <2>3. pc' \in [Jobs -> UploadPhases]
    <3>1. \E p \in {"rehash", "lease"} : GoTo(j, p)
      BY <1>3 DEF PutBlob
    <3>2. QED
      BY <3>1, <1>t DEF GoTo, UploadPhases, TypeOK
  <2>4. faults' \in 0..MaxFaults
    BY <1>3, <1>t, <2>j
       DEF PutBlob, GoTo, Fault, Uploaded, Uploading, UploadPhases, TypeOK
  <2>5. TypeOK'
    BY <2>1, <2>2, <2>3, <2>4, <1>t DEF TypeOK
  <2>6. QED
    BY <2>1, <2>5, <1>3, <1>t, <2>j
       DEF PutBlob, GoTo, Fault, Uploaded, Uploading, Typed, TypeOK
<1>4. ASSUME NEW j \in Jobs, RehashSame(j) PROVE Typed'
  <2>j. /\ Device(j) \in Devices /\ File(j) \in Files
        /\ Uploading(j) => hashed[j] \in Hashes
    BY DEF Device, File, Typed
  <2>1. UNCHANGED <<blob, lease, ops, old, tree, record, deleted, snapshots, content,
                    hashed, index, row, at, candidate, exposed, faults, edits>>
    BY <1>4 DEF RehashSame, bucketVars, uploadVars, sweepVars, boundVars
  <2>2. pc' \in [Jobs -> UploadPhases]
    BY <1>4, <1>t, <2>j DEF RehashSame, GoTo, Uploading, UploadPhases, TypeOK
  <2>3. TypeOK'
    BY <2>1, <2>2, <1>t DEF TypeOK
  <2>4. QED
    BY <2>1, <2>3, <1>4, <1>t, <2>j DEF RehashSame, GoTo, Uploading, Typed, TypeOK
<1>5. ASSUME NEW j \in Jobs, RehashChanged(j) PROVE Typed'
  <2>j. /\ Device(j) \in Devices /\ File(j) \in Files
        /\ Uploading(j) => hashed[j] \in Hashes
    BY DEF Device, File, Typed
  <2>1. UNCHANGED <<lease, ops, old, tree, record, deleted, snapshots, content,
                    index, row, at, candidate, exposed, faults, edits>>
    BY <1>5 DEF RehashChanged, bucketVars, uploadVars, sweepVars, boundVars
  <2>2. blob' \in [Hashes -> {"none", "good", "bad"}]
    BY <1>5, <1>t, <2>j DEF RehashChanged, GoTo, End, Uploading, UploadPhases, TypeOK
  <2>3. hashed' \in [Jobs -> Hashes \cup {NoContent}]
    BY <1>5, <1>t, <2>j DEF RehashChanged, GoTo, End, Uploading, UploadPhases, TypeOK
  <2>4. pc' \in [Jobs -> UploadPhases]
    BY <1>5, <1>t, <2>j DEF RehashChanged, GoTo, End, Uploading, UploadPhases, TypeOK
  <2>5. TypeOK'
    BY <2>1, <2>2, <2>3, <2>4, <1>t DEF TypeOK
  <2>6. QED
    BY <2>1, <2>5, <1>5, <1>t, <2>j
       DEF RehashChanged, GoTo, End, Uploading, Typed, TypeOK
<1>6. ASSUME NEW j \in Jobs, PutLease(j) PROVE Typed'
  <2>j. /\ Device(j) \in Devices /\ File(j) \in Files
        /\ Uploading(j) => hashed[j] \in Hashes
    BY DEF Device, File, Typed
  <2>1. UNCHANGED <<blob, ops, old, tree, record, deleted, snapshots, content,
                    hashed, index, row, at, candidate, faults, edits>>
    BY <1>6 DEF PutLease, bucketVars, uploadVars, sweepVars, boundVars
  <2>2. lease' \subseteq Hashes \X Devices
    BY <1>6, <1>t, <2>j DEF PutLease, GoTo, Uploading, UploadPhases, TypeOK
  <2>3. pc' \in [Jobs -> UploadPhases]
    BY <1>6, <1>t, <2>j DEF PutLease, GoTo, Uploading, UploadPhases, TypeOK
  <2>4. exposed' \subseteq Hashes
    BY <1>6, <1>t, <2>j DEF PutLease, GoTo, Uploading, UploadPhases, TypeOK
  <2>5. TypeOK'
    BY <2>1, <2>2, <2>3, <2>4, <1>t DEF TypeOK
  <2>6. QED
    BY <2>1, <2>5, <1>6, <1>t, <2>j DEF PutLease, GoTo, Uploading, Typed, TypeOK
<1>7. ASSUME NEW j \in Jobs, CommitUpload(j) PROVE Typed'
  <2>j. /\ Device(j) \in Devices /\ File(j) \in Files
        /\ Uploading(j) => hashed[j] \in Hashes
    BY DEF Device, File, Typed
  <2>1. UNCHANGED <<blob, tree, record, deleted, snapshots, content, index,
                    row, at, candidate, exposed, faults, edits>>
    BY <1>7 DEF CommitUpload, bucketVars, uploadVars, sweepVars, boundVars
  <2>2. lease' \subseteq Hashes \X Devices
    BY <1>7, <1>t, <2>j
       DEF CommitUpload, GoTo, End, File, Uploading, UploadPhases, TypeOK
  <2>3. ops' \subseteq Files \X Hashes
    BY <1>7, <1>t, <2>j
       DEF CommitUpload, GoTo, End, File, Uploading, UploadPhases, TypeOK
  <2>4. old' \subseteq ops'
    BY <1>7, <1>t, <2>j
       DEF CommitUpload, GoTo, End, File, Uploading, UploadPhases, TypeOK
  <2>5. hashed' \in [Jobs -> Hashes \cup {NoContent}]
    BY <1>7, <1>t, <2>j
       DEF CommitUpload, GoTo, End, File, Uploading, UploadPhases, TypeOK
  <2>6. pc' \in [Jobs -> UploadPhases]
    <3>1. \E p \in {"tree", "idle"} : GoTo(j, p)
      BY <1>7 DEF CommitUpload, End
    <3>2. QED
      BY <3>1, <1>t DEF GoTo, UploadPhases, TypeOK
  <2>7. TypeOK'
    BY <2>1, <2>2, <2>3, <2>4, <2>5, <2>6, <1>t DEF TypeOK
  <2>8. QED
    BY <2>1, <2>7, <1>7, <1>t, <2>j
       DEF CommitUpload, GoTo, End, File, Uploading, Typed, TypeOK
<1>8. ASSUME NEW j \in Jobs, UpsertEntry(j) PROVE Typed'
  <2>j. /\ Device(j) \in Devices /\ File(j) \in Files
        /\ Uploading(j) => hashed[j] \in Hashes
    BY DEF Device, File, Typed
  <2>1. UNCHANGED <<blob, lease, ops, old, record, deleted, snapshots, content,
                    hashed, index, row, at, candidate, exposed, edits>>
    BY <1>8 DEF UpsertEntry, bucketVars, uploadVars, sweepVars, boundVars
  <2>2. tree' \in [Files -> Hashes \cup {NoContent}]
    BY <1>8, <1>t, <2>j
       DEF UpsertEntry, GoTo, Fault, File, Uploading, UploadPhases, TypeOK
  <2>3. pc' \in [Jobs -> UploadPhases]
    BY <1>8, <1>t, <2>j
       DEF UpsertEntry, GoTo, Fault, File, Uploading, UploadPhases, TypeOK
  <2>4. faults' \in 0..MaxFaults
    BY <1>8, <1>t, <2>j
       DEF UpsertEntry, GoTo, Fault, File, Uploading, UploadPhases, TypeOK
  <2>5. TypeOK'
    BY <2>1, <2>2, <2>3, <2>4, <1>t DEF TypeOK
  <2>6. QED
    BY <2>1, <2>5, <1>8, <1>t, <2>j
       DEF UpsertEntry, GoTo, Fault, File, Uploading, Typed, TypeOK
<1>9. ASSUME NEW j \in Jobs, ReleaseLease(j) PROVE Typed'
  <2>j. /\ Device(j) \in Devices /\ File(j) \in Files
        /\ Uploading(j) => hashed[j] \in Hashes
    BY DEF Device, File, Typed
  <2>1. UNCHANGED <<blob, ops, old, tree, record, deleted, snapshots, content,
                    index, row, at, candidate, exposed, edits>>
    BY <1>9 DEF ReleaseLease, bucketVars, uploadVars, sweepVars, boundVars
  <2>2. lease' \subseteq Hashes \X Devices
    BY <1>9, <1>t, <2>j
       DEF ReleaseLease, GoTo, End, Fault, Uploading, UploadPhases, TypeOK
  <2>3. hashed' \in [Jobs -> Hashes \cup {NoContent}]
    BY <1>9, <1>t, <2>j
       DEF ReleaseLease, GoTo, End, Fault, Uploading, UploadPhases, TypeOK
  <2>4. pc' \in [Jobs -> UploadPhases]
    BY <1>9, <1>t, <2>j
       DEF ReleaseLease, GoTo, End, Fault, Uploading, UploadPhases, TypeOK
  <2>5. faults' \in 0..MaxFaults
    BY <1>9, <1>t, <2>j
       DEF ReleaseLease, GoTo, End, Fault, Uploading, UploadPhases, TypeOK
  <2>6. TypeOK'
    BY <2>1, <2>2, <2>3, <2>4, <2>5, <1>t DEF TypeOK
  <2>7. QED
    BY <2>1, <2>6, <1>9, <1>t, <2>j
       DEF ReleaseLease, GoTo, End, Fault, Uploading, Typed, TypeOK
<1>10. ASSUME NEW j \in Jobs, UploadFails(j) PROVE Typed'
  <2>j. /\ Device(j) \in Devices /\ File(j) \in Files
        /\ Uploading(j) => hashed[j] \in Hashes
    BY DEF Device, File, Typed
  <2>1. UNCHANGED <<tree, record, deleted, snapshots, content, index,
                    row, at, candidate, exposed, edits>>
    BY <1>10 DEF UploadFails, bucketVars, uploadVars, sweepVars, boundVars
  <2>2. blob' \in [Hashes -> {"none", "good", "bad"}]
    BY <1>10, <1>t, <2>j
       DEF UploadFails, GoTo, End, Fault, Uploaded, File, Uploading,
       UploadPhases, TypeOK
  <2>3. lease' \subseteq Hashes \X Devices
    BY <1>10, <1>t, <2>j
       DEF UploadFails, GoTo, End, Fault, Uploaded, File, Uploading,
       UploadPhases, TypeOK
  <2>4. ops' \subseteq Files \X Hashes
    BY <1>10, <1>t, <2>j
       DEF UploadFails, GoTo, End, Fault, Uploaded, File, Uploading,
       UploadPhases, TypeOK
  <2>5. old' \subseteq ops'
    BY <1>10, <1>t, <2>j
       DEF UploadFails, GoTo, End, Fault, Uploaded, File, Uploading,
       UploadPhases, TypeOK
  <2>6. hashed' \in [Jobs -> Hashes \cup {NoContent}]
    BY <1>10, <1>t, <2>j
       DEF UploadFails, GoTo, End, Fault, Uploaded, File, Uploading,
       UploadPhases, TypeOK
  <2>7. pc' \in [Jobs -> UploadPhases]
    BY <1>10, <1>t, <2>j
       DEF UploadFails, GoTo, End, Fault, Uploaded, File, Uploading,
       UploadPhases, TypeOK
  <2>8. faults' \in 0..MaxFaults
    BY <1>10, <1>t, <2>j
       DEF UploadFails, GoTo, End, Fault, Uploaded, File, Uploading,
       UploadPhases, TypeOK
  <2>9. TypeOK'
    BY <2>1, <2>2, <2>3, <2>4, <2>5, <2>6, <2>7, <2>8, <1>t DEF TypeOK
  <2>10. QED
    BY <2>1, <2>9, <1>10, <1>t, <2>j
       DEF UploadFails, GoTo, End, Fault, Uploaded, File, Uploading, Typed, TypeOK
<1>11. ASSUME NEW j \in Jobs, Edit(j) PROVE Typed'
  <2>j. /\ Device(j) \in Devices /\ File(j) \in Files
        /\ Uploading(j) => hashed[j] \in Hashes
    BY DEF Device, File, Typed
  <2>1. UNCHANGED <<blob, lease, ops, old, tree, record, deleted, snapshots,
                    hashed, index, row, at, candidate, exposed, faults>>
    BY <1>11 DEF Edit, bucketVars, uploadVars, sweepVars, boundVars
  <2>2. content' \in [Jobs -> Hashes]
    BY <1>11, <1>t, <2>j DEF Edit, Uploading, UploadPhases, TypeOK
  <2>3. pc' \in [Jobs -> UploadPhases]
    BY <1>11, <1>t, <2>j DEF Edit, Uploading, UploadPhases, TypeOK
  <2>4. edits' \in 0..MaxEdits
    BY <1>11, <1>t, <2>j DEF Edit, Uploading, UploadPhases, TypeOK
  <2>5. TypeOK'
    BY <2>1, <2>2, <2>3, <2>4, <1>t DEF TypeOK
  <2>6. QED
    BY <2>1, <2>5, <1>11, <1>t, <2>j DEF Edit, Uploading, Typed, TypeOK
<1>12. ASSUME NEW f \in Files, WriteRecord(f) PROVE Typed'
  <2>1. UNCHANGED <<blob, lease, ops, old, tree, snapshots, content, hashed, pc,
                    index, row, at, candidate, exposed, faults, edits>>
    BY <1>12 DEF WriteRecord, bucketVars, uploadVars, sweepVars, boundVars
  <2>2. record' \in [Files -> SUBSET Hashes]
    BY <1>12, <1>t DEF WriteRecord, TypeOK
  <2>3. deleted' \in [Files -> {"live", "deleting", "deleted", "restoring"}]
    BY <1>12, <1>t DEF WriteRecord, TypeOK
  <2>4. TypeOK'
    BY <2>1, <2>2, <2>3, <1>t DEF TypeOK
  <2>5. QED
    BY <2>1, <2>4 DEF Typed, Uploading
<1>13. ASSUME NEW f \in Files, DeleteEntry(f) PROVE Typed'
  <2>1. UNCHANGED <<blob, lease, ops, old, record, snapshots, content, hashed, pc,
                    index, row, at, candidate, exposed, faults, edits>>
    BY <1>13 DEF DeleteEntry, bucketVars, uploadVars, sweepVars, boundVars
  <2>2. tree' \in [Files -> Hashes \cup {NoContent}]
    BY <1>13, <1>t DEF DeleteEntry, TypeOK
  <2>3. deleted' \in [Files -> {"live", "deleting", "deleted", "restoring"}]
    BY <1>13, <1>t DEF DeleteEntry, TypeOK
  <2>4. TypeOK'
    BY <2>1, <2>2, <2>3, <1>t DEF TypeOK
  <2>5. QED
    BY <2>1, <2>4 DEF Typed, Uploading
<1>14. ASSUME NEW f \in Files, RestoreEntry(f) PROVE Typed'
  <2>1. UNCHANGED <<blob, lease, ops, old, record, snapshots, content, hashed,
                    pc, index, row, at, candidate, faults, edits>>
    BY <1>14 DEF RestoreEntry, bucketVars, uploadVars, sweepVars, boundVars
  <2>2. tree' \in [Files -> Hashes \cup {NoContent}]
    BY <1>14, <1>t DEF RestoreEntry, TypeOK
  <2>3. exposed' \subseteq Hashes
    BY <1>14, <1>t DEF RestoreEntry, TypeOK
  <2>4. deleted' \in [Files -> {"live", "deleting", "deleted", "restoring"}]
    BY <1>14, <1>t DEF RestoreEntry, TypeOK
  <2>5. TypeOK'
    BY <2>1, <2>2, <2>3, <2>4, <1>t DEF TypeOK
  <2>6. QED
    BY <2>1, <2>5 DEF Typed, Uploading
<1>15. ASSUME NEW f \in Files, RetireRecord(f) PROVE Typed'
  <2>1. UNCHANGED <<blob, lease, ops, old, tree, snapshots, content, hashed, pc,
                    index, row, at, candidate, exposed, faults, edits>>
    BY <1>15 DEF RetireRecord, bucketVars, uploadVars, sweepVars, boundVars
  <2>2. record' \in [Files -> SUBSET Hashes]
    BY <1>15, <1>t DEF RetireRecord, TypeOK
  <2>3. deleted' \in [Files -> {"live", "deleting", "deleted", "restoring"}]
    BY <1>15, <1>t DEF RetireRecord, TypeOK
  <2>4. TypeOK'
    BY <2>1, <2>2, <2>3, <1>t DEF TypeOK
  <2>5. QED
    BY <2>1, <2>4 DEF Typed, Uploading
<1>16. ASSUME NEW f \in Files, RecordExpires(f) PROVE Typed'
  <2>1. UNCHANGED <<blob, ops, old, tree, snapshots, content, hashed, pc,
                    index, row, at, candidate, exposed, faults, edits>>
    BY <1>16 DEF RecordExpires, bucketVars, uploadVars, sweepVars, boundVars
  <2>2. record' \in [Files -> SUBSET Hashes]
    BY <1>16, <1>t DEF RecordExpires, TypeOK
  <2>3. deleted' \in [Files -> {"live", "deleting", "deleted", "restoring"}]
    BY <1>16, <1>t DEF RecordExpires, TypeOK
  <2>4. lease' \subseteq Hashes \X Devices
    BY <1>16, <1>t DEF RecordExpires, TypeOK
  <2>5. TypeOK'
    BY <2>1, <2>2, <2>3, <2>4, <1>t DEF TypeOK
  <2>6. QED
    BY <2>1, <2>5 DEF Typed, Uploading
<1>17. ASSUME TakeSnapshot PROVE Typed'
  <2>1. UNCHANGED <<blob, lease, ops, old, tree, record, deleted, content, hashed,
                    pc, index, row, at, candidate, exposed, faults, edits>>
    BY <1>17 DEF TakeSnapshot, bucketVars, uploadVars, sweepVars, boundVars
  <2>2. snapshots' \in Seq(SUBSET Hashes) /\ Len(snapshots') <= SnapshotKeep
    <3> DEFINE all == Append(snapshots, TreeContents)
    <3>1. TreeContents \in SUBSET Hashes
      BY <1>t DEF TreeContents, TypeOK
    <3>2. snapshots \in Seq(SUBSET Hashes) /\ Len(snapshots) <= SnapshotKeep
      BY <1>t DEF TypeOK
    <3>3. /\ all \in Seq(SUBSET Hashes) /\ Len(all) = Len(snapshots) + 1
          /\ Len(all) \in Nat /\ Len(snapshots) \in Nat /\ all # <<>>
      BY <3>1, <3>2
    <3>4. Tail(all) \in Seq(SUBSET Hashes) /\ Len(Tail(all)) = Len(all) - 1
      BY <3>3
    <3>5. snapshots' = IF Len(all) > SnapshotKeep THEN Tail(all) ELSE all
      BY <1>17 DEF TakeSnapshot
    <3> HIDE DEF all
    <3>6. QED
      BY <3>2, <3>3, <3>4, <3>5
  <2>3. TypeOK'
    BY <2>1, <2>2, <1>t DEF TypeOK
  <2>4. QED
    BY <2>1, <2>3 DEF Typed, Uploading
<1>18. ASSUME NEW o \in ops, PruneOp(o) PROVE Typed'
  <2>1. UNCHANGED <<blob, lease, tree, record, deleted, snapshots, content, hashed, pc,
                    index, row, at, candidate, exposed, faults, edits>>
    BY <1>18 DEF PruneOp, bucketVars, uploadVars, sweepVars, boundVars
  <2>2. ops' \subseteq Files \X Hashes
    BY <1>18, <1>t DEF PruneOp, TypeOK
  <2>3. old' \subseteq ops'
    BY <1>18, <1>t DEF PruneOp, TypeOK
  <2>4. TypeOK'
    BY <2>1, <2>2, <2>3, <1>t DEF TypeOK
  <2>5. QED
    BY <2>1, <2>4 DEF Typed, Uploading
<1>19. ASSUME NEW o \in ops, OpRetentionEnds(o) PROVE Typed'
  <2>1. UNCHANGED <<blob, ops, tree, record, deleted, snapshots, content, hashed, pc,
                    index, row, at, candidate, exposed, faults, edits>>
    BY <1>19 DEF OpRetentionEnds, bucketVars, uploadVars, sweepVars, boundVars
  <2>2. old' \subseteq ops'
    BY <1>19, <1>t DEF OpRetentionEnds, TypeOK
  <2>3. lease' \subseteq Hashes \X Devices
    BY <1>19, <1>t DEF OpRetentionEnds, TypeOK
  <2>4. TypeOK'
    BY <2>1, <2>2, <2>3, <1>t DEF TypeOK
  <2>5. QED
    BY <2>1, <2>4 DEF Typed, Uploading
<1>20. ASSUME NEW d \in Sweepers, CheckPlace(d) PROVE Typed'
  <2>1. UNCHANGED <<blob, lease, ops, old, tree, record, deleted, snapshots,
                    content, hashed, pc, index, exposed, faults, edits>>
    BY <1>20 DEF CheckPlace, bucketVars, uploadVars, sweepVars, boundVars
  <2>2. row' \in [Sweepers -> [Hashes -> {"none", "waiting", "due"}]]
    <3>1. row[d] \in [Hashes -> {"none", "waiting", "due"}]
      BY <1>t DEF TypeOK
    <3>2. row' \in {row, [row EXCEPT ![d] = [row[d] EXCEPT ![candidate[d]] = "none"]]}
      BY <1>20 DEF CheckPlace
    <3>3. [row[d] EXCEPT ![candidate[d]] = "none"]
            \in [Hashes -> {"none", "waiting", "due"}]
      BY <3>1
    <3>4. QED
      BY <3>2, <3>3, <1>t DEF TypeOK
  <2>3. at' \in [Sweepers -> SweepPhases]
    <3>1. at[d] \in SweepPhases \ {"idle", "delete"}
      BY <1>20, <1>t DEF CheckPlace, TypeOK
    <3>2. NextPlace(at[d]) \in SweepPhases
      BY <3>1, SweepPhasesAre, ScanOrder
    <3>3. at' \in {[at EXCEPT ![d] = "idle"], [at EXCEPT ![d] = NextPlace(at[d])]}
      BY <1>20 DEF CheckPlace, EndSweep
    <3>4. QED
      BY <3>2, <3>3, <1>t, SweepPhasesAre DEF TypeOK
  <2>4. candidate' \in [Sweepers -> Hashes \cup {NoContent}]
    BY <1>20, <1>t DEF CheckPlace, EndSweep, TypeOK
  <2>5. TypeOK'
    BY <2>1, <2>2, <2>3, <2>4, <1>t DEF TypeOK
  <2>6. QED
    BY <2>1, <2>5, <1>20, <1>t DEF CheckPlace, EndSweep, Uploading, Typed, TypeOK
<1>21. ASSUME NEW d \in Sweepers, DeleteBlob(d) PROVE Typed'
  <2>1. UNCHANGED <<lease, ops, old, tree, record, deleted, snapshots, content,
                    hashed, pc, index, exposed, faults, edits>>
    BY <1>21 DEF DeleteBlob, bucketVars, uploadVars, sweepVars, boundVars
  <2>2. blob' \in [Hashes -> {"none", "good", "bad"}]
    BY <1>21, <1>t DEF DeleteBlob, EndSweep, TypeOK
  <2>3. row' \in [Sweepers -> [Hashes -> {"none", "waiting", "due"}]]
    BY <1>21, <1>t DEF DeleteBlob, EndSweep, TypeOK
  <2>4. at' \in [Sweepers -> SweepPhases]
    BY <1>21, <1>t, SweepPhasesAre, ScanOrder DEF DeleteBlob, EndSweep, TypeOK
  <2>5. candidate' \in [Sweepers -> Hashes \cup {NoContent}]
    BY <1>21, <1>t DEF DeleteBlob, EndSweep, TypeOK
  <2>6. TypeOK'
    BY <2>1, <2>2, <2>3, <2>4, <2>5, <1>t DEF TypeOK
  <2>7. QED
    BY <2>1, <2>6, <1>21, <1>t DEF DeleteBlob, EndSweep, Uploading, Typed, TypeOK
<1>22. ASSUME NEW d \in Sweepers, SweepFails(d) PROVE Typed'
  <2>1. UNCHANGED <<lease, ops, old, tree, record, deleted, snapshots, content,
                    hashed, pc, index, row, exposed, edits>>
    BY <1>22 DEF SweepFails, bucketVars, uploadVars, sweepVars, boundVars
  <2>2. blob' \in [Hashes -> {"none", "good", "bad"}]
    BY <1>22, <1>t DEF SweepFails, EndSweep, Fault, TypeOK
  <2>3. at' \in [Sweepers -> SweepPhases]
    BY <1>22, <1>t, SweepPhasesAre, ScanOrder DEF SweepFails, EndSweep, Fault, TypeOK
  <2>4. candidate' \in [Sweepers -> Hashes \cup {NoContent}]
    BY <1>22, <1>t DEF SweepFails, EndSweep, Fault, TypeOK
  <2>5. faults' \in 0..MaxFaults
    BY <1>22, <1>t DEF SweepFails, EndSweep, Fault, TypeOK
  <2>6. TypeOK'
    BY <2>1, <2>2, <2>3, <2>4, <2>5, <1>t DEF TypeOK
  <2>7. QED
    BY <2>1, <2>6, <1>22, <1>t DEF SweepFails, EndSweep, Fault, Uploading, Typed, TypeOK
<1>23. ASSUME NEW d \in Sweepers, NEW h \in Hashes, DiscoverCandidate(d, h) PROVE Typed'
  <2>1. UNCHANGED <<blob, lease, ops, old, tree, record, deleted, snapshots, content,
                    hashed, pc, index, at, candidate, exposed, faults, edits>>
    BY <1>23 DEF DiscoverCandidate, bucketVars, uploadVars, sweepVars, boundVars
  <2>2. row' \in [Sweepers -> [Hashes -> {"none", "waiting", "due"}]]
    BY <1>23, <1>t DEF DiscoverCandidate, TypeOK
  <2>3. TypeOK'
    BY <2>1, <2>2, <1>t DEF TypeOK
  <2>4. QED
    BY <2>1, <2>3 DEF Typed, Uploading
<1>24. ASSUME NEW d \in Sweepers, NEW h \in Hashes, BeginSweep(d, h) PROVE Typed'
  <2>1. UNCHANGED <<blob, lease, ops, old, tree, record, deleted, snapshots, content,
                    hashed, pc, index, row, exposed, faults, edits>>
    BY <1>24 DEF BeginSweep, bucketVars, uploadVars, sweepVars, boundVars
  <2>2. at' \in [Sweepers -> SweepPhases]
    BY <1>24, <1>t, SweepPhasesAre, ScanOrder DEF BeginSweep, Places, TypeOK
  <2>3. candidate' \in [Sweepers -> Hashes \cup {NoContent}]
    BY <1>24, <1>t DEF BeginSweep, Places, TypeOK
  <2>4. TypeOK'
    BY <2>1, <2>2, <2>3, <1>t DEF TypeOK
  <2>5. QED
    BY <2>1, <2>4, <1>24, <1>t DEF BeginSweep, Places, Uploading, Typed, TypeOK
<1>25. ASSUME NEW d \in Sweepers, NEW h \in Hashes, QuarantineEnds(d, h) PROVE Typed'
  <2>1. UNCHANGED <<blob, ops, old, tree, record, deleted, snapshots, content, hashed,
                    pc, index, at, candidate, exposed, faults, edits>>
    BY <1>25 DEF QuarantineEnds, bucketVars, uploadVars, sweepVars, boundVars
  <2>2. row' \in [Sweepers -> [Hashes -> {"none", "waiting", "due"}]]
    BY <1>25, <1>t DEF QuarantineEnds, TypeOK
  <2>3. lease' \subseteq Hashes \X Devices
    BY <1>25, <1>t DEF QuarantineEnds, TypeOK
  <2>4. TypeOK'
    BY <2>1, <2>2, <2>3, <1>t DEF TypeOK
  <2>5. QED
    BY <2>1, <2>4 DEF Typed, Uploading
<1>26. ASSUME NEW d \in Sweepers, NEW h \in Hashes, IndexForgets(d, h) PROVE Typed'
  <2>1. UNCHANGED <<blob, ops, old, tree, record, deleted, snapshots, content, hashed,
                    pc, row, at, candidate, exposed, faults, edits>>
    BY <1>26 DEF IndexForgets, bucketVars, uploadVars, sweepVars, boundVars
  <2>2. index' \in [Sweepers -> SUBSET Hashes]
    BY <1>26, <1>t DEF IndexForgets, TypeOK
  <2>3. lease' \subseteq Hashes \X Devices
    BY <1>26, <1>t DEF IndexForgets, TypeOK
  <2>4. TypeOK'
    BY <2>1, <2>2, <2>3, <1>t DEF TypeOK
  <2>5. QED
    BY <2>1, <2>4 DEF Typed, Uploading
<1>27. ASSUME NEW h \in Hashes, NEW e \in Devices, LeaseExpires(h, e) PROVE Typed'
  <2>1. UNCHANGED <<blob, ops, old, tree, record, deleted, snapshots, content,
                    hashed, pc, index, row, at, candidate, edits>>
    BY <1>27 DEF LeaseExpires, bucketVars, uploadVars, sweepVars, boundVars
  <2>2. lease' \subseteq Hashes \X Devices
    BY <1>27, <1>t DEF LeaseExpires, Fault, TypeOK
  <2>3. faults' \in 0..MaxFaults
    BY <1>27, <1>t DEF LeaseExpires, Fault, TypeOK
  <2>4. exposed' \subseteq Hashes
    BY <1>27, <1>t DEF LeaseExpires, Fault, TypeOK
  <2>5. TypeOK'
    BY <2>1, <2>2, <2>3, <2>4, <1>t DEF TypeOK
  <2>6. QED
    BY <2>1, <2>5 DEF Typed, Uploading
<1>28. CASE UNCHANGED vars
  BY <1>28, <1>t
     DEF vars, bucketVars, uploadVars, sweepVars, boundVars, TypeOK, Typed,
     Uploading
<1>29. QED
  BY <1>1, <1>2, <1>3, <1>4, <1>5, <1>6, <1>7, <1>8, <1>9, <1>10, <1>11, <1>12,
     <1>13, <1>14, <1>15, <1>16, <1>17, <1>18, <1>19, <1>20, <1>21, <1>22, <1>23,
     <1>24, <1>25, <1>26, <1>27, <1>28
     DEF Next, UploadStep, SweepStep

-----------------------------------------------------------------------------
(* Steps that do not move a sweep.                                         *)

\* What a step may do to h: references move towards the places read last,
\* new ones have their bytes and appear before any scan reads the leases.
MovesOn(h) ==
  /\ Promised(h)' =>
       \/ Promised(h)
       \/ /\ blob'[h] = "good" /\ ~PastLeaseCheck(h)
          /\ \A k \in Jobs : ~(pc'[k] = "rehash" /\ hashed'[k] = h)
  /\ InTree(h)' => InTree(h) \/ Promised(h) \/ (InRecords(h) /\ ~PastLeaseCheck(h))
  /\ InRecords(h)' => InRecords(h) \/ InTree(h)
  /\ InOps(h)' => InOps(h) \/ Promised(h)
  /\ InSnaps(h)' => InSnaps(h) \/ InTree(h)
  /\ Needed(h) => blob'[h] = blob[h]
  /\ \A k \in Jobs : pc'[k] = "rehash" /\ hashed'[k] = h =>
       (pc[k] = "rehash" /\ hashed[k] = h) \/ blob[h] = "none"

(* A step of an upload that puts no new lease moves references on, if at   *)
(* all, to a place its lease speaks for.                                   *)
LEMMA OwnMove ==
  ASSUME NEW j \in Jobs, NEW h \in Hashes,
         \A k \in Jobs \ {j} : pc'[k] = pc[k] /\ hashed'[k] = hashed[k],
         pc'[j] \in {"commit", "tree", "release"} =>
           pc[j] \in {"commit", "tree", "release"} /\ hashed'[j] = hashed[j],
         pc'[j] = "rehash" /\ hashed'[j] = h =>
           (pc[j] = "rehash" /\ hashed[j] = h) \/ blob[h] = "none",
         InTree(h)' => InTree(h) \/ Promised(h),
         InRecords(h)' => InRecords(h),
         InOps(h)' => InOps(h) \/ Promised(h),
         InSnaps(h)' => InSnaps(h) \/ InTree(h),
         Needed(h) => blob'[h] = blob[h]
  PROVE  MovesOn(h)
<1>1. Promised(h)' => Promised(h)
  BY DEF Promised
<1>2. ASSUME NEW k \in Jobs, pc'[k] = "rehash", hashed'[k] = h
      PROVE  (pc[k] = "rehash" /\ hashed[k] = h) \/ blob[h] = "none"
  <2>1. CASE k = j
    BY <1>2, <2>1
  <2>2. CASE k # j
    BY <1>2, <2>2
  <2>3. QED
    BY <2>1, <2>2
<1>3. QED
  BY <1>1, <1>2 DEF MovesOn

(* A step that only moves references on keeps what is needed: no scan has  *)
(* read their new place yet, and they have their bytes.                    *)
LEMMA MovesOnKeeps ==
  ASSUME KeptInv, Typed', UNCHANGED <<at, candidate>>, exposed \subseteq exposed',
         \A h \in Hashes \ exposed' : MovesOn(h)
  PROVE  BytesThere' /\ NoneNeedsUnchecked' /\ \A d \in Sweepers : ScanClean(d)'
<1>1. BytesThere'
  <2> SUFFICES ASSUME NEW h \in Hashes \ exposed', Needed(h)' PROVE blob'[h] = "good"
    BY DEF BytesThere
  <2>1. MovesOn(h) /\ h \in Hashes \ exposed
    OBVIOUS
  <2>2. Needed(h) => blob[h] = "good"
    BY <2>1 DEF KeptInv, BytesThere
  <2>3. QED
    BY <2>1, <2>2 DEF MovesOn, Needed
<1>2. NoneNeedsUnchecked'
  <2> SUFFICES ASSUME NEW j \in Jobs, NEW h \in Hashes \ exposed',
                      pc'[j] = "rehash", hashed'[j] = h
               PROVE  ~Needed(h)'
    BY DEF NoneNeedsUnchecked, Typed, Uploading, Needed, Promised, InTree, InRecords,
       InOps, InSnaps
  <2>2. MovesOn(h) /\ h \in Hashes \ exposed
    OBVIOUS
  <2>3. ~Needed(h)
    <3>1. CASE pc[j] = "rehash" /\ hashed[j] = h
      BY <3>1, <2>2 DEF KeptInv, NoneNeedsUnchecked
    <3>2. CASE blob[h] = "none"
      BY <3>2, <2>2 DEF KeptInv, BytesThere
    <3>3. QED
      BY <3>1, <3>2, <2>2 DEF MovesOn
  <2>4. /\ ~Promised(h)' /\ ~InTree(h)' /\ ~InRecords(h)' /\ ~InOps(h)'
        /\ ~InSnaps(h)'
    BY <2>2, <2>3 DEF MovesOn, Needed
  <2>5. QED
    BY <2>4 DEF Needed
<1>3. ASSUME NEW d \in Sweepers PROVE ScanClean(d)'
  <2> DEFINE h == candidate[d]
  <2>1. CASE h \in exposed' \/ at[d] \notin PastLease
    BY <2>1 DEF ScanClean, PastLease, PastTree, PastRecords, PastOps, PastSnaps
  <2>2. CASE h \notin exposed' /\ at[d] \in PastLease
    <3>1. h \in Hashes /\ PastLeaseCheck(h) /\ h \notin exposed
      BY <2>2 DEF KeptInv, Typed, PastLease, PastLeaseCheck
    <3>2. MovesOn(h) /\ ScanClean(d)
      BY <3>1, <2>2 DEF KeptInv
    <3>3. /\ ~Promised(h) /\ ~Promised(h)'
          /\ at[d] \in PastTree    => ~InTree(h)
          /\ at[d] \in PastRecords => ~InRecords(h)
          /\ at[d] \in PastOps     => ~InOps(h)
          /\ at[d] \in PastSnaps   => ~InSnaps(h)
      BY <3>1, <3>2, <2>2 DEF ScanClean, MovesOn
    <3>4. /\ at[d] \in PastTree    => ~InTree(h)'
          /\ at[d] \in PastRecords => ~InRecords(h)'
          /\ at[d] \in PastOps     => ~InOps(h)'
          /\ at[d] \in PastSnaps   => ~InSnaps(h)'
      BY <3>1, <3>2, <3>3 DEF MovesOn, PastTree, PastRecords, PastOps, PastSnaps
    <3>5. QED
      BY <3>3, <3>4 DEF ScanClean
  <2>3. QED
    BY <2>1, <2>2
<1>4. QED
  BY <1>1, <1>2, <1>3

(* An upload touches no lease but its own, and puts or keeps it while it   *)
(* needs it.                                                               *)
LEMMA UploadKeeps ==
  ASSUME KeptInv, NEW j \in Jobs, exposed \subseteq exposed',
         \A k \in Jobs \ {j} : pc'[k] = pc[k] /\ hashed'[k] = hashed[k],
         Uploading(j)' => \/ Uploading(j)
                          \/ \A k \in Jobs : Device(k) = Device(j) => ~Uploading(k),
         lease \ {<<hashed[j], Device(j)>>} \subseteq lease',
         Uploading(j) \/ lease \subseteq lease',
         pc'[j] \in {"commit", "tree", "release"} =>
           /\ hashed'[j] = hashed[j]
           /\ <<hashed[j], Device(j)>> \in lease' \/
              (pc[j] \in {"commit", "tree", "release"} /\ lease \subseteq lease')
  PROVE  OneUpload' /\ LeaseHeld'
<1>1. OneUpload /\ LeaseHeld
  BY DEF KeptInv
<1>2. OneUpload'
  BY <1>1 DEF OneUpload, Uploading
<1>3. ASSUME NEW k \in Jobs, pc'[k] \in {"commit", "tree", "release"}
      PROVE  <<hashed'[k], Device(k)>> \in lease' \/ hashed'[k] \in exposed'
  <2>1. CASE k = j
    BY <2>1, <1>1, <1>3 DEF LeaseHeld
  <2>2. CASE k # j
    <3>1. /\ pc[k] \in {"commit", "tree", "release"} /\ hashed'[k] = hashed[k]
          /\ Uploading(k)
      BY <2>2, <1>3 DEF Uploading
    <3>2. <<hashed[k], Device(k)>> \in lease \/ hashed[k] \in exposed
      BY <3>1, <1>1 DEF LeaseHeld
    <3>3. Uploading(j) => Device(k) # Device(j)
      BY <3>1, <2>2, <1>1 DEF OneUpload
    <3>4. QED
      BY <3>1, <3>2, <3>3
  <2>3. QED
    BY <2>1, <2>2
<1>4. QED
  BY <1>2, <1>3 DEF LeaseHeld

-----------------------------------------------------------------------------
(* The steps.                                                              *)

(* Every step of an upload, and every save of its file, keeps the          *)
(* invariant.                                                              *)
LEMMA UploadKeepsInv ==
  ASSUME KeptInv, Typed', NEW j \in Jobs, UploadStep(j) \/ UploadFails(j) \/ Edit(j)
  PROVE  KeptInv'
<1>t. Typed /\ TypeOK
  BY DEF KeptInv, Typed
<1>i. /\ OneUpload /\ LeaseHeld /\ BytesThere /\ NoneNeedsUnchecked
      /\ \A d \in Sweepers : ScanClean(d)
  BY DEF KeptInv
<1>j. Uploading(j) => hashed[j] \in Hashes
  BY <1>t DEF Typed
<1>1. CASE BeginUpload(j)
  <2>1. /\ \A k \in Jobs \ {j} : pc'[k] = pc[k] /\ hashed'[k] = hashed[k]
        /\ pc[j] = "queued" /\ pc'[j] = "head"
        /\ \A k \in Jobs : Device(k) = Device(j) => ~Uploading(k)
        /\ UNCHANGED <<blob, lease, exposed, ops, tree, record, snapshots, at, candidate>>
    BY <1>1, <1>t
       DEF BeginUpload, GoTo, bucketVars, uploadVars, sweepVars, boundVars, TypeOK
  <2>2. ASSUME NEW h \in Hashes \ exposed' PROVE MovesOn(h)
    <3>1. /\ InTree(h)' => InTree(h) \/ Promised(h)
          /\ InRecords(h)' => InRecords(h)
          /\ InOps(h)' => InOps(h) \/ Promised(h)
          /\ InSnaps(h)' => InSnaps(h) \/ InTree(h)
      BY <2>1 DEF InTree, InRecords, InOps, InSnaps, Promised
    <3>2. QED
      BY <2>1, <3>1, OwnMove
  <2>3. OneUpload' /\ LeaseHeld'
    BY <2>1, UploadKeeps DEF Uploading
  <2>4. QED
    BY <2>1, <2>2, <2>3, MovesOnKeeps DEF KeptInv
<1>2. CASE HeadBlob(j)
  <2>1. /\ \A k \in Jobs \ {j} : pc'[k] = pc[k] /\ hashed'[k] = hashed[k]
        /\ pc[j] = "head" /\ pc'[j] \in {"put", "lease"}
        /\ hashed'[j] = hashed[j]
        /\ UNCHANGED <<blob, lease, exposed, ops, tree, record, snapshots, at, candidate>>
    BY <1>2, <1>t
       DEF HeadBlob, GoTo, bucketVars, uploadVars, sweepVars, boundVars, TypeOK
  <2>2. ASSUME NEW h \in Hashes \ exposed' PROVE MovesOn(h)
    <3>1. /\ InTree(h)' => InTree(h) \/ Promised(h)
          /\ InRecords(h)' => InRecords(h)
          /\ InOps(h)' => InOps(h) \/ Promised(h)
          /\ InSnaps(h)' => InSnaps(h) \/ InTree(h)
      BY <2>1 DEF InTree, InRecords, InOps, InSnaps, Promised
    <3>2. QED
      BY <2>1, <3>1, OwnMove
  <2>3. OneUpload' /\ LeaseHeld'
    BY <2>1, UploadKeeps DEF Uploading
  <2>4. QED
    BY <2>1, <2>2, <2>3, MovesOnKeeps DEF KeptInv
<1>3. CASE PutBlob(j)
  <2>1. /\ \A k \in Jobs \ {j} : pc'[k] = pc[k] /\ hashed'[k] = hashed[k]
        /\ pc[j] = "put" /\ pc'[j] \in {"rehash", "lease"}
        /\ hashed'[j] = hashed[j]
        /\ \A h \in Hashes : blob'[h] = blob[h] \/ (blob[h] = "none" /\ h = hashed[j])
        /\ pc'[j] = "rehash" => blob[hashed[j]] = "none"
        /\ UNCHANGED <<lease, exposed, ops, tree, record, snapshots, at, candidate>>
    BY <1>3, <1>t
       DEF PutBlob, GoTo, bucketVars, uploadVars, sweepVars, boundVars, TypeOK
  <2>b. \A h \in Hashes \ exposed : Needed(h) => blob'[h] = blob[h]
    BY <2>1, <1>i DEF BytesThere
  <2>2. ASSUME NEW h \in Hashes \ exposed' PROVE MovesOn(h)
    <3>1. /\ InTree(h)' => InTree(h) \/ Promised(h)
          /\ InRecords(h)' => InRecords(h)
          /\ InOps(h)' => InOps(h) \/ Promised(h)
          /\ InSnaps(h)' => InSnaps(h) \/ InTree(h)
      BY <2>1 DEF InTree, InRecords, InOps, InSnaps, Promised
    <3>2. QED
      BY <2>1, <2>b, <3>1, OwnMove
  <2>3. OneUpload' /\ LeaseHeld'
    BY <2>1, UploadKeeps DEF Uploading
  <2>4. QED
    BY <2>1, <2>2, <2>3, MovesOnKeeps DEF KeptInv
<1>4. CASE RehashSame(j)
  <2>1. /\ \A k \in Jobs \ {j} : pc'[k] = pc[k] /\ hashed'[k] = hashed[k]
        /\ pc[j] = "rehash" /\ pc'[j] = "lease"
        /\ hashed'[j] = hashed[j]
        /\ UNCHANGED <<blob, lease, exposed, ops, tree, record, snapshots, at, candidate>>
    BY <1>4, <1>t
       DEF RehashSame, GoTo, bucketVars, uploadVars, sweepVars, boundVars, TypeOK
  <2>2. ASSUME NEW h \in Hashes \ exposed' PROVE MovesOn(h)
    <3>1. /\ InTree(h)' => InTree(h) \/ Promised(h)
          /\ InRecords(h)' => InRecords(h)
          /\ InOps(h)' => InOps(h) \/ Promised(h)
          /\ InSnaps(h)' => InSnaps(h) \/ InTree(h)
      BY <2>1 DEF InTree, InRecords, InOps, InSnaps, Promised
    <3>2. QED
      BY <2>1, <3>1, OwnMove
  <2>3. OneUpload' /\ LeaseHeld'
    BY <2>1, UploadKeeps DEF Uploading
  <2>4. QED
    BY <2>1, <2>2, <2>3, MovesOnKeeps DEF KeptInv
<1>5. CASE RehashChanged(j)
  <2>1. /\ \A k \in Jobs \ {j} : pc'[k] = pc[k] /\ hashed'[k] = hashed[k]
        /\ pc[j] = "rehash" /\ pc'[j] = "queued"
        /\ \A h \in Hashes : blob'[h] = blob[h] \/ h = hashed[j]
        /\ UNCHANGED <<lease, exposed, ops, tree, record, snapshots, at, candidate>>
    BY <1>5, <1>t
       DEF RehashChanged, GoTo, End, bucketVars, uploadVars, sweepVars,
       boundVars, TypeOK
  <2>b. \A h \in Hashes \ exposed : Needed(h) => blob'[h] = blob[h]
    BY <2>1, <1>i DEF NoneNeedsUnchecked
  <2>2. ASSUME NEW h \in Hashes \ exposed' PROVE MovesOn(h)
    <3>1. /\ InTree(h)' => InTree(h) \/ Promised(h)
          /\ InRecords(h)' => InRecords(h)
          /\ InOps(h)' => InOps(h) \/ Promised(h)
          /\ InSnaps(h)' => InSnaps(h) \/ InTree(h)
      BY <2>1 DEF InTree, InRecords, InOps, InSnaps, Promised
    <3>2. QED
      BY <2>1, <2>b, <3>1, OwnMove
  <2>3. OneUpload' /\ LeaseHeld'
    BY <2>1, UploadKeeps DEF Uploading
  <2>4. QED
    BY <2>1, <2>2, <2>3, MovesOnKeeps DEF KeptInv
<1>6. CASE PutLease(j)
  <2>1. /\ \A k \in Jobs \ {j} : pc'[k] = pc[k] /\ hashed'[k] = hashed[k]
        /\ pc[j] = "lease" /\ pc'[j] = "commit"
        /\ hashed'[j] = hashed[j]
        /\ lease' = lease \cup {<<hashed[j], Device(j)>>}
        /\ exposed \subseteq exposed'
        /\ hashed[j] \notin exposed' =>
             /\ blob[hashed[j]] = "good" /\ ~PastLeaseCheck(hashed[j])
             /\ \A k \in Jobs \ {j} : ~(pc[k] = "rehash" /\ hashed[k] = hashed[j])
        /\ UNCHANGED <<blob, ops, tree, record, snapshots, at, candidate>>
    BY <1>6, <1>t
       DEF PutLease, GoTo, bucketVars, uploadVars, sweepVars, boundVars, TypeOK
  <2>2. ASSUME NEW h \in Hashes \ exposed' PROVE MovesOn(h)
    <3>1. Promised(h)' => Promised(h) \/ h = hashed[j]
      BY <2>1 DEF Promised
    <3>2. h = hashed[j] => \A k \in Jobs : ~(pc'[k] = "rehash" /\ hashed'[k] = h)
      BY <2>1
    <3>3. \A k \in Jobs : pc'[k] = "rehash" => pc[k] = "rehash" /\ hashed'[k] = hashed[k]
      BY <2>1
    <3>4. (InTree(h)' <=> InTree(h)) /\ (InRecords(h)' <=> InRecords(h))
          /\ (InOps(h)' <=> InOps(h)) /\ (InSnaps(h)' <=> InSnaps(h))
      BY <2>1 DEF InTree, InRecords, InOps, InSnaps
    <3>5. QED
      BY <2>1, <3>1, <3>2, <3>3, <3>4 DEF MovesOn
  <2>3. OneUpload' /\ LeaseHeld'
    BY <2>1, UploadKeeps DEF Uploading
  <2>4. QED
    BY <2>1, <2>2, <2>3, MovesOnKeeps DEF KeptInv
<1>7. CASE CommitUpload(j)
  <2>1. /\ \A k \in Jobs \ {j} : pc'[k] = pc[k] /\ hashed'[k] = hashed[k]
        /\ pc[j] = "commit" /\ pc'[j] \in {"tree", "idle"}
        /\ pc'[j] = "tree" => hashed'[j] = hashed[j] /\ lease' = lease
        /\ lease \ {<<hashed[j], Device(j)>>} \subseteq lease'
        /\ \A o \in ops' : o \in ops \/ o[2] = hashed[j]
        /\ UNCHANGED <<blob, exposed, tree, record, snapshots, at, candidate>>
    BY <1>7, <1>t
       DEF CommitUpload, GoTo, End, bucketVars, uploadVars, sweepVars, boundVars,
       TypeOK
  <2>2. ASSUME NEW h \in Hashes \ exposed' PROVE MovesOn(h)
    <3>1. /\ InTree(h)' => InTree(h) \/ Promised(h)
          /\ InRecords(h)' => InRecords(h)
          /\ InOps(h)' => InOps(h) \/ Promised(h)
          /\ InSnaps(h)' => InSnaps(h) \/ InTree(h)
      BY <2>1 DEF InTree, InRecords, InOps, InSnaps, Promised
    <3>2. QED
      BY <2>1, <3>1, OwnMove
  <2>3. OneUpload' /\ LeaseHeld'
    BY <2>1, UploadKeeps DEF Uploading
  <2>4. QED
    BY <2>1, <2>2, <2>3, MovesOnKeeps DEF KeptInv
<1>8. CASE UpsertEntry(j)
  <2>1. /\ \A k \in Jobs \ {j} : pc'[k] = pc[k] /\ hashed'[k] = hashed[k]
        /\ pc[j] = "tree" /\ pc'[j] = "release"
        /\ hashed'[j] = hashed[j]
        /\ \A f \in Files : tree'[f] = tree[f] \/ tree'[f] = hashed[j]
        /\ UNCHANGED <<blob, lease, exposed, ops, record, snapshots, at, candidate>>
    BY <1>8, <1>t
       DEF UpsertEntry, GoTo, bucketVars, uploadVars, sweepVars, boundVars, TypeOK
  <2>2. ASSUME NEW h \in Hashes \ exposed' PROVE MovesOn(h)
    <3>1. /\ InTree(h)' => InTree(h) \/ Promised(h)
          /\ InRecords(h)' => InRecords(h)
          /\ InOps(h)' => InOps(h) \/ Promised(h)
          /\ InSnaps(h)' => InSnaps(h) \/ InTree(h)
      BY <2>1 DEF InTree, InRecords, InOps, InSnaps, Promised
    <3>2. QED
      BY <2>1, <3>1, OwnMove
  <2>3. OneUpload' /\ LeaseHeld'
    BY <2>1, UploadKeeps DEF Uploading
  <2>4. QED
    BY <2>1, <2>2, <2>3, MovesOnKeeps DEF KeptInv
<1>9. CASE ReleaseLease(j)
  <2>1. /\ \A k \in Jobs \ {j} : pc'[k] = pc[k] /\ hashed'[k] = hashed[k]
        /\ pc[j] = "release" /\ pc'[j] = "idle"
        /\ lease \ {<<hashed[j], Device(j)>>} \subseteq lease'
        /\ UNCHANGED <<blob, exposed, ops, tree, record, snapshots, at, candidate>>
    BY <1>9, <1>t
       DEF ReleaseLease, GoTo, End, bucketVars, uploadVars, sweepVars, boundVars,
       TypeOK
  <2>2. ASSUME NEW h \in Hashes \ exposed' PROVE MovesOn(h)
    <3>1. /\ InTree(h)' => InTree(h) \/ Promised(h)
          /\ InRecords(h)' => InRecords(h)
          /\ InOps(h)' => InOps(h) \/ Promised(h)
          /\ InSnaps(h)' => InSnaps(h) \/ InTree(h)
      BY <2>1 DEF InTree, InRecords, InOps, InSnaps, Promised
    <3>2. QED
      BY <2>1, <3>1, OwnMove
  <2>3. OneUpload' /\ LeaseHeld'
    BY <2>1, UploadKeeps DEF Uploading
  <2>4. QED
    BY <2>1, <2>2, <2>3, MovesOnKeeps DEF KeptInv
<1>10. CASE UploadFails(j)
  <2>1. /\ \A k \in Jobs \ {j} : pc'[k] = pc[k] /\ hashed'[k] = hashed[k]
        /\ Uploading(j) /\ pc'[j] = "queued"
        /\ lease \ {<<hashed[j], Device(j)>>} \subseteq lease'
        /\ \A h \in Hashes : blob'[h] = blob[h] \/ blob[h] = "none"
        /\ \A o \in ops' : o \in ops \/ (o[2] = hashed[j] /\ pc[j] = "commit")
        /\ UNCHANGED <<exposed, tree, record, snapshots, at, candidate>>
    BY <1>10, <1>t
       DEF UploadFails, GoTo, End, bucketVars, uploadVars, sweepVars, boundVars,
       TypeOK
  <2>b. \A h \in Hashes \ exposed : Needed(h) => blob'[h] = blob[h]
    BY <2>1, <1>i DEF BytesThere
  <2>2. ASSUME NEW h \in Hashes \ exposed' PROVE MovesOn(h)
    <3>1. /\ InTree(h)' => InTree(h) \/ Promised(h)
          /\ InRecords(h)' => InRecords(h)
          /\ InOps(h)' => InOps(h) \/ Promised(h)
          /\ InSnaps(h)' => InSnaps(h) \/ InTree(h)
      BY <2>1 DEF InTree, InRecords, InOps, InSnaps, Promised
    <3>2. QED
      BY <2>1, <2>b, <3>1, OwnMove
  <2>3. OneUpload' /\ LeaseHeld'
    BY <2>1, UploadKeeps DEF Uploading
  <2>4. QED
    BY <2>1, <2>2, <2>3, MovesOnKeeps DEF KeptInv
<1>11. CASE Edit(j)
  <2>1. /\ \A k \in Jobs \ {j} : pc'[k] = pc[k] /\ hashed'[k] = hashed[k]
        /\ pc'[j] = pc[j] \/ (pc[j] = "idle" /\ pc'[j] = "queued")
        /\ hashed'[j] = hashed[j]
        /\ UNCHANGED <<blob, lease, exposed, ops, tree, record, snapshots, at, candidate>>
    BY <1>11, <1>t DEF Edit, bucketVars, uploadVars, sweepVars, boundVars, TypeOK
  <2>2. ASSUME NEW h \in Hashes \ exposed' PROVE MovesOn(h)
    <3>1. /\ InTree(h)' => InTree(h) \/ Promised(h)
          /\ InRecords(h)' => InRecords(h)
          /\ InOps(h)' => InOps(h) \/ Promised(h)
          /\ InSnaps(h)' => InSnaps(h) \/ InTree(h)
      BY <2>1 DEF InTree, InRecords, InOps, InSnaps, Promised
    <3>2. QED
      BY <2>1, <3>1, OwnMove
  <2>3. OneUpload' /\ LeaseHeld'
    BY <2>1, UploadKeeps DEF Uploading
  <2>4. QED
    BY <2>1, <2>2, <2>3, MovesOnKeeps DEF KeptInv
<1>12. QED
  BY <1>1, <1>2, <1>3, <1>4, <1>5, <1>6, <1>7, <1>8, <1>9, <1>10, <1>11 DEF UploadStep

(* A step that leaves the uploads and blobs alone keeps the invariant when *)
(* it moves references on.                                                 *)
LEMMA ReferenceKeepsInv ==
  ASSUME KeptInv, Typed', UNCHANGED <<pc, hashed, blob, at, candidate>>,
         exposed \subseteq exposed',
         lease \subseteq lease' \/ \A j \in Jobs : ~Uploading(j),
         \A h \in Hashes \ exposed' :
           /\ InTree(h)' => InTree(h) \/ (InRecords(h) /\ ~PastLeaseCheck(h))
           /\ InRecords(h)' => InRecords(h) \/ InTree(h)
           /\ InOps(h)' => InOps(h)
           /\ InSnaps(h)' => InSnaps(h) \/ InTree(h)
  PROVE  KeptInv'
<1>1. \A h \in Hashes \ exposed' : MovesOn(h)
  BY DEF MovesOn, Promised
<1>2. OneUpload'
  BY DEF KeptInv, OneUpload, Uploading
<1>3. LeaseHeld'
  <2>1. LeaseHeld
    BY DEF KeptInv
  <2>2. QED
    BY <2>1 DEF LeaseHeld, Uploading
<1>4. QED
  BY <1>1, <1>2, <1>3, MovesOnKeeps DEF KeptInv

(* Deletions, restores, snapshots, the compaction of the log and the       *)
(* passing of time keep the invariant.                                     *)
LEMMA OthersKeepInv ==
  ASSUME KeptInv, Typed',
         \/ \E f \in Files : \/ WriteRecord(f) \/ DeleteEntry(f) \/ RestoreEntry(f)
                             \/ RetireRecord(f) \/ RecordExpires(f)
         \/ TakeSnapshot
         \/ \E o \in ops : PruneOp(o) \/ OpRetentionEnds(o)
         \/ \E d \in Sweepers, h \in Hashes :
              DiscoverCandidate(d, h) \/ QuarantineEnds(d, h) \/ IndexForgets(d, h)
         \/ \E d \in Devices, h \in Hashes : LeaseExpires(h, d)
         \/ UNCHANGED vars
  PROVE  KeptInv'
<1>t. TypeOK
  BY DEF KeptInv, Typed
<1> DEFINE Same == UNCHANGED <<pc, hashed, blob, at, candidate>>
<1>1. ASSUME NEW f \in Files, WriteRecord(f) PROVE KeptInv'
  <2>1. Same /\ UNCHANGED <<exposed, lease, ops, tree, snapshots>>
    BY <1>1 DEF WriteRecord, uploadVars, sweepVars
  <2>2. \A h \in Hashes : InRecords(h)' => InRecords(h) \/ InTree(h)
    BY <1>1, <1>t DEF WriteRecord, InRecords, InTree, TypeOK
  <2>3. QED
    BY <2>1, <2>2, ReferenceKeepsInv DEF InTree, InOps, InSnaps
<1>2. ASSUME NEW f \in Files, DeleteEntry(f) PROVE KeptInv'
  <2>1. Same /\ UNCHANGED <<exposed, lease, ops, record, snapshots>>
    BY <1>2 DEF DeleteEntry, uploadVars, sweepVars
  <2>2. \A h \in Hashes : InTree(h)' => InTree(h)
    <3>1. \A g \in Files : tree'[g] = tree[g] \/ tree'[g] = NoContent
      BY <1>2, <1>t DEF DeleteEntry, TypeOK
    <3>2. QED
      BY <3>1, ContentAssumption DEF InTree
  <2>3. QED
    BY <2>1, <2>2, ReferenceKeepsInv DEF InRecords, InOps, InSnaps
<1>3. ASSUME NEW f \in Files, RestoreEntry(f) PROVE KeptInv'
  <2>1. Same /\ UNCHANGED <<lease, ops, record, snapshots>>
    BY <1>3 DEF RestoreEntry, uploadVars, sweepVars
  <2>2. PICK g \in record[f] :
          /\ tree' = [tree EXCEPT ![f] = IF @ = NoContent THEN g ELSE @]
          /\ exposed' = exposed \cup {h2 \in {g} : PastLeaseCheck(h2)}
    BY <1>3 DEF RestoreEntry
  <2>3. exposed \subseteq exposed' /\ (PastLeaseCheck(g) => g \in exposed')
    BY <2>2
  <2>4. \A e \in Files : tree'[e] \in {tree[e], g}
    BY <2>2, <1>t DEF TypeOK
  <2>5. InRecords(g)
    BY DEF InRecords
  <2>6. \A h \in Hashes \ exposed' :
          InTree(h)' => InTree(h) \/ (InRecords(h) /\ ~PastLeaseCheck(h))
    BY <2>3, <2>4, <2>5 DEF InTree
  <2>7. QED
    BY <2>1, <2>3, <2>6, ReferenceKeepsInv DEF InRecords, InOps, InSnaps
<1>4. ASSUME NEW f \in Files, RetireRecord(f) \/ RecordExpires(f) PROVE KeptInv'
  <2>1. Same /\ UNCHANGED <<exposed, ops, tree, snapshots>>
    BY <1>4 DEF RetireRecord, RecordExpires, uploadVars, sweepVars
  <2>2. lease \subseteq lease' \/ \A j \in Jobs : ~Uploading(j)
    BY <1>4 DEF RetireRecord, RecordExpires, Quiet
  <2>3. \A h \in Hashes : InRecords(h)' => InRecords(h)
    BY <1>4, <1>t DEF RetireRecord, RecordExpires, InRecords, TypeOK
  <2>4. QED
    BY <2>1, <2>2, <2>3, ReferenceKeepsInv DEF InTree, InOps, InSnaps
<1>5. CASE TakeSnapshot
  <2>1. Same /\ UNCHANGED <<exposed, lease, ops, tree, record>>
    BY <1>5 DEF TakeSnapshot, uploadVars, sweepVars
  <2>2. \A h \in Hashes : InSnaps(h)' => InSnaps(h) \/ InTree(h)
    <3> DEFINE all == Append(snapshots, TreeContents)
    <3>1. /\ TreeContents \subseteq Hashes /\ snapshots \in Seq(SUBSET Hashes)
          /\ snapshots' = all \/ snapshots' = Tail(all)
      BY <1>5, <1>t DEF TakeSnapshot, TreeContents, TypeOK
    <3>2. \A i \in DOMAIN all :
             all[i] = TreeContents \/ \E k \in DOMAIN snapshots : all[i] = snapshots[k]
      BY <3>1
    <3>3. \A i \in DOMAIN snapshots' : \E k \in DOMAIN all : snapshots'[i] = all[k]
      <4>1. all \in Seq(SUBSET Hashes) /\ Len(all) = Len(snapshots) + 1 /\ Len(snapshots) \in Nat
        BY <3>1
      <4> HIDE DEF all
      <4>2. QED
        BY <3>1, <4>1
    <3>4. \A h \in Hashes : h \in TreeContents => InTree(h)
      BY DEF TreeContents, InTree
    <3>5. QED
      BY <3>2, <3>3, <3>4 DEF InSnaps
  <2>3. QED
    BY <2>1, <2>2, ReferenceKeepsInv DEF InTree, InRecords, InOps, InSnaps
<1>6. ASSUME NEW o \in ops, PruneOp(o) \/ OpRetentionEnds(o) PROVE KeptInv'
  <2>1. Same /\ ops' \subseteq ops /\ UNCHANGED <<exposed, tree, record, snapshots>>
    BY <1>6 DEF PruneOp, OpRetentionEnds, uploadVars, sweepVars
  <2>2. lease \subseteq lease' \/ \A j \in Jobs : ~Uploading(j)
    BY <1>6 DEF PruneOp, OpRetentionEnds, Quiet
  <2>3. QED
    BY <2>1, <2>2, ReferenceKeepsInv DEF InTree, InRecords, InOps, InSnaps
<1>7. ASSUME NEW d \in Sweepers, NEW h \in Hashes,
             DiscoverCandidate(d, h) \/ QuarantineEnds(d, h) \/ IndexForgets(d, h)
      PROVE  KeptInv'
  <2>1. Same /\ UNCHANGED <<exposed, ops, tree, record, snapshots>>
    BY <1>7 DEF DiscoverCandidate, QuarantineEnds, IndexForgets, bucketVars, uploadVars,
       sweepVars
  <2>2. lease \subseteq lease' \/ \A j \in Jobs : ~Uploading(j)
    BY <1>7 DEF DiscoverCandidate, QuarantineEnds, IndexForgets, Quiet, bucketVars
  <2>3. QED
    BY <2>1, <2>2, ReferenceKeepsInv DEF InTree, InRecords, InOps, InSnaps
<1>8. ASSUME NEW e \in Devices, NEW h \in Hashes, LeaseExpires(h, e) PROVE KeptInv'
  <2>1. /\ Same /\ UNCHANGED <<ops, tree, record, snapshots>> /\ lease' = lease \ {<<h, e>>}
        /\ exposed \subseteq exposed'
        /\ \A j \in Jobs : Device(j) = e /\ hashed[j] = h /\ Uploading(j) => h \in exposed'
    BY <1>8 DEF LeaseExpires, uploadVars, sweepVars
  <2>2. \A g \in Hashes \ exposed' : MovesOn(g)
    BY <2>1 DEF MovesOn, Needed, Promised, InTree, InRecords, InOps, InSnaps
  <2>3. OneUpload' /\ LeaseHeld'
    <3>1. OneUpload /\ LeaseHeld
      BY DEF KeptInv
    <3>2. OneUpload'
      BY <2>1, <3>1 DEF OneUpload, Uploading
    <3>3. LeaseHeld'
      BY <2>1, <3>1 DEF LeaseHeld, Uploading
    <3>4. QED
      BY <3>2, <3>3
  <2>4. QED
    BY <2>1, <2>2, <2>3, MovesOnKeeps DEF KeptInv
<1>9. CASE UNCHANGED vars
  <2>1. Same /\ UNCHANGED <<exposed, lease, ops, tree, record, snapshots>>
    BY <1>9 DEF vars, bucketVars, uploadVars, sweepVars
  <2>2. QED
    BY <2>1, ReferenceKeepsInv DEF InTree, InRecords, InOps, InSnaps
<1>10. QED
  BY <1>1, <1>2, <1>3, <1>4, <1>5, <1>6, <1>7, <1>8, <1>9

(* A sweep reads the places in their order and deletes only what no place  *)
(* names.                                                                  *)
LEMMA SweepKeepsInv ==
  ASSUME KeptInv, Typed', NEW d \in Sweepers,
         \/ SweepStep(d) \/ SweepFails(d)
         \/ \E h \in Hashes : BeginSweep(d, h)
  PROVE  KeptInv'
<1>t. Typed /\ TypeOK
  BY DEF KeptInv, Typed
<1>i. /\ OneUpload /\ LeaseHeld /\ BytesThere /\ NoneNeedsUnchecked
      /\ \A e \in Sweepers : ScanClean(e)
  BY DEF KeptInv
<1>1. UNCHANGED <<pc, hashed, exposed, lease, ops, tree, record, snapshots>>
  BY
     DEF SweepStep, CheckPlace, DeleteBlob, SweepFails, BeginSweep, bucketVars,
     uploadVars
<1>2. \A e \in Sweepers \ {d} : at'[e] = at[e] /\ candidate'[e] = candidate[e]
  BY <1>t DEF SweepStep, CheckPlace, DeleteBlob, SweepFails, BeginSweep, EndSweep,
     sweepVars, TypeOK
<1>3. \A h : (Needed(h)' <=> Needed(h)) /\ (Promised(h)' <=> Promised(h))
             /\ (InTree(h)' <=> InTree(h)) /\ (InRecords(h)' <=> InRecords(h))
             /\ (InOps(h)' <=> InOps(h)) /\ (InSnaps(h)' <=> InSnaps(h))
  BY <1>1 DEF Needed, Promised, InTree, InRecords, InOps, InSnaps
<1>4. \A h \in Hashes : blob'[h] = blob[h] \/ (at[d] = "delete" /\ h = candidate[d])
  BY <1>t
     DEF SweepStep, CheckPlace, DeleteBlob, SweepFails, BeginSweep, bucketVars,
     TypeOK
<1>5. BytesThere'
  <2>1. at[d] = "delete" /\ candidate[d] \notin exposed => ~Needed(candidate[d])
    BY <1>i DEF ScanClean, PastLease, PastTree, PastRecords, PastOps, PastSnaps, Needed
  <2>2. QED
    BY <1>i, <1>1, <1>3, <1>4, <2>1 DEF BytesThere
<1>6. OneUpload' /\ LeaseHeld'
  BY <1>i, <1>1 DEF OneUpload, LeaseHeld, Uploading
<1>7. NoneNeedsUnchecked'
  <2>1. \A j \in Jobs : (Needed(hashed[j]))' <=> Needed(hashed[j])
    BY <1>1 DEF Needed, Promised, InTree, InRecords, InOps, InSnaps
  <2>2. QED
    BY <1>i, <1>1, <2>1 DEF NoneNeedsUnchecked
<1>8. ASSUME NEW e \in Sweepers, e # d PROVE ScanClean(e)'
  <2>1. at'[e] = at[e] /\ candidate'[e] = candidate[e] /\ ScanClean(e)
    BY <1>2, <1>8, <1>i
  <2>2. QED
    BY <2>1, <1>1
       DEF ScanClean, Promised, InTree, InRecords, InOps, InSnaps, PastLease, PastTree,
       PastRecords, PastOps, PastSnaps
<1>9. ScanClean(d)'
  <2> DEFINE h == candidate[d]
  <2>1. CASE at'[d] \notin PastLease
    BY <2>1 DEF ScanClean, PastLease, PastTree, PastRecords, PastOps, PastSnaps
  <2>2. CASE at'[d] \in PastLease
    <3>1. /\ CheckPlace(d) /\ ~NamedIn(at[d], d, h) /\ at'[d] = NextPlace(at[d])
          /\ candidate'[d] = h /\ at[d] \notin {"idle", "delete"}
      BY <2>2, <1>t
         DEF SweepStep, CheckPlace, DeleteBlob, SweepFails, BeginSweep, EndSweep,
         Places, PastLease, TypeOK
    <3>2. at[d] \in {"local", "lease", "tree", "tombstones", "ops", "snapshots"}
      BY <3>1, <1>t, SweepPhasesAre DEF TypeOK
    <3>3. h \in Hashes /\ ScanClean(d)
      BY <3>1, <1>t, <1>i DEF Typed
    <3>4. SUFFICES ASSUME h \notin exposed
                   PROVE  /\ ~Promised(h)
                          /\ at'[d] \in PastTree    => ~InTree(h)
                          /\ at'[d] \in PastRecords => ~InRecords(h)
                          /\ at'[d] \in PastOps     => ~InOps(h)
                          /\ at'[d] \in PastSnaps   => ~InSnaps(h)
      BY <3>1, <1>1 DEF ScanClean, Promised, InTree, InRecords, InOps, InSnaps, PastLease,
         PastTree, PastRecords, PastOps, PastSnaps
    <3>5. CASE at[d] = "local"
      BY <3>5, <3>1, <2>2, ScanOrder DEF PastLease
    <3>6. CASE at[d] = "lease"
      <4>1. \A e \in Devices : <<h, e>> \notin lease
        BY <3>1, <3>6 DEF NamedIn
      <4>2. ~Promised(h)
        BY <4>1, <3>4, <1>i, JobsAssumption DEF LeaseHeld, Promised, Device
      <4>3. QED
        BY <4>2, <3>1, <3>6, ScanOrder DEF PastTree, PastRecords, PastOps, PastSnaps
    <3>7. CASE at[d] = "tree"
      <4>1. ~InTree(h)
        <5>1. h \notin TreeContents
          BY <3>1, <3>7 DEF NamedIn
        <5>2. QED
          BY <5>1, <3>3, ContentAssumption DEF TreeContents, InTree
      <4>2. QED
        BY <4>1, <3>1, <3>3, <3>4, <3>7, ScanOrder DEF ScanClean, PastLease, PastTree,
           PastRecords, PastOps, PastSnaps
    <3>8. CASE at[d] = "tombstones"
      <4>1. ~InRecords(h)
        BY <3>1, <3>8 DEF NamedIn, InRecords
      <4>2. QED
        BY <4>1, <3>1, <3>3, <3>4, <3>8, ScanOrder DEF ScanClean, PastLease, PastTree,
           PastRecords, PastOps, PastSnaps
    <3>9. CASE at[d] = "ops"
      <4>1. ~InOps(h)
        BY <3>1, <3>9 DEF NamedIn, InOps, InSnaps
      <4>2. QED
        BY <4>1, <3>1, <3>3, <3>4, <3>9, ScanOrder DEF ScanClean, PastLease, PastTree,
           PastRecords, PastOps, PastSnaps
    <3>10. CASE at[d] = "snapshots"
      <4>1. ~InSnaps(h)
        BY <3>1, <3>10 DEF NamedIn, InSnaps
      <4>2. QED
        BY <4>1, <3>1, <3>3, <3>4, <3>10, ScanOrder DEF ScanClean, PastLease, PastTree,
           PastRecords, PastOps, PastSnaps
    <3>11. QED
      BY <3>2, <3>5, <3>6, <3>7, <3>8, <3>9, <3>10
  <2>3. QED
    BY <2>1, <2>2
<1>10. QED
  BY <1>5, <1>6, <1>7, <1>8, <1>9 DEF KeptInv

-----------------------------------------------------------------------------
(* The theorems.                                                           *)

(* At first nothing is needed, uploaded or swept. *)
LEMMA KeptInit == Init => KeptInv
<1> SUFFICES ASSUME Init PROVE KeptInv
  OBVIOUS
<1>1. snapshots \in Seq(SUBSET Hashes) /\ Len(snapshots) <= SnapshotKeep
  BY KeepAssumption DEF Init
<1>2. TypeOK
  BY <1>1, SweepPhasesAre, BoundsAssumption DEF Init, TypeOK, UploadPhases
<1>3. (\A j \in Jobs : ~Uploading(j)) /\ \A h : ~Promised(h)
  BY DEF Init, Uploading, Promised
<1>4. Typed
  BY <1>2, <1>3 DEF Typed, Init
<1>5. \A h \in Hashes : ~Needed(h)
  BY <1>3, ContentAssumption DEF Init, Needed, InTree, InRecords, InOps, InSnaps
<1>6. \A d \in Sweepers : ScanClean(d)
  BY DEF Init, ScanClean, PastLease, PastTree, PastRecords, PastOps, PastSnaps
<1>7. OneUpload /\ LeaseHeld /\ NoneNeedsUnchecked /\ BytesThere
  BY <1>3, <1>5 DEF OneUpload, LeaseHeld, NoneNeedsUnchecked, BytesThere, Init
<1>8. QED
  BY <1>4, <1>6, <1>7 DEF KeptInv

(* Every step keeps the invariant. *)
LEMMA KeptStep == KeptInv /\ [Next]_vars => KeptInv'
<1> SUFFICES ASSUME KeptInv, [Next]_vars PROVE KeptInv'
  OBVIOUS
<1>1. Typed'
  BY TypeStep DEF KeptInv
<1>2. ASSUME NEW j \in Jobs, UploadStep(j) \/ UploadFails(j) \/ Edit(j) PROVE KeptInv'
  BY <1>1, <1>2, UploadKeepsInv
<1>3. ASSUME NEW d \in Sweepers,
             SweepStep(d) \/ SweepFails(d) \/ \E h \in Hashes : BeginSweep(d, h)
      PROVE  KeptInv'
  BY <1>1, <1>3, SweepKeepsInv
<1>4. QED
  BY <1>1, <1>2, <1>3, OthersKeepInv DEF Next

(* The bucket, the uploads and the sweeps keep their types, whatever the   *)
(* numbers of devices, files and contents.                                 *)
THEOREM TypeCorrect == Spec => []TypeOK
<1>1. KeptInv => TypeOK
  BY DEF KeptInv, Typed
<1>2. QED
  BY <1>1, KeptInit, KeptStep, PTL DEF Spec

(* Bytes that a tree entry, a deletion record, a retained operation or a   *)
(* kept snapshot names are there, except where a reference could appear    *)
(* behind the scan of a sweep (remote_blob_is_referenced in                *)
(* maintenance.rs), for any number of uploads, sweeps, restores and faults.*)
THEOREM BytesKept == Spec => []LostOnlyIfExposed
<1>1. ASSUME KeptInv PROVE LostOnlyIfExposed
  <2>1. \A h \in Hashes : Referenced(h) => Needed(h)
    BY DEF Referenced, Needed, TreeContents, InTree, InRecords, InOps, InSnaps
  <2>2. QED
    BY <2>1, <1>1 DEF LostOnlyIfExposed, KeptInv, BytesThere
<1>2. QED
  BY <1>1, KeptInit, KeptStep, PTL DEF Spec
=============================================================================
