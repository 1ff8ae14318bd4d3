------------------------------- MODULE BlobGC -------------------------------
(***************************************************************************)
(* Content blobs: how an upload stores and references one, and how         *)
(* maintenance collects those nothing references.                          *)
(*   src-core/src/metadata/blobs.rs        BlobStore::store_file           *)
(*   src-core/src/sync/mod.rs              process_upload_queue, leases    *)
(*   src-core/src/sync/maintenance.rs      blob candidates and their sweep *)
(*   src-core/src/db.rs                    remote_blob_gc_candidates       *)
(* and the deletion records that keep the blobs of deleted files.          *)
(*                                                                         *)
(* A blob is stored under the hash of its content, so equal content is     *)
(* uploaded once: an upload that finds the key takes the blob as it is.    *)
(* References are written later: a lease, the committed operation, the     *)
(* tree entry; the lease goes last.  Maintenance of any device lists every *)
(* blob as a candidate and, once its quarantine ends, looks for references *)
(* one place after another and deletes the blob if it met none.            *)
(*                                                                         *)
(* The scan of one place is one step.  Commits conflict as in OpLog; here  *)
(* a commit simply succeeds, or the attempt fails.                         *)
(***************************************************************************)
EXTENDS Integers, Sequences, FiniteSets

CONSTANTS
  Devices,
  Sweepers,      \* devices whose maintenance collects blobs
  Files,
  Jobs,          \* the uploads there can be: pairs of device and file
  Hashes,        \* the contents a file can have
  NoContent,
  SnapshotKeep,  \* remote_snapshot_keep
  MaxFaults,     \* bound: calls that fail and processes that stop
  MaxEdits       \* bound: local edits

ASSUME SweepersAssumption == Sweepers \subseteq Devices
ASSUME JobsAssumption     == Jobs \subseteq Devices \X Files
ASSUME ContentAssumption  == NoContent \notin Hashes
ASSUME KeepAssumption     == SnapshotKeep \in Nat \ {0}
ASSUME BoundsAssumption   == MaxFaults \in Nat /\ MaxEdits \in Nat

VARIABLES
  (* The bucket. *)
  blob,        \* bytes under the key of a hash: none, good or bad
  lease,       \* unexpired leases: pairs of hash and device
  ops,         \* retained operations, as pairs of file and content
  old,         \* those of them older than the operation retention
  tree,        \* content of each materialized entry
  record,      \* contents the deletion record of a file names
  deleted,     \* life of a file: live, deleting, deleted or restoring
  snapshots,   \* contents named by the kept snapshots, oldest first
  (* The devices. *)
  content,     \* local bytes of a job's file
  hashed,      \* hash the running attempt computed, or NoContent
  pc,          \* where the upload of a job stands
  index,       \* hashes in the local index of a collecting device
  row,         \* remote_blob_gc_candidates of a device
  at,          \* where the sweep of a device stands
  candidate,   \* the blob it considers, or NoContent
  (* History and bounds. *)
  exposed,     \* hashes whose new reference a deletion could have missed
  faults,
  edits

bucketVars == <<blob, lease, ops, old, tree, record, deleted, snapshots>>
uploadVars == <<content, hashed, pc, index>>
sweepVars  == <<row, at, candidate>>
boundVars  == <<faults, edits>>
vars == <<bucketVars, uploadVars, sweepVars, exposed, boundVars>>

Device(j) == j[1]
File(j)   == j[2]

UploadPhases == {"idle", "queued", "head", "put", "rehash", "lease",
                 "commit", "tree", "release"}

\* The places remote_blob_is_referenced reads, in its order.
Places == <<"local", "lease", "tree", "tombstones", "ops", "snapshots">>

SweepPhases == {"idle", "delete"} \cup {Places[i] : i \in DOMAIN Places}

TypeOK ==
  /\ blob \in [Hashes -> {"none", "good", "bad"}]
  /\ lease \subseteq Hashes \X Devices
  /\ ops \subseteq Files \X Hashes
  /\ old \subseteq ops
  /\ tree \in [Files -> Hashes \cup {NoContent}]
  /\ record \in [Files -> SUBSET Hashes]
  /\ deleted \in [Files -> {"live", "deleting", "deleted", "restoring"}]
  /\ snapshots \in Seq(SUBSET Hashes) /\ Len(snapshots) <= SnapshotKeep
  /\ content \in [Jobs -> Hashes]
  /\ hashed \in [Jobs -> Hashes \cup {NoContent}]
  /\ pc \in [Jobs -> UploadPhases]
  /\ index \in [Sweepers -> SUBSET Hashes]
  /\ row \in [Sweepers -> [Hashes -> {"none", "waiting", "due"}]]
  /\ at \in [Sweepers -> SweepPhases]
  /\ candidate \in [Sweepers -> Hashes \cup {NoContent}]
  /\ exposed \subseteq Hashes
  /\ faults \in 0..MaxFaults
  /\ edits \in 0..MaxEdits

\* An empty bucket; every job's file exists locally and waits for upload.
Init ==
  /\ blob = [h \in Hashes |-> "none"]
  /\ lease = {} /\ ops = {} /\ old = {}
  /\ tree = [f \in Files |-> NoContent]
  /\ record = [f \in Files |-> {}]
  /\ deleted = [f \in Files |-> "live"]
  /\ snapshots = <<>>
  /\ content \in [Jobs -> Hashes]
  /\ hashed = [j \in Jobs |-> NoContent]
  /\ pc = [j \in Jobs |-> "queued"]
  /\ index = [d \in Sweepers |-> {}]
  /\ row = [d \in Sweepers |-> [h \in Hashes |-> "none"]]
  /\ at = [d \in Sweepers |-> "idle"]
  /\ candidate = [d \in Sweepers |-> NoContent]
  /\ exposed = {}
  /\ faults = 0 /\ edits = 0

-----------------------------------------------------------------------------
(* Uploads.                                                                *)

Uploading(j) == pc[j] \notin {"idle", "queued"}

\* The sweep of h looked for leases already and still may delete the blob.
PastLeaseCheck(h) ==
  \E d \in Sweepers : /\ candidate[d] = h
                      /\ at[d] \notin {"idle", "local", "lease"}

Fault == faults < MaxFaults /\ faults' = faults + 1

GoTo(j, phase) == pc' = [pc EXCEPT ![j] = phase]

\* The attempt is over and its local state gone.
End(j, phase) == GoTo(j, phase) /\ hashed' = [hashed EXCEPT ![j] = NoContent]

\* A device processes its upload jobs one at a time.  The scan that queued
\* the job left the hash in the index; store_file hashes the file again.
BeginUpload(j) ==
  /\ pc[j] = "queued"
  /\ \A k \in Jobs : Device(k) = Device(j) => ~Uploading(k)
  /\ GoTo(j, "head")
  /\ hashed' = [hashed EXCEPT ![j] = content[j]]
  /\ index' = [d \in Sweepers |-> IF d = Device(j) THEN index[d] \cup {content[j]}
                                                ELSE index[d]]
  /\ UNCHANGED <<bucketVars, content, sweepVars, exposed, boundVars>>

\* The first HEAD of store_file: a blob that exists is not uploaded again.
HeadBlob(j) ==
  /\ pc[j] = "head"
  /\ GoTo(j, IF blob[hashed[j]] = "none" THEN "put" ELSE "lease")
  /\ UNCHANGED <<bucketVars, content, hashed, index, sweepVars, exposed,
                 boundVars>>

\* The bytes an upload of j leaves under its key: those of the file now.
Uploaded(j) == IF content[j] = hashed[j] THEN "good" ELSE "bad"

\* The PUT with If-None-Match.  A retry that meets the blob of an earlier
\* attempt whose reply was lost takes it for one that existed before.
PutBlob(j) ==
  /\ pc[j] = "put"
  /\ LET h == hashed[j] IN
       IF blob[h] = "none"
         THEN /\ blob' = [blob EXCEPT ![h] = Uploaded(j)]
              /\ \/ GoTo(j, "rehash") /\ UNCHANGED faults
                 \/ GoTo(j, "lease") /\ Fault
         ELSE GoTo(j, "lease") /\ UNCHANGED <<blob, faults>>
  /\ UNCHANGED <<lease, ops, old, tree, record, deleted, snapshots, content,
                 hashed, index, sweepVars, exposed, edits>>

\* The hash check after an upload that created the blob.
RehashSame(j) ==
  /\ pc[j] = "rehash"
  /\ content[j] = hashed[j]
  /\ GoTo(j, "lease")
  /\ UNCHANGED <<bucketVars, content, hashed, index, sweepVars, exposed,
                 boundVars>>

RehashChanged(j) ==
  /\ pc[j] = "rehash"
  /\ content[j] # hashed[j]
  /\ End(j, "queued")
  /\ blob' = [blob EXCEPT ![hashed[j]] = "none"]
  /\ UNCHANGED <<lease, ops, old, tree, record, deleted, snapshots, content,
                 index, sweepVars, exposed, boundVars>>

\* create_blob_lease.
PutLease(j) ==
  /\ pc[j] = "lease"
  /\ GoTo(j, "commit")
  /\ LET h == hashed[j] IN
       /\ lease' = lease \cup {<<h, Device(j)>>}
       /\ exposed' =
            IF \/ blob[h] # "good"
               \/ PastLeaseCheck(h)
               \/ \E k \in Jobs \ {j} : pc[k] = "rehash" /\ hashed[k] = h
              THEN exposed \cup {h} ELSE exposed
  /\ UNCHANGED <<blob, ops, old, tree, record, deleted, snapshots, content,
                 hashed, index, sweepVars, boundVars>>

\* The commit of the operation.  A file with a deletion under way or done
\* is a conflict, which ends the job.
CommitUpload(j) ==
  /\ pc[j] = "commit"
  /\ LET o == <<File(j), hashed[j]>> IN
       IF deleted[File(j)] = "live"
         THEN /\ ops' = ops \cup {o}
              /\ old' = old \ {o}
              /\ GoTo(j, "tree")
              /\ UNCHANGED <<lease, hashed>>
         ELSE /\ End(j, "idle")
              /\ lease' = lease \ {<<hashed[j], Device(j)>>}
              /\ UNCHANGED <<ops, old>>
  /\ UNCHANGED <<blob, tree, record, deleted, snapshots, content, index,
                 sweepVars, exposed, boundVars>>

\* The tree entry is written over whatever is there; a failure is a warning.
UpsertEntry(j) ==
  /\ pc[j] = "tree"
  /\ GoTo(j, "release")
  /\ \/ tree' = [tree EXCEPT ![File(j)] = hashed[j]] /\ UNCHANGED faults
     \/ Fault /\ UNCHANGED tree
  /\ UNCHANGED <<blob, lease, ops, old, record, deleted, snapshots, content,
                 hashed, index, sweepVars, exposed, edits>>

\* The job is completed, then the lease released; nobody retries a release.
ReleaseLease(j) ==
  /\ pc[j] = "release"
  /\ End(j, "idle")
  /\ \/ lease' = lease \ {<<hashed[j], Device(j)>>} /\ UNCHANGED faults
     \/ Fault /\ UNCHANGED lease
  /\ UNCHANGED <<blob, ops, old, tree, record, deleted, snapshots, content,
                 index, sweepVars, exposed, edits>>

\* A call of the attempt fails, or the process stops: the job is queued
\* again.  A failed call may have taken effect, and only a failure that is
\* handled releases the lease.
UploadFails(j) ==
  /\ Uploading(j)
  /\ Fault
  /\ End(j, "queued")
  /\ lease' \in {lease, lease \ {<<hashed[j], Device(j)>>}}
  /\ \/ UNCHANGED <<blob, ops, old>>
     \/ /\ pc[j] = "put"
        /\ blob[hashed[j]] = "none"
        /\ blob' = [blob EXCEPT ![hashed[j]] = Uploaded(j)]
        /\ UNCHANGED <<ops, old>>
     \/ /\ pc[j] = "commit"
        /\ deleted[File(j)] = "live"
        /\ ops' = ops \cup {<<File(j), hashed[j]>>}
        /\ old' = old \ {<<File(j), hashed[j]>>}
        /\ UNCHANGED blob
  /\ UNCHANGED <<tree, record, deleted, snapshots, content, index, sweepVars,
                 exposed, edits>>

\* The user saves the file; the next scan queues its upload.
Edit(j) ==
  /\ edits < MaxEdits
  /\ edits' = edits + 1
  /\ \E h \in Hashes \ {content[j]} : content' = [content EXCEPT ![j] = h]
  /\ pc' = [pc EXCEPT ![j] = IF @ = "idle" THEN "queued" ELSE @]
  /\ UNCHANGED <<bucketVars, hashed, index, sweepVars, exposed, faults>>

-----------------------------------------------------------------------------
(* Deletion and restore of a file, as far as they move references.         *)

\* The deletion record, with the content of the tree entry, precedes the op.
WriteRecord(f) ==
  /\ deleted[f] = "live"
  /\ tree[f] # NoContent
  /\ record' = [record EXCEPT ![f] = {tree[f]}]
  /\ deleted' = [deleted EXCEPT ![f] = "deleting"]
  /\ UNCHANGED <<blob, lease, ops, old, tree, snapshots, uploadVars,
                 sweepVars, exposed, boundVars>>

DeleteEntry(f) ==
  /\ deleted[f] = "deleting"
  /\ tree' = [tree EXCEPT ![f] = NoContent]
  /\ deleted' = [deleted EXCEPT ![f] = "deleted"]
  /\ UNCHANGED <<blob, lease, ops, old, record, snapshots, uploadVars,
                 sweepVars, exposed, boundVars>>

\* publish_restore commits an operation without content and writes the entry
\* again, from the record's time, unless a newer one is there.
RestoreEntry(f) ==
  /\ deleted[f] = "deleted"
  /\ record[f] # {}
  /\ \E h \in record[f] :
       /\ tree' = [tree EXCEPT ![f] = IF @ = NoContent THEN h ELSE @]
       /\ exposed' = exposed \cup {h2 \in {h} : PastLeaseCheck(h2)}
  /\ deleted' = [deleted EXCEPT ![f] = "restoring"]
  /\ UNCHANGED <<blob, lease, ops, old, record, snapshots, uploadVars,
                 sweepVars, boundVars>>

\* retire_deletion.
RetireRecord(f) ==
  /\ deleted[f] = "restoring"
  /\ record' = [record EXCEPT ![f] = {}]
  /\ deleted' = [deleted EXCEPT ![f] = "live"]
  /\ UNCHANGED <<blob, lease, ops, old, tree, snapshots, uploadVars,
                 sweepVars, exposed, boundVars>>

-----------------------------------------------------------------------------
(* Maintenance: the operation log and blob collection.                     *)

\* What a snapshot written now names.
TreeContents == {tree[f] : f \in Files} \ {NoContent}

\* Defect: nothing prunes the older snapshots.
TakeSnapshot_NoPrune ==
  /\ TreeContents # {}
  /\ snapshots' = Append(snapshots, TreeContents)
  /\ UNCHANGED <<blob, lease, ops, old, tree, record, deleted, uploadVars,
                 sweepVars, exposed, boundVars>>

\* A snapshot of the tree; older ones than SnapshotKeep are pruned.
TakeSnapshot ==
  /\ TreeContents # {}
  /\ LET all == Append(snapshots, TreeContents) IN
       snapshots' = IF Len(all) > SnapshotKeep THEN Tail(all) ELSE all
  /\ UNCHANGED <<blob, lease, ops, old, tree, record, deleted, uploadVars,
                 sweepVars, exposed, boundVars>>

\* Compaction deletes an operation past its retention that a snapshot covers.
PruneOp(o) ==
  /\ o \in old
  /\ snapshots # <<>>
  /\ ops' = ops \ {o}
  /\ old' = old \ {o}
  /\ UNCHANGED <<blob, lease, tree, record, deleted, snapshots, uploadVars,
                 sweepVars, exposed, boundVars>>

\* Defect: candidates come from the operations instead of the listing.
DiscoverCandidate_FromOps(d, h) ==
  /\ at[d] = "idle"
  /\ \E o \in ops : o[2] = h
  /\ row[d][h] = "none"
  /\ row' = [row EXCEPT ![d][h] = "waiting"]
  /\ UNCHANGED <<bucketVars, uploadVars, at, candidate, exposed, boundVars>>

\* Every blob listed becomes a candidate.  A row that exists keeps the end of
\* its quarantine; one whose blob this device collected counts as none, since
\* listing the blob again starts a new quarantine.
DiscoverCandidate(d, h) ==
  /\ at[d] = "idle"
  /\ blob[h] # "none"
  /\ row[d][h] = "none"
  /\ row' = [row EXCEPT ![d][h] = "waiting"]
  /\ UNCHANGED <<bucketVars, uploadVars, at, candidate, exposed, boundVars>>

BeginSweep(d, h) ==
  /\ at[d] = "idle"
  /\ row[d][h] = "due"
  /\ at' = [at EXCEPT ![d] = Places[1]]
  /\ candidate' = [candidate EXCEPT ![d] = h]
  /\ UNCHANGED <<bucketVars, uploadVars, row, exposed, boundVars>>

\* Defect: the sweep does not look into the snapshots.
NamedIn_NoSnapshots(place, d, h) ==
  CASE place = "local"      -> h \in index[d]
    [] place = "lease"      -> \E e \in Devices : <<h, e>> \in lease
    [] place = "tree"       -> h \in TreeContents
    [] place = "tombstones" -> \E f \in Files : h \in record[f]
    [] place = "ops"        -> \E o \in ops : o[2] = h
    [] place = "snapshots"  -> FALSE

\* Whether the given place names h, as the sweep of d reads it.
NamedIn(place, d, h) ==
  CASE place = "local"      -> h \in index[d]
    [] place = "lease"      -> \E e \in Devices : <<h, e>> \in lease
    [] place = "tree"       -> h \in TreeContents
    [] place = "tombstones" -> \E f \in Files : h \in record[f]
    [] place = "ops"        -> \E o \in ops : o[2] = h
    [] place = "snapshots"  -> \E i \in DOMAIN snapshots : h \in snapshots[i]

\* The step of the sweep after a place without a reference.
NextPlace(place) ==
  LET i == CHOOSE k \in DOMAIN Places : Places[k] = place
  IN  IF i = Len(Places) THEN "delete" ELSE Places[i + 1]

EndSweep(d) == /\ at' = [at EXCEPT ![d] = "idle"]
               /\ candidate' = [candidate EXCEPT ![d] = NoContent]

\* remote_blob_is_referenced, one place per step; a referenced blob stops
\* being a candidate until it is listed again.
CheckPlace(d) ==
  /\ at[d] \notin {"idle", "delete"}
  /\ IF NamedIn(at[d], d, candidate[d])
       THEN /\ row' = [row EXCEPT ![d][candidate[d]] = "none"]
            /\ EndSweep(d)
       ELSE /\ at' = [at EXCEPT ![d] = NextPlace(@)]
            /\ UNCHANGED <<row, candidate>>
  /\ UNCHANGED <<bucketVars, uploadVars, exposed, boundVars>>

DeleteBlob(d) ==
  /\ at[d] = "delete"
  /\ blob' = [blob EXCEPT ![candidate[d]] = "none"]
  /\ row' = [row EXCEPT ![d][candidate[d]] = "none"]
  /\ EndSweep(d)
  /\ UNCHANGED <<lease, ops, old, tree, record, deleted, snapshots,
                 uploadVars, exposed, boundVars>>

\* A scan fails, the reply to the DELETE is lost or the process stops: the
\* row is unchanged and the candidate stays due.
SweepFails(d) ==
  /\ at[d] # "idle"
  /\ Fault
  /\ EndSweep(d)
  /\ \/ UNCHANGED blob
     \/ /\ at[d] = "delete"
        /\ blob' = [blob EXCEPT ![candidate[d]] = "none"]
  /\ UNCHANGED <<lease, ops, old, tree, record, deleted, snapshots,
                 uploadVars, row, exposed, edits>>

-----------------------------------------------------------------------------
(* Time.  An attempt, a deletion or a sweep lasts far less than the        *)
(* retention periods, so none of them spans the end of one.                *)

Quiet == /\ \A j \in Jobs : ~Uploading(j)
         /\ \A f \in Files : deleted[f] # "deleting"
         /\ \A d \in Sweepers : at[d] = "idle"

QuarantineEnds(d, h) ==
  /\ Quiet
  /\ row[d][h] = "waiting"
  /\ row' = [row EXCEPT ![d][h] = "due"]
  /\ lease' = {}
  /\ UNCHANGED <<blob, ops, old, tree, record, deleted, snapshots, uploadVars,
                 at, candidate, exposed, boundVars>>

OpRetentionEnds(o) ==
  /\ Quiet
  /\ o \in ops \ old
  /\ old' = old \cup {o}
  /\ lease' = {}
  /\ UNCHANGED <<blob, ops, tree, record, deleted, snapshots, uploadVars,
                 sweepVars, exposed, boundVars>>

\* collect_expired_tombstone_at: only while the tree agrees with the newest
\* operation, a deletion or a restore.
RecordExpires(f) ==
  /\ Quiet
  /\ record[f] # {}
  /\ \/ deleted[f] = "deleted" /\ tree[f] = NoContent /\ UNCHANGED deleted
     \/ /\ deleted[f] = "restoring" /\ tree[f] # NoContent
        /\ deleted' = [deleted EXCEPT ![f] = "live"]
  /\ record' = [record EXCEPT ![f] = {}]
  /\ lease' = {}
  /\ UNCHANGED <<blob, ops, old, tree, snapshots, uploadVars, sweepVars,
                 exposed, boundVars>>

\* Revisions and objects of the index past their retention are pruned, but
\* never the content of a file that exists.
IndexForgets(d, h) ==
  /\ Quiet
  /\ h \in index[d]
  /\ \A j \in Jobs : Device(j) = d => content[j] # h
  /\ index' = [index EXCEPT ![d] = @ \ {h}]
  /\ lease' = {}
  /\ UNCHANGED <<blob, ops, old, tree, record, deleted, snapshots, content,
                 hashed, pc, sweepVars, exposed, boundVars>>

\* blob_lease_ttl_minutes pass, which a suspended device does not notice.
LeaseExpires(h, d) ==
  /\ <<h, d>> \in lease
  /\ lease' = lease \ {<<h, d>>}
  /\ IF \E j \in Jobs : Device(j) = d /\ hashed[j] = h /\ Uploading(j)
       THEN Fault /\ exposed' = exposed \cup {h}
       ELSE UNCHANGED <<faults, exposed>>
  /\ UNCHANGED <<blob, ops, old, tree, record, deleted, snapshots, uploadVars,
                 sweepVars, edits>>

-----------------------------------------------------------------------------
UploadStep(j) ==
  \/ BeginUpload(j) \/ HeadBlob(j) \/ PutBlob(j) \/ RehashSame(j)
  \/ RehashChanged(j) \/ PutLease(j) \/ CommitUpload(j) \/ UpsertEntry(j)
  \/ ReleaseLease(j)

SweepStep(d) == CheckPlace(d) \/ DeleteBlob(d)

Next ==
  \/ \E j \in Jobs : UploadStep(j) \/ UploadFails(j) \/ Edit(j)
  \/ \E f \in Files : \/ WriteRecord(f) \/ DeleteEntry(f)
                      \/ RestoreEntry(f) \/ RetireRecord(f)
                      \/ RecordExpires(f)
  \/ TakeSnapshot
  \/ \E o \in ops : PruneOp(o) \/ OpRetentionEnds(o)
  \/ \E d \in Sweepers : \/ SweepStep(d) \/ SweepFails(d)
                         \/ \E h \in Hashes : \/ DiscoverCandidate(d, h)
                                              \/ BeginSweep(d, h)
                                              \/ QuarantineEnds(d, h)
                                              \/ IndexForgets(d, h)
  \/ \E d \in Devices, h \in Hashes : LeaseExpires(h, d)

Spec == Init /\ [][Next]_vars

\* The daemon drives uploads, applies deletions and runs maintenance; time
\* passes.  Edits, deletions, restores and faults owe nothing.
Fairness ==
  /\ \A j \in Jobs : WF_vars(UploadStep(j))
  /\ \A f \in Files : WF_vars(RecordExpires(f)) /\ WF_vars(DeleteEntry(f))
  /\ \A d \in Sweepers : WF_vars(SweepStep(d))
  /\ \A d \in Sweepers, h \in Hashes :
       /\ SF_vars(DiscoverCandidate(d, h))
       /\ SF_vars(BeginSweep(d, h))
       /\ SF_vars(QuarantineEnds(d, h))
  /\ \A d \in Devices, h \in Hashes : WF_vars(LeaseExpires(h, d))

FairSpec == Spec /\ Fairness

-----------------------------------------------------------------------------
(* Properties.                                                             *)

\* What must not lose its bytes: the content of tree entries, of deletion
\* records, of retained operations and of the kept snapshots.
Referenced(h) ==
  \/ h \in TreeContents
  \/ \E f \in Files : h \in record[f]
  \/ \E o \in ops : o[2] = h
  \/ \E i \in DOMAIN snapshots : h \in snapshots[i]

\* References move from place to place while a sweep reads the places one by
\* one: a lease becomes an operation, a tree entry a deletion record, a new
\* revision replaces an entry.  The order of the writes and that of the scan
\* make sure that referenced bytes are lost only where a reference could
\* appear behind the scan: a lease put while a deletion of the blob was
\* under way, a restore during a sweep, an expired lease.
LostOnlyIfExposed ==
  \A h \in Hashes : Referenced(h) /\ blob[h] # "good" => h \in exposed

\* Whether d's own index keeps h.
IndexKeeps(d, h) == h \in index[d]

\* Orphans do not pile up: a blob that nothing references, uploads or keeps
\* in a collecting device's index is collected in the end.
OrphansCollected ==
  \A h \in Hashes :
    ~ <>[](/\ blob[h] # "none"
           /\ ~Referenced(h)
           /\ \A d \in Sweepers : ~IndexKeeps(d, h))
=============================================================================
