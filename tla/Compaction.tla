----------------------------- MODULE Compaction -----------------------------
(***************************************************************************)
(* The life of the operation log in the bucket: snapshots of the tree, the *)
(* progress each device reports, the deletion of old operations, and the   *)
(* two readers of what is left: a device that polls, and restore-bucket of *)
(* the command line.                                                       *)
(*                                                                         *)
(* Operations are numbered along the chain: the base of operation i is     *)
(* i - 1, and the head is the last one (OpLog shows how the chain comes to *)
(* be).  An operation writes a file or deletes it.  A tree entry is the    *)
(* number of the operation it reflects, 0 when there is none; it is put    *)
(* after the commit, and that put may come late or never.                  *)
(*                                                                         *)
(* The loop of a device uploads and polls, then runs a maintenance pass:   *)
(* one thing at a time, one request to the bucket per step.                *)
(***************************************************************************)
EXTENDS Integers, FiniteSets, FiniteSetsExt, Sequences

CONSTANTS
    Dev,        \* devices
    NFiles,     \* files are 1..NFiles, in the order the tree is listed
    Interval,   \* remote_op_snapshot_interval_ops
    Batch,      \* remote_op_compaction_batch_size
    Keep,       \* remote_snapshot_keep
    MaxOps,     \* bound: operations committed
    MaxSeq,     \* bound: snapshot numbers
    MaxPasses,  \* bound: maintenance passes begun
    MaxMishaps  \* bound: failed tree puts, stops (crashes and errors) of a
                \* task, devices that fall silent or are retired

ASSUME CompactionAssumption ==
    /\ {NFiles, MaxOps, MaxSeq, MaxPasses, MaxMishaps} \subseteq Nat
    /\ {Interval, Batch, Keep} \subseteq Nat \ {0}

File == 1..NFiles
Op == 1..MaxOps
Seqs == 1..MaxSeq
Gone == -1        \* the log deleted the file

VARIABLES
    log,     \* the operations ever committed
    kept,    \* those whose object is in the bucket
    tree,    \* file -> operation its tree entry reflects
    snap,    \* snapshot number -> its tree.json and metadata.json
    latest,  \* snapshots/LATEST
    cursor,  \* the compaction cursor (ops/TAIL)
    reg,     \* device -> age of its registration
    mark,    \* device -> its watermark
    ckpt,    \* device -> REMOTE_HEAD_CHECKPOINT, 0 for ""
    row,     \* device -> file -> operation its copy reflects, 0 for no row
    task,    \* device -> what its sync loop is at
    passes, mishaps,
    torn,    \* history: snapshot numbers written twice, in part, below a newer one,
             \* or for an older head than one before covers; and a complete one that
             \* was pruned for the newer tree of one still being written
    most,    \* history: the highest head a snapshot covered
    thin,    \* history: snapshots whose tree was listed with puts outstanding
    unseen,  \* history: copies a tree scan passed over with a put outstanding
    lapsed   \* history: devices fallen silent or retired, till their watermark is back

bucket == <<log, kept, tree>>
shots == <<snap, latest, torn, thin, most>>
marks == <<reg, mark>>
copy == <<ckpt, row, unseen>>
vars == <<bucket, shots, cursor, marks, copy, task, passes, mishaps, lapsed>>

Tip == Len(log)
NoSnap == [tree |-> [f \in File |-> 0], listed |-> FALSE, cov |-> 0, meta |-> FALSE]
NoCursor == [seq |-> 0, next |-> 0, pending |-> {}]
NoMark == [age |-> "none", seq |-> 0]
NoTask == [pc |-> "idle", head |-> 0, seq |-> 0, cov |-> 0,
           cur |-> NoCursor, todo |-> {}]

Init ==
    /\ log = <<>> /\ kept = {}
    /\ tree = [f \in File |-> 0] 
    /\ snap = [s \in Seqs |-> NoSnap] /\ latest = 0
    /\ cursor = NoCursor
    /\ reg = [d \in Dev |-> "fresh"] /\ mark = [d \in Dev |-> NoMark]
    /\ ckpt = [d \in Dev |-> 0]
    /\ row = [d \in Dev |-> [f \in File |-> 0]]
    /\ task = [d \in Dev |-> NoTask]
    /\ passes = 0 /\ mishaps = 0
    /\ most = 0 /\ torn = {} /\ thin = {} /\ unseen = {} /\ lapsed = {}

-----------------------------------------------------------------------------
(* What the log says.                                                      *)

\* The state of file f after the first n operations.
LogAt(n, f) ==
    LET on == {i \in 1..n : log[i].file = f}
    IN IF on = {} THEN 0
       ELSE IF log[Max(on)].kind = "delete" THEN Gone ELSE Max(on)

\* The operation a file there has its content from, 0 for no file.
Live(n, f) == Max({0, LogAt(n, f)})

\* Every operation after n up to m is readable.
Readable(n, m) == (n + 1)..m \subseteq kept

-----------------------------------------------------------------------------
(* Uploads and deletions: the commit, then the tree entry.                 *)

Do(d, t) == task' = [task EXCEPT ![d] = t]
At(d, pc) == task[d].pc = pc

\* The device holds the newest content of f (FileSync has the rest).
Commit(d, f, kind) ==
    /\ At(d, "idle") /\ Tip < MaxOps
    /\ row[d][f] = LogAt(Tip, f)
    /\ kind = "delete" => row[d][f] # 0
    /\ log' = Append(log, [file |-> f, kind |-> kind])
    /\ kept' = kept \cup {Tip + 1}
    /\ row' = [row EXCEPT ![d][f] = IF kind = "delete" THEN 0 ELSE Tip + 1]
    /\ Do(d, [NoTask EXCEPT !.pc = "put", !.head = Tip + 1])
    /\ UNCHANGED <<tree, shots, cursor, marks, ckpt, unseen, mishaps, lapsed, passes>>

\* upsert_entry and delete_entry are unconditional: a late one wins.
PutEntry(d) ==
    LET i == task[d].head IN
    /\ At(d, "put")
    /\ tree' = [tree EXCEPT ![log[i].file] = IF log[i].kind = "delete" THEN 0 ELSE i]
    /\ Do(d, NoTask)
    /\ UNCHANGED <<log, kept, shots, cursor, marks, copy, mishaps, lapsed, passes>>

\* The tree does not show this file as the log has it.
Wrong(f) == tree[f] # Live(Tip, f)

-----------------------------------------------------------------------------
(* poll_remote_changes, and the tree scan it falls back to.                *)

\* count_objects: before its first file a device lists the tree.
Empty(d) == ckpt[d] = 0 /\ \A f \in File : row[d][f] = 0

\* Every operation since the checkpoint is there: apply them in order.  What
\* this device already holds in a later form is superseded.
Apply(d) ==
    /\ At(d, "idle") /\ ckpt[d] # Tip /\ Readable(ckpt[d], Tip) /\ ~Empty(d)
    /\ row' = [row EXCEPT ![d] = [f \in File |->
                  IF \E i \in ckpt[d]+1..Tip : log[i].file = f
                  THEN Live(Tip, f) ELSE row[d][f]]]
    /\ ckpt' = [ckpt EXCEPT ![d] = Tip]
    /\ UNCHANGED <<bucket, shots, cursor, marks, unseen, task, mishaps, lapsed, passes>>

\* An operation is gone: scan the tree, up to the head of now.
StartScan(d) ==
    /\ At(d, "idle") /\ ckpt[d] # Tip /\ (Readable(ckpt[d], Tip) => Empty(d))
    /\ Do(d, [NoTask EXCEPT !.pc = "scan", !.head = Tip])
    /\ UNCHANGED <<bucket, shots, cursor, marks, copy, mishaps, lapsed, passes>>

\* A listed entry becomes the copy (its content is downloaded), even over a
\* newer one; with a deletion record the copy stays; so does the copy of a
\* file the tree does not list.
Scanned(d, f) == IF tree[f] = 0 \/ LogAt(Tip, f) = Gone THEN row[d][f] ELSE tree[f]

\* remote_tree_scan_blocker_count: copies the scan did not see.
Unlisted(d) == {f \in File : row[d][f] > 0 /\ tree[f] = 0}

ScanTree_Unblocked(d) ==
    /\ At(d, "scan")
    /\ row' = [row EXCEPT ![d] = [f \in File |-> Scanned(d, f)]]
    /\ unseen' = unseen \cup {<<d, f>> : f \in {g \in File : Wrong(g)}}
    /\ ckpt' = [ckpt EXCEPT ![d] = task[d].head]
    /\ Do(d, NoTask)
    /\ UNCHANGED <<bucket, shots, cursor, marks, mishaps, lapsed, passes>>

ScanTree(d) ==
    /\ At(d, "scan")
    /\ row' = [row EXCEPT ![d] = [f \in File |-> Scanned(d, f)]]
    /\ unseen' = unseen \cup {<<d, f>> : f \in {g \in File : Wrong(g)}}
    /\ ckpt' = IF Unlisted(d) = {} THEN [ckpt EXCEPT ![d] = task[d].head] ELSE ckpt
    /\ Do(d, NoTask)
    /\ UNCHANGED <<bucket, shots, cursor, marks, mishaps, lapsed, passes>>

-----------------------------------------------------------------------------
(* What stops a device, or makes the others stop waiting for it.           *)

\* A crash or an error: a put that follows a commit is not made again, and a
\* maintenance pass starts over.
Stop(d) ==
    /\ ~At(d, "idle") /\ mishaps < MaxMishaps
    /\ torn' = IF At(d, "meta") THEN torn \cup {task[d].seq} ELSE torn
    /\ Do(d, NoTask)
    /\ mishaps' = mishaps + 1
    /\ UNCHANGED <<bucket, snap, latest, thin, most, cursor, marks, copy, lapsed, passes>>

\* Silent past the stale days.
Lapse(d) ==
    /\ At(d, "idle") /\ mishaps < MaxMishaps /\ reg[d] = "fresh"
    /\ reg' = [reg EXCEPT ![d] = "stale"]
    /\ mark' = [mark EXCEPT ![d].age = IF @ = "fresh" THEN "stale" ELSE @]
    /\ mishaps' = mishaps + 1 /\ lapsed' = lapsed \cup {d}
    /\ UNCHANGED <<bucket, shots, cursor, copy, task, passes>>

\* retire-device of the command line.
Retire(d) ==
    /\ mishaps < MaxMishaps /\ mark[d].age # "retired"
    /\ mark' = [mark EXCEPT ![d].age = "retired"]
    /\ mishaps' = mishaps + 1 /\ lapsed' = lapsed \cup {d}
    /\ UNCHANGED <<bucket, shots, cursor, reg, copy, task, passes>>

-----------------------------------------------------------------------------
(* The maintenance pass: a snapshot when enough operations came since the  *)
(* last one, the watermark, the deletion of old operations, the pruning of *)
(* snapshots.                                                              *)

Step(d, pc) == Do(d, [task[d] EXCEPT !.pc = pc])

Described == {s \in Seqs : snap[s].meta}    \* those with a metadata.json
Newest == IF Described = {} THEN 0 ELSE Max(Described)
Covered(s) == IF s = 0 THEN 0 ELSE snap[s].cov

\* op_count_since: from the head down to the covered one or to a missing one.
Since(head, cov) ==
    Cardinality({i \in 1..head : Readable(i - 1, head) /\ cov \notin i..head})

\* head_reaches: a walk down the chain from head.
Reaches(head, cov) == cov # 0 /\ head # 0 /\ cov <= head /\ Readable(cov, head)

MRegister(d) ==
    /\ At(d, "idle") /\ passes < MaxPasses /\ passes' = passes + 1
    /\ reg' = [reg EXCEPT ![d] = "fresh"]
    /\ Do(d, [NoTask EXCEPT !.pc = "snap", !.head = Tip])
    /\ UNCHANGED <<bucket, shots, cursor, mark, copy, mishaps, lapsed>>

\* The newest metadata is read; is a snapshot due?
MSnap(d) ==
    LET due == /\ task[d].head # 0 /\ task[d].head # Covered(Newest)
               /\ Since(task[d].head, Covered(Newest)) >= Interval
    IN
    /\ At(d, "snap")
    /\ due => Newest < MaxSeq
    /\ Do(d, IF due THEN [task[d] EXCEPT !.pc = "tree", !.seq = Newest + 1]
               ELSE [NoTask EXCEPT !.pc = "mark", !.seq = Newest])
    /\ UNCHANGED <<bucket, shots, cursor, marks, copy, mishaps, lapsed, passes>>

\* The tree is listed, then write_snapshot_for_head: tree.json, metadata.json, LATEST.
MPutTree(d) ==
    LET s == task[d].seq IN
    /\ At(d, "tree")
    /\ snap' = [snap EXCEPT ![s].tree = tree, ![s].listed = TRUE]
    /\ thin' = IF \E f \in File : Wrong(f) THEN thin \cup {s} ELSE thin
    /\ torn' = IF snap[s].listed THEN torn \cup {s} ELSE torn
    /\ Step(d, "meta")
    /\ UNCHANGED <<bucket, latest, most, cursor, marks, copy, mishaps, lapsed, passes>>

MPutMeta_HeadOfNow(d) ==
    LET s == task[d].seq IN
    /\ At(d, "meta")
    /\ snap' = [snap EXCEPT ![s].cov = Tip, ![s].meta = TRUE]
    /\ torn' = IF s <= Newest \/ task[d].head < most THEN torn \cup {s} ELSE torn
    /\ most' = Max({most, task[d].head})
    /\ Step(d, "latest")
    /\ UNCHANGED <<bucket, latest, thin, cursor, marks, copy, mishaps, lapsed, passes>>

MPutMeta(d) ==
    LET s == task[d].seq IN
    /\ At(d, "meta")
    /\ snap' = [snap EXCEPT ![s].cov = task[d].head, ![s].meta = TRUE]
    /\ torn' = IF s <= Newest \/ task[d].head < most THEN torn \cup {s} ELSE torn
    /\ most' = Max({most, task[d].head})
    /\ Step(d, "latest")
    /\ UNCHANGED <<bucket, latest, thin, cursor, marks, copy, mishaps, lapsed, passes>>

MPutLatest(d) ==
    /\ At(d, "latest")
    /\ latest' = task[d].seq
    /\ Do(d, [NoTask EXCEPT !.pc = "mark", !.seq = task[d].seq])
    /\ UNCHANGED <<bucket, snap, torn, thin, most, cursor, marks, copy, mishaps, lapsed, passes>>

\* The metadata is read (again after a write), and the watermark put for the
\* head this device has applied.
MMark(d) ==
    LET s == task[d].seq IN
    /\ At(d, "mark")
    /\ mark' = [mark EXCEPT ![d] =
                  [age |-> "fresh",
                   seq |-> IF Reaches(ckpt[d], Covered(s)) THEN s ELSE 0]]
    /\ Do(d, [task[d] EXCEPT !.pc = IF s = 0 THEN "prune" ELSE "check",
                              !.cov = Covered(s)])
    /\ lapsed' = IF Reaches(ckpt[d], most) THEN lapsed \ {d} ELSE lapsed
    /\ UNCHANGED <<bucket, shots, cursor, reg, copy, mishaps, passes>>

\* active_registered_device_ids, active_watermarks
Registered == {d \in Dev : reg[d] = "fresh" /\ mark[d].age # "retired"}
Active == {d \in Dev : mark[d].age = "fresh"}

\* load_or_initialize_cursor
Loaded(d) ==
    IF \/ cursor.seq \in 1..task[d].seq /\ (cursor.next # 0 \/ cursor.pending # {})
       \/ cursor.seq = task[d].seq
    THEN cursor
    ELSE [seq |-> task[d].seq, pending |-> {},
          next |-> IF task[d].cov \in kept THEN task[d].cov - 1 ELSE 0]

\* compactable_ancestors: at most Batch operations down from next, each still
\* there and past its retention days; time is not modelled, so that any of
\* them may be the first that is too young.
Batches(next) == {n \in 0..Min({next, Batch}) : Readable(next - n, next)}
After_Below(next, n) == IF next \in kept THEN next - n - 1 ELSE 0

After(next, n) == IF n = Batch \/ next - n \in kept THEN next - n ELSE 0

\* Every device heard of lately has reached the snapshot.
Reached_Marked(seq) ==
    /\ Active # {} /\ \A e \in Active : mark[e].seq >= seq

Reached(seq) ==
    /\ Registered \subseteq Active /\ Active # {}
    /\ \A e \in Active : mark[e].seq >= seq

\* Then the deletions a stopped pass recorded come first, or the next batch.
MCheck(d) ==
    LET c == Loaded(d) IN
    /\ At(d, "check")
    /\ \E n \in Batches(c.next) : LET batch == (c.next - n + 1)..c.next IN
        Do(d, IF Reached(task[d].seq) /\ c.pending # {}
                THEN [NoTask EXCEPT !.pc = "delete", !.todo = c.pending,
                                   !.cur = [c EXCEPT !.pending = {}]]
                ELSE IF Reached(task[d].seq) /\ c.next # 0
                THEN [NoTask EXCEPT !.pc = "save", !.todo = batch,
                       !.cur = [c EXCEPT !.next = After(c.next, n), !.pending = batch]]
                ELSE [NoTask EXCEPT !.pc = "prune"])
    /\ UNCHANGED <<bucket, shots, cursor, marks, copy, mishaps, lapsed, passes>>

MSave(d) ==
    /\ At(d, "save")
    /\ cursor' = task[d].cur
    /\ Do(d, [task[d] EXCEPT !.pc = IF task[d].todo = {} THEN "prune" ELSE "delete",
                              !.cur.pending = {}])
    /\ UNCHANGED <<bucket, shots, marks, copy, mishaps, lapsed, passes>>

\* One delete request per step, in chain order from the newest.
MDelete(d) ==
    LET i == Max(task[d].todo) IN
    /\ At(d, "delete")
    /\ kept' = kept \ {i}
    /\ Do(d, [task[d] EXCEPT !.todo = @ \ {i},
                              !.pc = IF task[d].todo = {i} THEN "clear" ELSE "delete"])
    /\ UNCHANGED <<log, tree, shots, cursor, marks, copy, mishaps, lapsed, passes>>

MClear(d) ==
    /\ At(d, "clear")
    /\ cursor' = task[d].cur
    /\ Do(d, [NoTask EXCEPT !.pc = "prune"])
    /\ UNCHANGED <<bucket, shots, marks, copy, mishaps, lapsed, passes>>

\* prune_snapshots: every key of all but the newest Keep numbers.
Stored == {s \in Seqs : snap[s].listed \/ snap[s].meta}
Superfluous == {s \in Stored : Cardinality({t \in Stored : t > s}) >= Keep}

MPrune(d) ==
    /\ At(d, "prune")
    /\ snap' = [s \in Seqs |-> IF s \in Superfluous THEN NoSnap ELSE snap[s]]
    /\ torn' = torn \cup ({Newest} \cap Superfluous)
    /\ Do(d, NoTask)
    /\ UNCHANGED <<bucket, latest, thin, most, cursor, marks, copy, mishaps, lapsed, passes>>

-----------------------------------------------------------------------------
Maintain(d) ==
    \/ MRegister(d) \/ MSnap(d)
    \/ MPutTree(d) \/ MPutMeta(d) \/ MPutLatest(d) \/ MMark(d)
    \/ MCheck(d) \/ MSave(d) \/ MDelete(d) \/ MClear(d)
    \/ MPrune(d)

Sync(d) == PutEntry(d) \/ Apply(d) \/ StartScan(d) \/ ScanTree(d)

Next ==
    \/ \E d \in Dev : Maintain(d) \/ Sync(d) \/ Stop(d) \/ Lapse(d) \/ Retire(d)
    \/ \E d \in Dev, f \in File, k \in {"write", "delete"} : Commit(d, f, k)

Spec == Init /\ [][Next]_vars

-----------------------------------------------------------------------------
(* restore-bucket of the command line, run on a copy of the bucket.        *)

\* find_latest_snapshot_seq: LATEST if its tree is there, else the greatest.
Chosen ==
    LET listed == {s \in Seqs : snap[s].listed}
    IN IF latest \in listed THEN latest
       ELSE IF listed = {} THEN 0 ELSE Max(listed)

\* apply_ops_since_snapshot needs every operation after the covered one.
RestoreReads == LET c == Covered(Chosen) IN c <= Tip /\ Readable(c, Tip)

\* The restored state of f: the listed entry, then the operations replayed.
Restored(f) ==
    LET c == Covered(Chosen)
        on == {i \in c + 1..Tip : log[i].file = f}
    IN IF on # {} THEN (IF log[Max(on)].kind = "delete" THEN 0 ELSE Max(on))
       ELSE IF Chosen = 0 THEN 0 ELSE snap[Chosen].tree[f]

-----------------------------------------------------------------------------
(* Properties.                                                             *)

SnapType == [tree : [File -> 0..MaxOps], listed : BOOLEAN, cov : 0..MaxOps, meta : BOOLEAN]
CursorType == [seq : 0..MaxSeq, next : 0..MaxOps, pending : SUBSET Op]

\* The types, and what every reader of the bucket takes for granted: only
\* committed operations are stored, and the cursor is below the head.
TypeOK ==
    /\ Tip <= MaxOps /\ kept \subseteq 1..Tip
    /\ tree \in [File -> 0..Tip]
    /\ snap \in [Seqs -> SnapType] /\ latest \in 0..MaxSeq
    /\ cursor \in CursorType
    /\ reg \in [Dev -> {"fresh", "stale"}]
    /\ mark \in [Dev -> [age : {"none", "fresh", "stale", "retired"}, seq : 0..MaxSeq]]
    /\ ckpt \in [Dev -> 0..Tip] /\ row \in [Dev -> [File -> 0..Tip]]
    /\ \A d \in Dev : task[d].todo \subseteq Op /\ task[d].cur \in CursorType

\* A copy follows the log: a device whose head checkpoint is h holds of every
\* file what the log says after h, or something later, unless a tree scan
\* read that file's entry while its put was outstanding or lost.
AppliedIsApplied ==
    \A d \in Dev, f \in File :
        \/ row[d][f] = Live(ckpt[d], f)
        \/ row[d][f] > ckpt[d] \/ (row[d][f] = 0 /\ LogAt(Tip, f) = Gone)
        \/ <<d, f>> \in unseen

\* A device that reports its progress in time finds every operation it has
\* not applied: only one that fell silent or was retired, one that has not
\* synchronised yet, and one misled by a torn snapshot rebuild from the tree.
ActiveNeverRebuilds ==
    [][\A d \in Dev : StartScan(d) => d \in lapsed \/ ckpt[d] = 0 \/ torn # {}]_vars

\* restore-bucket rebuilds the tree the log describes, from any copy of the
\* bucket in which no snapshot was torn, the newest is complete, and its tree
\* was listed with no put outstanding.
RestoredUnlessExposed ==
    (Chosen \notin thin /\ torn = {} /\ latest = Newest)
        => RestoreReads /\ \A f \in File : Restored(f) = Live(Tip, f)

=============================================================================
