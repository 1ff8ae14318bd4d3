# S4Drive in TLA+

S4Drive keeps a folder of several devices in one S3 bucket. There is no server:
the devices coordinate only through objects of the bucket and the conditional
requests S3 offers (`If-None-Match: *`, `If-Match`). This directory holds TLA+
models of that protocol and of the local machinery around it, the TLC
configurations that check them and TLAPS proofs about them. Paths below are
relative to `src/src-core/src/` unless they start with `src/`.

## Inventory

The bucket holds, under `.s4drive/`:

| Object | Written by | How |
|---|---|---|
| `content/blobs/…/{hash}` | `BlobStore` | create-only; deleted by blob collection |
| `meta/ops/{op_id}` | `OperationLog` | create-only; deleted by compaction and orphan discard |
| `meta/heads/current` | `OperationLog` | compare-and-swap on the ETag |
| `meta/tree/{file_id}` | uploads, renames, notes | mostly unconditional; conditional for notes |
| `meta/snapshots/{n}` | maintenance | unconditional |
| `devices/…`, op-tail cursor | maintenance | unconditional |
| `trash/tombstones/{file_id}` | deletions | create-only; conditional replacement and deletion |
| blob leases | uploads | unconditional, expire after minutes |

| Component | State | Operations | What makes it correct | Hard part |
|---|---|---|---|---|
| Operation log (`metadata/ops.rs`) | head, chain of operations | `load_head`, `commit`, `commit_durable`, orphan discard | one chain, each change once, no lost update, true answers | several S3 calls per commit, lost replies, restarts, pruning |
| Commit journal (`fs_mutations/remote_commit.rs`) | recorded attempts of a notes change | record attempt, record commit | finds its own attempt after a crash | crash between any two steps |
| Content blobs (`metadata/blobs.rs`) | content-addressed objects | `store_file` | a key names its bytes; referenced bytes stay | deduplication against deletion |
| Blob collection (`sync/maintenance.rs`, `db.rs`) | candidate rows with a quarantine | discover, scan, delete | deletes orphans only, and all of them | references move during the scan |
| Tree (`metadata/tree.rs`) | one entry per id | get, upsert, conditional put, delete | agrees with the newest operation per id | written after the commit, mostly without condition |
| Sync engine (`sync/mod.rs`) | checkpoint of the applied head, conflicts | initial scan, upload queue, poll, download queue | no edit lost, conflicts surface, devices converge | everything interleaves with user edits |
| Transfer queue (`transfer.rs`, `db.rs`) | jobs with status and retries | enqueue, claim, retry, recover | no job lost or duplicated | restarts |
| Local publication (`fs_mutations`, `sync/download.rs`) | staged and displaced files | publish with a content token | never overwrites unseen bytes | external editors, crashes between renames |
| Compaction (`metadata/compaction.rs`, `snapshots.rs`) | watermarks, cursor, snapshots | snapshot, watermark, compact | only applied, covered, old operations go | stale devices, two compactors, crashes |
| Deletion records (`metadata/tree.rs`, `maintenance.rs`) | record per deleted id | create, replace, retire, expire | retention holds, restores win | ETag races |
| Folders (`sync/folders.rs`, `local_changes.rs`) | entries with parents | ensure, place, delete | no cycles, one folder per path, no echo of the engine's own moves | two devices move folders into each other |
| Saves of notes (`notes/mutations.rs`) | journal, staged files, tokens, upload jobs | save, recover, copy, upload | an acknowledged text is at its place, a displaced one surfaces | a stop between any two steps, other programs |
| Topology of notes (`notes/mutations.rs`, `db.rs`) | intents, rows, trash | create, relocate, delete, restore, recover, rebuild | an id keeps its entry over stops and loss of the index | crash points of each mutation |
| Publication of notes (`sync/notes_intake.rs`) | stages of intents, receipts | replay, project, acknowledge | tree is the fold of the log, synced means committed | changes made during a replay, late projections |
| Notes editor (`src/src-tauri/dist/js`) | session with generations | autosave, acknowledge, close | never reports unsaved text as saved | late acknowledgements |

They interact through the bucket, through the SQLite index of a device and, inside
one process, through the mutation coordinator's locks (lifecycle, topology,
entries, database). A device runs one sync cycle at a time; devices run
concurrently, and the user's programs run concurrently with all of it.

## Modules

| Module | Models | Composition |
|---|---|---|
| `OpLog` | the operation log and the commit journal, one S3 call per step | |
| `CommitLog` | what the log promises: requests linearised in one sequence, with true answers | implemented by `OpLog` (`ImplementsCommitLog`) |
| `OpLogProofs` | `OpLog`: types, the unbroken chain | extends `OpLog` |
| `OpLogLandingProofs` | `OpLog`: no request lands twice | extends `OpLogProofs` |
| `OpLogRefinementProofs` | `OpLog`: readable operations, the refinement of `CommitLog` | extends `OpLogLandingProofs` |
| `BlobGC` | uploads as far as they store and reference blobs, moves of references, and blob collection | |
| `BlobGCProofs` | `BlobGC`: types, no referenced byte is lost unless exposed | extends `BlobGC` |
| `Compaction` | snapshots, watermarks, deletion of old operations, polling and the tree scan it falls back to, restore-bucket | takes the chain `OpLog` builds |
| `CompactionProofs` | `Compaction`: types, copies follow the log | extends `Compaction` |
| `CompactionKeepProofs` | `Compaction`: restore-bucket, no rebuild of reporting devices | extends `CompactionProofs` |
| `FileSync` | one file kept in step by the sync passes of several devices | takes a commit as the atomic, linearised step `CommitLog` promises |
| `FileSyncProofs` | `FileSync`: types, edits lost only if exposed | extends `FileSync` |
| `Folders` | folders as nodes of the tree, a file in them, the watcher's events | commits as `CommitLog` promises, downloads as in `FileSync` |
| `NoteSave` | the life of a save of one note on one device | |
| `NoteTree` | creation, moves, deletion and restoring of folders and notes on one device, with recovery | saves are `NoteSave`'s |
| `NotesReplay` | the replay of notes' changes to the bucket by two devices | commits in detail are `OpLog`'s, saves `NoteSave`'s, local steps `NoteTree`'s |
| `NotesReplayProofs` | `NotesReplay`: types, what is synced is committed, no late projection writes older content | extends `NotesReplay` |
| `MC…` | constants, symmetry and constraints for TLC | extend the modules above |

Names ending in a suffix such as `NextBase_NoneIsNoBase` are defective variants
of the definition they are named after. They are not part of the next-state
relations; replacing a definition by its variant shows which property notices.

### OpLog

A request is a change a device wants to commit. `pc[r]` is the place of its call:
`load_head` (`HeadBefore`, `GetHead`, `HeadStable`, `HeadMoved`), the search for
an attempt of an earlier process (`Search…`), building and writing the operation
(`Prepare`, `WriteOperation`), the head PUT (`AdvanceHead`, `HeadRejected`), the
journal (`RecordCommitted`) and the check after a lost race (`Verify…`). `stage`
says why the head is being loaded. Requests in `Durable` have a journal
(`attempts`, `confirmed`), which survives `Fail`; all else of a call is lost.
`LatePut` is a head PUT that arrives after its client gave up; `Prune` is
compaction deleting an operation object. The ghost `since` is the head the
request was first decided on, `refused` the requests ever answered with a verified
conflict.

A head value is its position in `log`; the ETag of the head object is the same
number since a head value is never written twice. A walk along `base_head` is one
step, as operation objects are immutable; it stops at the first pruned one.

### BlobGC

A job is a pair of device and file, and its upload runs through the phases of
`store_file` and `process_upload_queue`: HEAD, PUT, hash check, lease, commit,
tree entry, release. `content[j]` is what the local file holds now, `hashed[j]`
what the attempt computed; an `Edit` in between makes the PUT leave other bytes
under the key (`bad`). `UploadFails` is a failed call or a stop of the process;
its last call may have taken effect. References live in leases, operations, tree
entries, deletion records and snapshots; `WriteRecord`, `DeleteEntry`,
`RestoreEntry`, `RetireRecord`, `TakeSnapshot` and `PruneOp` move them as the
code does. `TakeSnapshot` lists the tree and writes the snapshot in one step. The
sweep of a device reads the places in the order of `remote_blob_is_referenced`, one
per step, the kept snapshots among them, then deletes. `Referenced` counts tree
entries, deletion records, retained operations and kept snapshots.

Time is relative: an attempt, deletion or sweep lasts minutes at most, retention
and quarantine months, so the ends of the latter are steps of a quiet system
(`Quiet`). Only a lease may expire under a running attempt, when the device
sleeps; that counts as a fault. A failed read of the tree entry by `delete_file`
is not modelled.

`exposed` collects the contents whose new reference a deletion could have missed:
the lease was put while a sweep had passed its lease check, while another upload
had yet to verify the blob, when the bytes were not (or no longer) those of the
key, when a lease expired under its attempt, or a restore ran during a sweep.

### FileSync

A device runs one pass at a time: `plan[d]` is what is left of it, a sequence of the
stages of `run_sync_cycle` or `run_initial_sync` (`collect` the watcher's events,
`up`, `poll`, `down`, `scan`, and `missing` for maintenance), `step[d]` the place in
the first one, `mem[d]` what it has read. Every await at which another device or
the user can come in is a boundary of steps: reading the bytes to upload, the head,
the tree, the commit, the tree write, the index; reading an operation and acting on
it; staging, comparing, exchanging and copying at a download. `idx`, `open`,
`known` and `ckpt` are the file's rows in the index, `up` and `down` its transfer
jobs, `log` its operations in the bucket, `tree` its tree entry.

Contents are sets of edits. Every save adds an edit nobody made before, so a
content tells whose work it holds, and a merge is one of sets. `copied` and `trash`
hold what conflict copies and the local trash keep. The file is known and in sync
on all devices at the start; creation, renames, the remote tree scan after
compaction, jobs of notes and the user's choice in a conflict are not modelled.
The size and time check that saves hashing a file is taken as exact. A conflict copy
is made of the bytes the file has at that moment. `Restart` may come between any two
steps; `Fails` are failed requests and passes whose job limit other files use up.

`exposed` collects the edits that were on disk when the code stopped guarding
them: when an upload job failed without a copy (`GiveUp`), when a merge was
written over the file, when a download or a deletion was decided over bytes saved
since the comparison, and when a second save met the exchange of a publication. A
deletion moves the file to `.s4drive/trash/local/<file_id>-<name>`
(`sync/mod.rs:3189`); a save made between the comparison and that move is in this
slot only, and the next deletion of the same file replaces it.

`met` keeps what each mishap hit. `AtRestIsLatest` and `NoSilentOverwrite` are exempt
from two hits only (`Blind`): the tree lookup of an upload that failed
(`sync/mod.rs:1947`), after which the check for divergence is skipped, and a stop
between the commit of an upload and its tree entry or index row, after which the
device takes its own revision for a foreign one and a poll may take the file back to
it. All other failed requests, restarts, deletions and filled passes are checked, but
for what the comments of the two properties name: a file a user removed, and a full
pass that left a download behind.

### Compaction

Operations are numbered along the chain; a tree entry, a copy and a checkpoint are
numbers of operations. A device commits (`Commit`, `PutEntry`), polls (`Apply`, or
`StartScan` and `ScanTree` when an operation is gone) or runs a maintenance pass,
one request per step: registration, the decision on a snapshot, `tree.json`,
`metadata.json`, `LATEST`, the watermark, the check of all watermarks, the cursor
with its pending deletions, one delete per step, the pruning of snapshots. `Stop`
may come anywhere, `Lapse` and `Retire` take a device out of the ones waited for.
Uploads are of files whose newest content the device holds, as `FileSync` has the
rest. `torn`, `thin`, `unseen` and `lapsed` name the cases in which the code gives
no more than it says: a snapshot number written twice, in part, below a newer one or
for an older head, or the newest complete snapshot pruned for one still being
written (`torn`), a tree listed or scanned with puts outstanding, a device that fell silent.

### Folders

Paths are sequences of names, ids are the hashed parent, name and generation. A
device drains the watcher's events, handles them, uploads and polls; every write
to the bucket is a step, users and the other device come between. The poll of a
device's own write takes the parent of the row from the tree (`sync/mod.rs:2451-2482`);
that of another device's puts the file where the tree has it. A conflict keeps a copy
beside the file and an open record in `conflicts`; the deletion record of another
deletion is an error, which ends the cycle and loses the events it had drained (`Fail`).

`exposed` tags the ways in which a cycle acts on what no longer holds: a folder that
went away and back within a drain ("round trip"), a name chased while it is taken
("name taken"), a cycle of two moves that no operation resolves ("cycle"), a path or a
parent taken from an entry that is behind the log ("late entry"), a revision that
lands where the tree has its file by now and leaves the copy at the row's path ("left
behind"), a thing moved out of a folder that is deleted ("moved out"), a parent gone, a
copy the user has to settle ("conflict"), a failed cycle ("events lost"), an event or a
move of the user that is stale. `IndexIsTree`, `NoEcho` and `Agree` are claimed outside
them. A device is at rest for `Agree` when its cycle, its watcher and its uploads have
nothing left and its checkpoint is the head, whatever is on its disk.

### NoteSave

Files are inodes, so that a link, an exchange and a program with an open file are
what they are. A save writes its journal, a staged file and an exchange, looks at
the displaced file again, and tells the index, the journal and the editor; a
stop may come between any two steps, and every later operation begins with the
recovery, which reads the displaced files a second time before it writes the index
(`notes/mutations.rs:1209`). Uploads are bound to the generation they were queued for.

### NoteTree

A mutation is its checks, its intent, its moves on disk and its writes of the
index, each a step of its own; another program and a stop come between, and the
next mutation recovers first. A mutation takes an inventory of the live rows, and is
refused when one has no entry on disk. Another program may move, add, remove or
replace (`OtherReplaces`, a save by renaming over the note) between any two steps, also
between the check of an entry's identity and the rename of what has its name by then;
`put` remembers where it put its own entry. Such an entry is given back
(`notes/mutations.rs:2129`), unless the process stops first; one that comes between the
rename and the look at what was moved is given back to the old name in place of the
mutation's own. The index may be lost at a stop while the root is in its place, and is
then rebuilt from disk and intents; its loss while the root is away is left out. Creating notes, limits of size and depth, transfers,
`ensure_rebuild_identities`, an entry of another type at a row's path and the
relocation of a root marked "conflicted" are not modelled.

### NotesReplay

The journal of a device holds its intents; a sync cycle replays those not yet
committed, uploads saved notes (one step) and polls. An intent goes through its
parents, existing folders, deletion record, prior commit, commit, projection and
acknowledgement, one request per step. The receipt (`acked`) learns of a commit in the
step of the head PUT; `CommitUnseen` is a stop or a lost reply in between, after which
the operation is in the log and not in the receipt. A poll reads the head once, applies
the operations up to it one by one and moves the checkpoint at its end, so that a stop
repeats the batch.

`exposed` tags what the code leaves open ("late drop", "rename lost", "late
observation", …): the comments of `TreeIsLog`, `DevicesAgree` and `RetentionIsFresh`
say which excuse what. `SyncedIsCommitted` uses no tag: `hidden` names the changes, one
by one, that an acknowledgement, a poll or an upload may cover, and every other is held
to the property. `NeverOlder` has no exemption either: each step that writes an entry is
judged by the entry it replaces.

## Runs

| Run | Question | Result |
|---|---|---|
| `oplog` | Is the log one chain, each request in it at most once, every operation readable unless pruned, are answers true, does every call return, is every durable request settled, and does the log implement `CommitLog`? | holds |
| `blobgc_safety` | Are bytes that an entry, record, operation or kept snapshot refers to lost only when exposed? | holds |
| `blobgc_live` | Is every orphan collected? | holds |
| `filesync_safety` | With a third edit, or a failed request, restart, deletion or filled pass anywhere: are edits lost only when exposed, and, but for a failed tree lookup and a stop between a commit and its records, has a device at rest the newest revision, and does no upload take another's work out? | holds |
| `filesync_live` | Do devices converge and edits surface, also when a pass is filled by other jobs? | holds |
| `filesync_lostrace` | Is no edit ever lost? | violated |
| `notesave` | Does an acknowledged save displace only what it expected, do displaced texts surface, does an acknowledged text stand, does "synced" cover the newest save, does every interruption settle? | holds |
| `compaction` | Do copies follow the log, does no reporting device have to rebuild, does restore-bucket restore? | holds |
| `folders` | Are index paths those of the tree, do the engine's own acts stay without echo, do devices agree at rest? | holds |
| `replay` | Is the tree the fold of the log, does "synced" mean committed, do devices agree, is every retention fresh, does no late write put older content back? | holds |
| `replay_move` | Does an edit keep the note where a concurrent move put it? | violated |
| `notetree` | Does an id keep its entry, is everything recovered before a mutation begins, is a refused mutation undone? | holds |

**What the violations show.** `filesync_lostrace`: an upload that loses the race of
its commit is given up without a copy and leaves a row that looks synced, over which
the next poll downloads (`sync/mod.rs:2122`), against
`docs/spec/reliability-spec.md:9`. `LostOnlyIfExposed` bounds it: outside the named
places no interleaving and no single failure, restart or deletion loses an edit.
`replay_move`: the upload of a saved note writes its entry with the place the
bucket's tree entry has at that moment, and a move already committed whose projection
is still to come counts as superseded by that upload, so the note stays where it was (`metadata/ops.rs:427`,
`sync/mod.rs:2069`, against `docs/spec/conflict-policy.md:17,28`).

**Bounds.** `OpLog`: two requests on one file, one of them durable, and a plain
one on another file, so each run has a competitor that conflicts and one that only
moves the head; two attempts per call (lose once, win or give up), two head loads,
walks of three operations (as long as the chain gets), one fault, which is a lost
reply or a stop. `BlobGC`: one file uploaded by two devices with two contents, so
one supersedes the other; a third device collects; one edit or one fault
(`OneMishap`). In the liveness run the collecting device itself uploads, with an
edit and without a fault. One snapshot is kept.

`FileSync`: two devices, as every hazard here is between one that commits and one
that follows. Three saves of a text file, so that a merge and a third save meet: two
by one device before the other polls, and one against them. A mishap takes the place
of one of the three, a deletion that of two (`OneMishapOrThreeEdits`): what a mishap
interrupts is every step of a race of two saves. Two retries, so that a job can fail
once and succeed or be given up. `filesync_live` checks a file that is not merged, and
a full pass. A failed request or a restart it leaves out: with two saves convergence
then fails in the model. An upload whose process stopped after the commit does not
know its own revision, and one whose tree lookup failed succeeds a revision its
device never saw; the poll then meets that older revision after the upload and rolls
the device's file back, with the checkpoint at the head and nothing left to correct
it (`EditsSurface` still holds).

`Compaction`: one file, two devices, three operations, two snapshot numbers, two
passes, batches of two and one mishap: enough for a stopped batch, two devices
compacting at once, and a device that returns below a snapshot. `Folders`: two devices
share two folders and a file; two acts of users, which already cross in every pair
of kinds. `NoteSave`: two saves of different texts, one text of another program, a
stop and a request sent again. `NotesReplay`: a folder and a note, two devices, three
changes, or two with a stop, a record that is not removed or one that expires; with
the last two, also three creations, deletions and restores.
`NoteTree`: two requests, two fresh ids, two names that differ in case only besides
an initial folder with a note, a stop, a loss of the index, one act of another
program, on a file system that tells case apart; a second act would let another program
both vacate and take a name, which `OtherReplaces` does in one step. Symmetry is used over devices,
contents and edits in runs without liveness properties only.

**Fairness.** `OpLog`: a started call runs on its executor (weak fairness of its
steps), and the sync cycle starts and replays durable requests as long as their
journals exist; pruning, faults and late PUTs owe nothing. `BlobGC`: the
daemon processes its queue and finishes deletions, time passes, and every
maintenance pass lists candidates and sweeps the due ones in batches, so each
candidate gets its turn although a sweep may be busy with another (strong
fairness). Edits, deletions, restores and faults owe nothing. `FileSync`: the loop of
a running device takes its steps and starts its next pass (weak fairness per device);
users and mishaps owe nothing and are bounded. Convergence after a deletion is not
claimed: which pass runs next is free, and one that never collects events and meets
no due maintenance does not see it. `NoteSave`: a running operation goes on, the
uploader runs, and a recovery is tried again at the next call, of which there is
always one, as the tree is listed.

Deadlock is checked for `FileSync`, whose loop never stops. In the other modules all
requests, acts of users or bounded operations may be done.

## Proofs

All theorems hold for any sets and any values of the constants that satisfy the
assumptions named in the modules.

| Theorem | States | Assumptions used |
|---|---|---|
| `OpLogProofs!TypeCorrect`, `ChainHolds` | `[]TypeOK`, `[]ChainUnbroken` | `DurableAssumption`, `TargetAssumption`, `LimitAssumption` |
| `OpLogLandingProofs!OnceHolds` | `[]CommittedOnce` | the same |
| `OpLogRefinementProofs!ReadableHolds` | `[]CommittedReadable` | the same |
| `OpLogRefinementProofs!Implements` | `ImplementsCommitLog` | the same |
| `BlobGCProofs!TypeCorrect`, `BytesKept` | `[]TypeOK`, `[]LostOnlyIfExposed` | those on sweepers, jobs, contents, snapshots kept and bounds |
| `CompactionProofs!TypeCorrect`, `AppliedHolds` | `[]TypeOK`, `[]AppliedIsApplied` | `CompactionAssumption` |
| `CompactionKeepProofs!RestoreHolds`, `ActiveHolds` | `[]RestoredUnlessExposed`, `ActiveNeverRebuilds` | the same |
| `NotesReplayProofs!TypeCorrect`, `SyncedHolds`, `NeverOlderHolds` | `[]TypeOK`, `[]SyncedIsCommitted`, `NeverOlder` | `BoundsAssumption` |
| `FileSyncProofs!TypeCorrect`, `EditsKept` | `[]TypeOK`, `[]LostOnlyIfExposed` | `RetryAssumption`, `MishapAssumption`, `GoneAssumption` |

**`ChainHolds`.** `AdvanceHead` appends an operation whose base is right only because
`load_head` paired the value of the head with its ETag. `CoreInv` adds what that
needs. `LoadInv`: the head a call holds is the one its ETag stands for, and while a
load is under way what was read lies between the first ETag seen and the head now.
`BaseInv`: an operation being written or sent builds on the head its call holds, and
an attempt that lost builds on an older one. `LandsOnBase`: every PUT left in flight
is conditional on the base of its operation.

**`OnceHolds`.** A head PUT lands only while the log is as long as the base of its
operation. `LandedInv` and `NewestInv`: what can still land of a request has no base
above that of an operation of it that landed, so it cannot land again. A new attempt
keeps this because the search for the earlier ones reads the chain down to the oldest
base in the journal (`JournalInv`), and a rebased call reads it down to the base of
the attempt that lost. The invariant is about one request at a time; one frame lemma
(`OtherStep`) covers the steps of all others.

**`ReadableHolds`.** An orphan is deleted only when its base is already below the head
and it did not land, so it never will; `StoredInv` says that whatever may land next
has its object, unless compaction took it.

**`Implements`.** The refinement mapping takes the log as it is, the head a request was
first decided on, and what its caller was told. `DecidedInv`: between that head and
the base of whatever can still land of the request nothing touches its target.
`AnswerInv`: what a caller was told stays true. Initial states map to initial states,
a landing to the atomic commit, a return to an answer, all else to a stutter.

**`BytesKept`.** A sweep reads the places a reference may be in one after another, then
deletes. References move the other way: a lease becomes an operation and a tree entry
before it is released, a tree entry becomes a deletion record before it goes, and a
snapshot names only what the tree names when it is taken.
`KeptInv` says that what a sweep has read stays without a reference to its candidate
(`ScanClean`), that what is needed has its bytes (`BytesThere`), that nobody needs the
bytes an upload still compares with its file and may delete (`NoneNeedsUnchecked`),
that an upload past its lease has it (`LeaseHeld`) and that a device runs one upload
at a time (`OneUpload`): each unless the content is exposed. `MovesOn` is what a single
step has to satisfy; every action is shown to.

**`AppliedHolds`.** A copy or tree entry names an operation on its own file (`CopyInv`,
`TreeInv`), so a copy later than the checkpoint cannot be passed over by a poll
that finds nothing newer on the file; a scan advances the checkpoint to a head that
was current when it began (`TaskInv`), and an entry that is its file's last
operation is right for any such head. The lemmas on `LogOf` say what a log tells of
a file, that its answer stays when the log grows, and that operations on other
files do not matter; `MaxOf` gives the maximum of a bounded set of numbers. Nothing
is committed over a deletion, as no device holds a copy to commit from.

**`RestoreHolds`, `ActiveHolds`.** Compaction deletes below three marks at once. `MostInv`:
whatever is deleted, or pending deletion, is at most the highest head a snapshot
covered. `HeardInv`: it is at most the checkpoint of every device that reports, whose
watermark every later pass must read before it deletes. `WritingInv` and `OrderInv` say
that the numbers of snapshots and the heads they cover rise together, so the newest one
covers the most, and `ListedInv` that a tree listed with no put outstanding is the tree
after the head it covers. What restore-bucket replays over the newest tree is therefore
all there. `OrderInv` and `HeardInv` are claimed while nothing is torn.

**`SyncedHolds`, `NeverOlderHolds`.** `LogInv`: every operation with a request is that of
one intent, which has been decided and says the same, and no other carries it out; a replay tried
again finds it. `TreeInv` and `RunInv` relate what a run read to what it holds: while it
is on the way to project an operation, the version of the entry it read was that of no
newer operation, so its conditional put cannot go over one; and the intents of a run
are handled in their order, so that none before the current one waits but saves.
`RowInv`: a row that is synced, or of a note that a poll removed while it was, has no
change waiting in the journal but those in `hidden`;
`PlaceInv` bounds where entries and rows are.

**`EditsKept`.** An edit is safe in the log, in a copy, or if it was exposed or dropped.
`MadeInv` says that every edit made is safe or on a disk; the rest says that what a step
takes off a disk is safe. A poll, a download and a deletion compare the disk with the row
of the index. `RowInv`: the bytes the row names are safe once the upload stage of the pass
is over; before that they are on disk with an upload job waiting or under way, and the upload holds them.
`TakenInv` and `SlotsInv` carry this over the awaits: what a pass noted as safe to replace
stays safe, as does what the trash slot and the decision of a download hold.
`ControlInv` ties the place in the pass to what it has read. `Advances` is what one step
of one device has to satisfy (only its own rows change, safe bytes stay safe, what was on
its disk is kept), and `AdvancesKeeps` shows once that this is enough for all devices.

TLC checked the strengthened invariants too: those of `OpLog` on the instance of its run
and on one with two durable requests and two faults, those of `BlobGC`, `FileSync`
(`KeptInv`), `Compaction` (`FollowsInv`, `KeepInv`) and `NotesReplay` (`IInv`) on the
instances of `blobgc_safety`, `filesync_safety`, `compaction` and `replay`.

**What the proofs found.** With one snapshot kept and three devices or more, a pass that
is overtaken may write a number below the newest, or for an older head, and pruning may
take the newest complete snapshot: the exemption `torn` did not cover this, and the two
devices of the run could not show it. With two deletions of one file, more than the run's
bounds allow, the second replaces what the first took to the trash slot: a deletion
counts as a place that exposes edits.

**Only model-checked.** All liveness (`CallsReturn`, `DurableSettles`,
`OrphansCollected`, `Converges`, `EditsSurface`, `Settles`): temporal proofs from fairness
are out of the prover's reach. `TreeIsLog` and `DevicesAgree` of `NotesReplay`: they
compare with a fold of the log, and what a fold computes when the log grows needs
induction over data. Its `RetentionIsFresh`, `AtRestIsLatest` and
`NoSilentOverwrite` of `FileSync`, and everything about `Folders`, `NoteSave` and `NoteTree`, which were not reached.

## Observations

Behaviour the models follow and a reader of the documents may not expect. None of
these is a run of its own; the first ones are the exemptions named in the properties.

*Blobs.* Upload and collection have no common lock. A sweep that found no lease,
entry and operation deletes the blob without condition (`sync/maintenance.rs:605`),
while an upload that met the same blob (`metadata/blobs.rs:92`) may have leased
(`sync/mod.rs:1858`) and committed it behind the scan. The hash check of `store_file`
comes after the PUT, so that another upload may take wrong bytes for the content in
between, against the comment at `metadata/blobs.rs:84-86`.

*Files.* The row of a file is updated ahead of its bytes: two remote revisions in one
poll give an edit conflict without a local edit (`docs/spec/conflict-policy.md:47`),
and when a pass is filled by other jobs a save of the old bytes is uploaded as the
successor of the revision not downloaded yet (`:15-16`).

*Compaction.* The head is read before the newest snapshot's metadata, so a slow pass
can write a higher number for an older head; a stop between `metadata.json` and `LATEST`
leaves `LATEST` behind; two devices may write one number; with one snapshot kept, the
complete one may be pruned while the newest is half written; a tree scan passes over
an entry still to be written; a snapshot between a commit and its entry covers the
commit and lacks the file (`sync/maintenance.rs:262`, against
`docs/spec/disaster-recovery.md:38`); a copy whose deletion was compacted blocks the
checkpoint of its device for good.

*Folders.* A move into each other is undone locally without an operation
(`docs/spec/sync-semantics.md:76`), a name that is taken may be chased (`:75`), and
entries written late lag behind the log (`:74`): the poll of a device's own write then
gives its row the parent of an older placement. A revision of another device is
downloaded to where the tree has the file; a copy at the row's former path stays. A
cycle that fails on another deletion's record loses the events it had drained.

*Notes.* A restore whose commit was not acknowledged observes the deletion record it finds
when it is retried, which may be that of a newer deletion (`sync/notes_intake.rs:399`). A
change made after a replay read the intents is called synced by the acknowledgement of
an older one until it is published itself (`:61`). A save refused after a stop leaves its text only in the journal
(`notes/mutations.rs:1116`). A leftover preimage link makes a clean save answer
Conflict with no copy. An intent that conflicts aborts the replay and with it the
sync cycle (`sync/mod.rs:717`). A pending move whose source folder another program
removed makes every recovery fail as not available (`notes/mutations.rs:1971`). An
intent pending while a root that was away comes back has an older sequence than the
root's; if the index is then lost, the rebuild applies the root's intent again over it
(`db.rs:864`).

## Plan

Proofs: `AtRestIsLatest` and `NoSilentOverwrite` of `FileSync` (on top of its `KeptInv`),
`AckedOverExpected` of `NoteSave`, `IdKeepsEntry` of `NoteTree`, `NoEcho` of `Folders`,
`RetentionIsFresh` of `NotesReplay`, and the type invariants of `NoteSave`, `NoteTree` and
`Folders`.

Models: the user's resolution of a conflict and the restoring of versions (on top of
`FileSync`), the scheduling of passes by the shells with pause and exit, the loss of the
sync folder and its recovery, backups of notes, the remote tree scan and the creation of a file on
two devices.

## Not modelled

The loss of the sync folder (`sync/folder_recovery.rs`), the resolution of conflicts, creation
and renames of ordinary files, initialisation and upgrades of the bucket and the
editor session wait for the plan above or for later. Formats and serialisation,
credentials, archive I/O of backups, diagnostics, the shells (desktop, mobile, command
line) and user interface rendering keep no shared state or only call the core. S3
itself is taken as strongly consistent per key, with atomic conditional requests, as
the compatibility probe (`s3/compatibility.rs`) demands.
