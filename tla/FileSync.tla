------------------------------ MODULE FileSync ------------------------------
(***************************************************************************)
(* One file kept in step by the sync passes of several devices: what       *)
(* sync/mod.rs, sync/remote_changes.rs, sync/local_changes.rs and          *)
(* sync/download.rs do to it between the user's disk, the local index, the *)
(* transfer queue, the operation log and the file tree of the bucket.      *)
(*                                                                         *)
(* Contents are sets of edits: every save of the user adds one edit no     *)
(* file had before, so the model can tell, of any bytes, whose work they   *)
(* hold.  A revision is the position of its operation in the log.  The     *)
(* file is known to every device and in sync at the start.  A pass is one  *)
(* task per device: its stages run in order, and what it reads before an   *)
(* await is kept in mem and used after it.                                 *)
(***************************************************************************)
EXTENDS Naturals, Sequences, FiniteSets

CONSTANTS
    Devices,        \* devices syncing the folder
    Edits,          \* the saves users will make
    Gone,           \* no file at a path
    Text,           \* whether is_text_file holds of the file
    MaxRetries,     \* sync.max_retries
    Mishaps,        \* what may happen besides saves and passes
    MaxMishaps      \* bound: how often any of it does

ASSUME TextAssumption == Text \in BOOLEAN
ASSUME RetryAssumption == MaxRetries \in Nat \ {0}
ASSUME MishapAssumption ==
    /\ Mishaps \subseteq {"fault", "restart", "delete", "full"}
    /\ MaxMishaps \in Nat
ASSUME GoneAssumption == \A bytes \in SUBSET Edits : bytes # Gone

VARIABLES
    log,        \* the operations on the file, oldest first
    tree,       \* revision of the file's tree entry, 0 when there is none
    disk,       \* bytes at the file's path and at the path named by its id
    copied,     \* edits kept in conflict copies and other files
    trash,      \* edits in the local trash slot of the file
    events,     \* watcher events not drained yet
    idx,        \* the file's row of the objects table
    up,         \* its upload job
    down,       \* its download job
    open,       \* types of its open conflict records
    ckpt,       \* REMOTE_HEAD_CHECKPOINT
    known,      \* revisions in the revisions table
    plan,       \* stages the running pass has left
    step,       \* where the first of them stands
    mem,        \* what that stage has read
    made,       \* history: edits each user made
    dropped,    \* history: edits their user deleted with the file
    exposed,    \* history: edits on disk when the code stopped guarding them
    met         \* history: the mishaps that happened

remote == <<log, tree>>
index  == <<idx, open, ckpt, known>>
jobs   == <<up, down>>
files  == <<disk, copied, trash>>
pass   == <<plan, step, mem>>
past   == <<made, dropped, exposed>>
vars   == <<remote, index, jobs, files, pass, past, events, met>>

-----------------------------------------------------------------------------
Content == SUBSET Edits
Paths == {"path", "stray"}

Bytes(bytes) == IF bytes = Gone THEN {} ELSE bytes

Write(bytes) == [kind |-> "write", content |-> bytes]
Delete == [kind |-> "delete", content |-> {}]

\* The newest operation among the first n that gave the file a revision.
NewestWrite(n) ==
    CHOOSE r \in 1..n : /\ log[r].kind = "write"
                        /\ \A q \in (r + 1)..n : log[q].kind # "write"

\* A three-way merge without overlapping changes.
Merge3(base, local, other) ==
    (local \cap other) \cup (local \ base) \cup (other \ base)

NoUpload == [status |-> "none", retries |-> 0, path |-> "path"]
Upload(path) == [status |-> "queued", retries |-> 0, path |-> path]
NoDownload == [status |-> "none", retries |-> 0, path |-> "path",
               content |-> {}, decided |-> Gone]
Download(path, bytes, decided) ==
    [status |-> "queued", retries |-> 0, path |-> path,
     content |-> bytes, decided |-> decided]

NoMem == [read |-> Gone, path |-> "path", base |-> 0, at |-> 0,
          expect |-> Gone, kept |-> FALSE, again |-> FALSE]

\* The passes: run_sync_cycle, and run_initial_sync of a start.
Cycle == <<"collect", "up", "poll", "down", "missing">>
Initial == <<"up", "down", "scan", "up", "poll", "down", "missing">>

Init ==
    /\ log = <<Write({})>>
    /\ tree = 1
    /\ disk = [d \in Devices |-> [path |-> {}, stray |-> Gone]]
    /\ copied = [d \in Devices |-> {}]
    /\ trash = [d \in Devices |-> {}]
    /\ events = [d \in Devices |-> {}]
    /\ idx = [d \in Devices |->
                [hash |-> {}, rev |-> 1, state |-> "synced", path |-> "path"]]
    /\ up = [d \in Devices |-> NoUpload]
    /\ down = [d \in Devices |-> NoDownload]
    /\ open = [d \in Devices |-> {}]
    /\ ckpt = [d \in Devices |-> 1]
    /\ known = [d \in Devices |-> {1}]
    /\ plan = [d \in Devices |-> <<>>]
    /\ step = [d \in Devices |-> "begin"]
    /\ mem = [d \in Devices |-> NoMem]
    /\ made = [d \in Devices |-> {}]
    /\ dropped = {}
    /\ exposed = {}
    /\ met = <<>>

-----------------------------------------------------------------------------
(***************************************************************************)
(* Control of a pass.                                                      *)
(***************************************************************************)
At(d, stage, here) ==
    /\ plan[d] # <<>>
    /\ Head(plan[d]) = stage
    /\ step[d] = here

Goto(d, there, noted) ==
    /\ step' = [step EXCEPT ![d] = there]
    /\ mem' = [mem EXCEPT ![d] = noted]
    /\ UNCHANGED plan

Leave(d, rest) ==
    /\ plan' = [plan EXCEPT ![d] = rest]
    /\ step' = [step EXCEPT ![d] = "begin"]
    /\ mem' = [mem EXCEPT ![d] = NoMem]

NextStage(d) == Leave(d, Tail(plan[d]))

\* One more mishap, while the bound on them lasts, and what it hit.
Mishap(kind, hit) ==
    /\ kind \in Mishaps
    /\ Len(met) < MaxMishaps
    /\ met' = Append(met, hit)

\* A request to the bucket fails.
Fault == Mishap("fault", "request")

\* A pass of the loop, or one asked for by "Sync now".
StartPass(d) ==
    /\ plan[d] = <<>>
    /\ \E stages \in {Cycle, Initial} : Leave(d, stages)
    /\ UNCHANGED <<remote, index, jobs, files, past, events, met>>

\* The process stops anywhere and starts again.  Events and what a pass had
\* read are gone; transfers it was in the middle of are queued again.
Restart(d) ==
    LET again(job) ==
            IF job.status = "in_progress" THEN [job EXCEPT !.status = "queued"]
                                          ELSE job
    IN
    /\ Mishap("restart", IF step[d] \in {"entry", "finish"} THEN "committed" ELSE "pass")
    /\ events' = [events EXCEPT ![d] = {}]
    /\ up' = [up EXCEPT ![d] = again(@)]
    /\ down' = [down EXCEPT ![d] = again(@)]
    /\ Leave(d, Initial)
    /\ UNCHANGED <<remote, index, files, past>>

-----------------------------------------------------------------------------
(***************************************************************************)
(* The user, at any moment.                                                *)
(***************************************************************************)
UserEdits(d) ==
    \E e \in Edits \ UNION {made[o] : o \in Devices} :
        /\ made' = [made EXCEPT ![d] = @ \cup {e}]
        /\ disk' = [disk EXCEPT ![d].path = Bytes(@) \cup {e}]
        /\ events' = [events EXCEPT ![d] = @ \cup {"changed"}]
        /\ UNCHANGED <<remote, index, jobs, copied, trash, pass,
                       dropped, exposed, met>>

UserDeletes(d) ==
    /\ Mishap("delete", "file")
    /\ disk[d].path # Gone
    /\ dropped' = dropped \cup disk[d].path
    /\ disk' = [disk EXCEPT ![d].path = Gone]
    /\ events' = [events EXCEPT ![d] = @ \cup {"deleted"}]
    /\ UNCHANGED <<remote, index, jobs, copied, trash, pass,
                   made, exposed>>

-----------------------------------------------------------------------------
(***************************************************************************)
(* Local changes.                                                          *)
(***************************************************************************)
\* A file found at the path with bytes the index does not have is registered
\* and queued; with no row of that path it becomes a file of its own.
Notice(d) ==
    LET here == disk[d].path IN
    \/ /\ \/ here = Gone
          \/ idx[d].path = "path" /\ idx[d].hash = here
       /\ UNCHANGED <<idx, up, copied>>
    \/ /\ here # Gone
       /\ idx[d].path = "path"
       /\ idx[d].hash # here
       /\ idx' = [idx EXCEPT ![d].hash = here, ![d].state = "pending_upload"]
       /\ up' = [up EXCEPT ![d] = Upload("path")]
       /\ UNCHANGED copied
    \/ /\ here # Gone
       /\ idx[d].path # "path"
       /\ copied' = [copied EXCEPT ![d] = @ \cup here]
       /\ UNCHANGED <<idx, up>>

\* LocalChanges::deleted goes on to delete_file.
TakesDelete(d) ==
    /\ disk[d].path = Gone
    /\ idx[d].path = "path"
    /\ idx[d].state # "deleted"

\* run_sync_cycle drains the watcher and handles what it says.
Collect(d) ==
    /\ At(d, "collect", "begin")
    /\ events' = [events EXCEPT ![d] = {}]
    /\ IF "changed" \in events[d] THEN Notice(d)
                                  ELSE UNCHANGED <<idx, up, copied>>
    /\ IF "deleted" \in events[d] /\ TakesDelete(d)
       THEN Goto(d, "delete", NoMem)
       ELSE NextStage(d)
    /\ UNCHANGED <<remote, open, ckpt, known, down, disk, trash, made,
                   dropped, exposed, met>>

\* queue_local_uploads_from_scan.
Scan(d) ==
    /\ At(d, "scan", "begin")
    /\ Notice(d)
    /\ NextStage(d)
    /\ UNCHANGED <<remote, open, ckpt, known, down, disk, trash, made,
                   dropped, exposed, events, met>>

\* reconcile_missing_local_files, when maintenance is due.
Missing(d) ==
    LET cancelled(job) ==
            IF job.status \in {"queued", "in_progress"}
            THEN [job EXCEPT !.status = "failed", !.retries = 0] ELSE job
        found == /\ idx[d].state \in {"synced", "pending_upload"}
                 /\ disk[d][idx[d].path] = Gone
    IN
    /\ At(d, "missing", "begin")
    /\ \/ /\ found
          /\ up' = [up EXCEPT ![d] = cancelled(@)]
          /\ down' = [down EXCEPT ![d] = cancelled(@)]
          /\ Goto(d, "delete", NoMem)
       \/ /\ NextStage(d)
          /\ UNCHANGED jobs
    /\ UNCHANGED <<remote, index, files, past, events, met>>

\* delete_file commits the deletion; an error, at any time, ends a cycle, whose
\* events are drained, while maintenance goes on.
DeleteCommit(d) ==
    /\ step[d] = "delete"
    /\ \/ /\ log' = Append(log, Delete)
          /\ Goto(d, "untree", NoMem)
       \/ /\ Leave(d, IF Head(plan[d]) = "collect" THEN <<>> ELSE Tail(plan[d]))
          /\ UNCHANGED log
    /\ UNCHANGED <<tree, index, jobs, files, past, events, met>>

\* Then it removes the tree entry, failing silently, and marks the row.
DeleteEntry(d) ==
    /\ step[d] = "untree"
    /\ tree' \in {0, tree}
    /\ idx' = [idx EXCEPT ![d].state = "deleted"]
    /\ NextStage(d)
    /\ UNCHANGED <<log, open, ckpt, known, jobs, files, past, events, met>>

-----------------------------------------------------------------------------
(***************************************************************************)
(* The upload queue: process_upload_queue on this file's job.              *)
(***************************************************************************)
\* The job ends without the bytes on disk being stored or copied.
GiveUp(d) ==
    /\ up' = [up EXCEPT ![d].status = "failed", ![d].retries = 0]
    /\ exposed' = exposed \cup Bytes(disk[d][up[d].path])

\* Defect: the conflict is recorded without a copy.
UploadConflict_NoCopy(d, type) ==
    /\ open' = [open EXCEPT ![d] = @ \cup {type}]
    /\ idx' = [idx EXCEPT ![d].state = "conflicted"]
    /\ up' = [up EXCEPT ![d].status = "failed", ![d].retries = 0]
    /\ UNCHANGED copied

\* An upload conflict: the file is copied, a record opened, the job failed.
UploadConflict(d, type) ==
    /\ copied' = [copied EXCEPT ![d] = @ \cup Bytes(disk[d][up[d].path])]
    /\ open' = [open EXCEPT ![d] = @ \cup {type}]
    /\ idx' = [idx EXCEPT ![d].state = "conflicted"]
    /\ up' = [up EXCEPT ![d].status = "failed", ![d].retries = 0]

\* store_file reads the bytes this attempt uploads.
UploadStart(d) ==
    LET here == disk[d][up[d].path] IN
    /\ At(d, "up", "begin")
    /\ up[d].status = "queued"
    /\ \/ /\ here = Gone
          /\ up' = [up EXCEPT ![d].status = "failed", ![d].retries = 0]
          /\ UNCHANGED pass
       \/ /\ here # Gone
          /\ up' = [up EXCEPT ![d].status = "in_progress"]
          /\ Goto(d, "head", [NoMem EXCEPT !.read = here])
    /\ UNCHANGED <<remote, index, down, files, past, events, met>>

\* latest_revision_on_target loads the head the commit will build on.
UploadHead(d) ==
    /\ At(d, "up", "head")
    /\ Goto(d, "lookup", [mem[d] EXCEPT !.base = Len(log)])
    /\ UNCHANGED <<remote, index, jobs, files, past, events, met>>

\* Defect: the tree entry is taken as it is.
Diverged_TreeOnly(d) == tree # idx[d].rev /\ log[tree].content # mem[d].read

\* get_entry, with the newest revision of the log put in its place, is
\* compared with the row; a lookup that fails skips the comparison.
Diverged(d) ==
    LET latest == NewestWrite(mem[d].base) IN
    latest # idx[d].rev /\ log[latest].content # mem[d].read

UploadLookup(d) ==
    /\ At(d, "up", "lookup")
    /\ \/ /\ \/ tree # 0 /\ ~Diverged(d) /\ UNCHANGED met
             \/ Mishap("fault", "lookup")
          /\ Goto(d, "commit", mem[d])
          /\ UNCHANGED <<idx, open, up, copied, exposed>>
       \/ /\ tree # 0 /\ Diverged(d) /\ "edit_edit" \notin open[d]
          /\ UploadConflict(d, "edit_edit")
          /\ Goto(d, "begin", NoMem)
          /\ UNCHANGED <<met, exposed>>
       \/ /\ tree # 0 /\ Diverged(d) /\ "edit_edit" \in open[d]
          /\ GiveUp(d)
          /\ Goto(d, "begin", NoMem)
          /\ UNCHANGED <<met, idx, open, copied>>
       \/ /\ tree = 0
          /\ UploadConflict(d, "delete_edit")
          /\ Goto(d, "begin", NoMem)
          /\ UNCHANGED <<met, exposed>>
    /\ UNCHANGED <<remote, ckpt, known, down, disk, trash, made, dropped,
                   events>>

\* commit_on fails as a conflict when the log has an operation on the file
\* after the head it was built on.
UploadCommit(d) ==
    /\ At(d, "up", "commit")
    /\ \/ /\ Len(log) = mem[d].base
          /\ log' = Append(log, Write(mem[d].read))
          /\ Goto(d, "entry", [mem[d] EXCEPT !.at = Len(log) + 1])
          /\ UNCHANGED <<up, exposed>>
       \/ /\ Len(log) # mem[d].base
          /\ GiveUp(d)
          /\ Goto(d, "begin", NoMem)
          /\ UNCHANGED log
    /\ UNCHANGED <<tree, index, down, files, made, dropped, events,
                   met>>

\* upsert_entry, whose failure is only logged.
UploadEntry(d) ==
    /\ At(d, "up", "entry")
    /\ \/ tree' = mem[d].at /\ UNCHANGED met
       \/ Fault /\ UNCHANGED tree
    /\ Goto(d, "finish", mem[d])
    /\ UNCHANGED <<log, index, jobs, files, past, events>>

\* Defect: the revision is not recorded.
UploadFinish_NoRevision(d) ==
    /\ At(d, "up", "finish")
    /\ idx' = [idx EXCEPT ![d].hash = mem[d].read, ![d].rev = mem[d].at,
                          ![d].state = "synced"]
    /\ up' = [up EXCEPT ![d] = NoUpload]
    /\ Goto(d, "begin", NoMem)
    /\ UNCHANGED <<remote, open, ckpt, known, down, files, past, events, met>>

\* record_revision and finish_upload.
UploadFinish(d) ==
    /\ At(d, "up", "finish")
    /\ known' = [known EXCEPT ![d] = @ \cup {mem[d].at}]
    /\ idx' = [idx EXCEPT ![d].hash = mem[d].read, ![d].rev = mem[d].at,
                          ![d].state = "synced"]
    /\ up' = [up EXCEPT ![d] = NoUpload]
    /\ Goto(d, "begin", NoMem)
    /\ UNCHANGED <<remote, open, ckpt, down, files, past, events, met>>

\* retry_later after a request of this attempt failed.
UploadRetry(d) ==
    /\ At(d, "up", "head") \/ At(d, "up", "commit")
    /\ Fault
    /\ \/ /\ up[d].retries + 1 < MaxRetries
          /\ up' = [up EXCEPT ![d].status = "queued", ![d].retries = @ + 1]
          /\ UNCHANGED exposed
       \/ /\ up[d].retries + 1 >= MaxRetries
          /\ GiveUp(d)
    /\ Goto(d, "begin", NoMem)
    /\ UNCHANGED <<remote, index, down, files, made, dropped, events>>

UploadsDone(d) ==
    /\ At(d, "up", "begin")
    /\ up[d].status # "queued"
    /\ NextStage(d)
    /\ UNCHANGED <<remote, index, jobs, files, past, events, met>>

-----------------------------------------------------------------------------
(***************************************************************************)
(* poll_remote_changes: the operations after the checkpoint, in order.     *)
(***************************************************************************)
PollStart(d) ==
    /\ At(d, "poll", "begin")
    /\ IF down[d].status = "queued" \/ ckpt[d] = Len(log)
       THEN NextStage(d)
       ELSE Goto(d, "op", [NoMem EXCEPT !.base = Len(log), !.at = ckpt[d] + 1])
    /\ UNCHANGED <<remote, index, jobs, files, past, events, met>>

Op(d) == log[mem[d].at]

\* On to the next operation, whatever was read for this one dropped.
NextOp(d) ==
    Goto(d, "op", [NoMem EXCEPT !.base = mem[d].base, !.at = mem[d].at + 1])

\* Defect: a file with an upload to come is not compared.
Changed_OnlySynced(d, path) ==
    /\ idx[d].state \in {"synced", "pending_download"}
    /\ disk[d][path] # Gone
    /\ disk[d][path] # idx[d].hash

\* local_file_changed_since_sync.
Changed(d, path) == disk[d][path] # Gone /\ disk[d][path] # idx[d].hash

\* A new revision names no place: without a tree entry remote_file_state
\* places the file under its id.
Placed == IF tree = 0 THEN "stray" ELSE "path"

\* Operations the poll passes over: superseded_locally, bytes the index
\* already has, a change whose conflict is open, a file deleted here.
Passed(d, path) ==
    LET op == Op(d) IN
    \/ /\ op.kind = "write"
       /\ \/ mem[d].at \in known[d] /\ idx[d].rev # mem[d].at
          \/ idx[d].hash = op.content
          \/ Changed(d, path) /\ "edit_edit" \in open[d]
    \/ /\ op.kind = "delete"
       /\ \/ idx[d].state = "deleted"
          \/ Changed(d, path) /\ "delete_edit" \in open[d]

\* What is done with an operation is decided here and done in a later step.
PollOp(d) ==
    LET path == IF Op(d).kind = "write" THEN Placed ELSE idx[d].path
        acts == IF Op(d).kind = "write"
                THEN IF Changed(d, path) THEN "merge" ELSE "fetch"
                ELSE IF Changed(d, path) THEN "keep" ELSE "trash"
    IN
    /\ At(d, "poll", "op")
    /\ mem[d].at <= mem[d].base
    /\ IF Passed(d, path)
       THEN NextOp(d)
       ELSE Goto(d, acts, [mem[d] EXCEPT !.path = path,
                                         !.read = disk[d][path]])
    /\ UNCHANGED <<remote, index, jobs, files, past, events, met>>

\* An operation that cannot be used yet ends the poll; the checkpoint stays.
PollUnusable(d) ==
    /\ At(d, "poll", "op")
    /\ mem[d].at <= mem[d].base
    /\ Op(d).kind = "write"
    /\ Fault
    /\ NextStage(d)
    /\ UNCHANGED <<remote, index, jobs, files, past, events>>

\* Defect: the checkpoint is the head at the end of the poll.
PollEnd_HeadNow(d) ==
    /\ At(d, "poll", "op")
    /\ mem[d].at > mem[d].base
    /\ ckpt' = [ckpt EXCEPT ![d] = Len(log)]
    /\ NextStage(d)
    /\ UNCHANGED <<remote, idx, open, known, jobs, files, past, events, met>>

\* The checkpoint is the head the poll began with.
PollEnd(d) ==
    /\ At(d, "poll", "op")
    /\ mem[d].at > mem[d].base
    /\ ckpt' = [ckpt EXCEPT ![d] = mem[d].base]
    /\ NextStage(d)
    /\ UNCHANGED <<remote, idx, open, known, jobs, files, past, events, met>>

Base(d) == log[idx[d].rev].content
Overlaps(d) == /\ mem[d].read # Op(d).content
               /\ mem[d].read # Base(d)
               /\ Op(d).content # Base(d)

\* try_text_auto_merge gave a text without conflict markers:
\* write_merged_content writes over the file, and the merge is queued.
PollMerge(d) ==
    LET path == mem[d].path
        merged == Merge3(Base(d), mem[d].read, Op(d).content)
    IN
    /\ At(d, "poll", "merge")
    /\ Text
    /\ disk' = [disk EXCEPT ![d][path] = merged]
    /\ exposed' = exposed \cup Bytes(disk[d][path])
    /\ idx' = [idx EXCEPT ![d].hash = merged, ![d].path = path,
                          ![d].state = "conflicted"]
    /\ up' = [up EXCEPT ![d] = Upload(path)]
    /\ NextOp(d)
    /\ UNCHANGED <<remote, open, ckpt, known, down, copied, trash, made,
                   dropped, events, met>>

\* No clean merge, or no bytes to merge: the local file is copied and an edit
\* conflict recorded.
PollConflict(d) ==
    /\ At(d, "poll", "merge")
    /\ \/ (Text => Overlaps(d)) /\ UNCHANGED met
       \/ Text /\ Fault
    /\ copied' = [copied EXCEPT ![d] = @ \cup Bytes(disk[d][mem[d].path])]
    /\ open' = [open EXCEPT ![d] = @ \cup {"edit_edit"}]
    /\ idx' = [idx EXCEPT ![d].state = "conflicted"]
    /\ NextOp(d)
    /\ UNCHANGED <<remote, ckpt, known, jobs, disk, trash, past, events>>

\* The revision is registered and its download queued over the bytes that
\* are at the path by then.
PollFetch(d) ==
    LET path == mem[d].path
        here == disk[d][path]
    IN
    /\ At(d, "poll", "fetch")
    /\ idx' = [idx EXCEPT ![d] = [hash |-> Op(d).content, rev |-> mem[d].at,
                                  state |-> "pending_download",
                                  path |-> path]]
    /\ known' = [known EXCEPT ![d] = @ \cup {mem[d].at}]
    /\ down' = [down EXCEPT ![d] = Download(path, Op(d).content, here)]
    /\ exposed' = exposed \cup (Bytes(here) \ Bytes(mem[d].read))
    /\ NextOp(d)
    /\ UNCHANGED <<remote, open, ckpt, up, files, made, dropped,
                   events, met>>

\* RemoteChanges::delete_file over a changed file.
PollKeep(d) ==
    /\ At(d, "poll", "keep")
    /\ copied' = [copied EXCEPT ![d] = @ \cup Bytes(disk[d][mem[d].path])]
    /\ open' = [open EXCEPT ![d] = @ \cup {"delete_edit"}]
    /\ idx' = [idx EXCEPT ![d].state = "conflicted"]
    /\ NextOp(d)
    /\ UNCHANGED <<remote, ckpt, known, jobs, disk, trash, past, events, met>>

\* ... and over an unchanged one: its bytes replace those in the trash slot, a
\* save since they were compared with them.
PollTrash(d) ==
    LET here == disk[d][mem[d].path] IN
    /\ At(d, "poll", "trash")
    /\ \/ here = Gone /\ UNCHANGED <<disk, trash>>
       \/ /\ here # Gone
          /\ disk' = [disk EXCEPT ![d][mem[d].path] = Gone]
          /\ trash' = [trash EXCEPT ![d] = here]
    /\ exposed' = exposed \cup (Bytes(here) \ Bytes(mem[d].read))
    /\ idx' = [idx EXCEPT ![d].state = "deleted"]
    /\ NextOp(d)
    /\ UNCHANGED <<remote, open, ckpt, known, jobs, copied, made, dropped, events,
                   met>>

-----------------------------------------------------------------------------
(***************************************************************************)
(* The download queue: process_download_queue and publish_keeping_local.   *)
(***************************************************************************)
\* stage_file: the remote bytes are staged beside the file.
DownloadStart(d) ==
    /\ At(d, "down", "begin")
    /\ down[d].status = "queued"
    /\ down' = [down EXCEPT ![d].status = "in_progress"]
    /\ Goto(d, "check", [NoMem EXCEPT !.read = down[d].content,
                                      !.expect = down[d].decided])
    /\ UNCHANGED <<remote, index, up, files, past, events, met>>

RetryDownload(d) ==
    /\ down' = [down EXCEPT ![d] =
          IF @.retries + 1 < MaxRetries
          THEN [@ EXCEPT !.status = "queued", !.retries = down[d].retries + 1]
          ELSE [@ EXCEPT !.status = "failed", !.retries = 0]]
    /\ Goto(d, "begin", NoMem)

DownloadFault(d) ==
    /\ At(d, "down", "check")
    /\ ~mem[d].again
    /\ Fault
    /\ RetryDownload(d)
    /\ UNCHANGED <<remote, index, up, files, past, events>>

\* A stale first publish keeps the local bytes; a stale second one is an error.
Stale(d, displaced) ==
    IF mem[d].again
    THEN RetryDownload(d)
    ELSE /\ Goto(d, "keep", [mem[d] EXCEPT !.read = displaced])
         /\ UNCHANGED down

\* publish_staged_checked compares the file with the expected bytes.
DownloadCheck(d) ==
    /\ At(d, "down", "check")
    /\ \/ /\ disk[d][down[d].path] = mem[d].expect
          /\ Goto(d, "swap", mem[d])
          /\ UNCHANGED down
       \/ /\ disk[d][down[d].path] # mem[d].expect
          /\ Stale(d, mem[d].read)
    /\ UNCHANGED <<remote, index, up, files, past, events, met>>

\* publish_checked_stage: a new file must not replace one; over a file the
\* two are exchanged, and what came out is compared afterwards.
DownloadSwap(d) ==
    LET path == down[d].path
        here == disk[d][path]
    IN
    /\ At(d, "down", "swap")
    /\ \/ /\ here = mem[d].expect
          /\ disk' = [disk EXCEPT ![d][path] = mem[d].read]
          /\ Goto(d, "mark", mem[d])
          /\ UNCHANGED <<down, exposed>>
       \/ /\ here # Gone /\ mem[d].expect = Gone
          /\ Stale(d, mem[d].read)
          /\ UNCHANGED <<disk, exposed>>
       \/ /\ here = Gone /\ mem[d].expect # Gone
          /\ RetryDownload(d)
          /\ UNCHANGED <<disk, exposed>>
       \/ /\ here # Gone /\ mem[d].expect # Gone /\ here # mem[d].expect
          /\ disk' = [disk EXCEPT ![d][path] = mem[d].read]
          /\ exposed' = exposed \cup here
          /\ Stale(d, here)
    /\ UNCHANGED <<remote, index, up, copied, trash, made, dropped,
                   events, met>>

\* What the file holds now is copied, and expected by the second publish.
DownloadKeep(d) ==
    LET here == disk[d][down[d].path] IN
    /\ At(d, "down", "keep")
    /\ copied' = [copied EXCEPT ![d] = @ \cup Bytes(here)]
    /\ Goto(d, "check", [mem[d] EXCEPT !.expect = here, !.again = TRUE,
                                       !.kept = here # Gone])
    /\ UNCHANGED <<remote, index, jobs, disk, trash, past, events, met>>

\* The conflict of a kept copy is recorded, then the row is marked synced.
DownloadMark(d) ==
    /\ At(d, "down", "mark")
    /\ open' = [open EXCEPT ![d] =
                    IF mem[d].kept THEN @ \cup {"edit_edit"} ELSE @]
    /\ idx' = [idx EXCEPT ![d].hash = down[d].content, ![d].state = "synced"]
    /\ down' = [down EXCEPT ![d] = NoDownload]
    /\ Goto(d, "begin", NoMem)
    /\ UNCHANGED <<remote, ckpt, known, up, files, past, events, met>>

DownloadsDone(d) ==
    /\ At(d, "down", "begin")
    /\ down[d].status # "queued"
    /\ NextStage(d)
    /\ UNCHANGED <<remote, index, jobs, files, past, events, met>>

-----------------------------------------------------------------------------
\* Jobs of other files use up MAX_UPLOAD_JOBS_PER_PASS or the limit of the
\* downloads: the pass ends, but for maintenance, with this file's job queued.
PassFull(d) ==
    /\ \/ At(d, "up", "begin") /\ up[d].status = "queued"
       \/ At(d, "down", "begin") /\ down[d].status = "queued"
    /\ Mishap("full", IF down[d].status = "queued" THEN "download" ELSE "pass")
    /\ Leave(d, <<"missing">>)
    /\ UNCHANGED <<remote, index, jobs, files, past, events>>

Step(d) ==
    \/ StartPass(d) \/ Collect(d) \/ Scan(d) \/ Missing(d)
    \/ DeleteCommit(d) \/ DeleteEntry(d)
    \/ UploadStart(d) \/ UploadHead(d) \/ UploadLookup(d) \/ UploadCommit(d)
    \/ UploadEntry(d) \/ UploadFinish(d) \/ UploadsDone(d)
    \/ PollStart(d) \/ PollOp(d) \/ PollEnd(d) \/ PollMerge(d)
    \/ PollConflict(d) \/ PollFetch(d) \/ PollKeep(d) \/ PollTrash(d)
    \/ DownloadStart(d) \/ DownloadCheck(d) \/ DownloadSwap(d)
    \/ DownloadKeep(d) \/ DownloadMark(d) \/ DownloadsDone(d)

Fails(d) ==
    \/ UploadRetry(d) \/ PollUnusable(d) \/ DownloadFault(d) \/ PassFull(d)

Next == \E d \in Devices :
    Step(d) \/ Fails(d) \/ Restart(d) \/ UserEdits(d) \/ UserDeletes(d)

Spec == Init /\ [][Next]_vars

\* The loop of a running device goes on; nothing is said of users, faults
\* and restarts.
FairSpec == Spec /\ \A d \in Devices : WF_vars(Step(d))

-----------------------------------------------------------------------------
(***************************************************************************)
(* Properties.                                                             *)
(***************************************************************************)
Status == {"none", "queued", "in_progress", "failed"}
Operations == [kind : {"write", "delete"}, content : Content]
Rows == [hash : Content, rev : 1..Len(log), path : Paths,
         state : {"synced", "pending_upload", "pending_download",
                  "conflicted", "deleted"}]

\* What mishaps hit: a request, the lookup of an upload, the pass, an upload
\* that was committed but not recorded yet, the file; or a pass that left a download.
Hits == {"request", "lookup", "pass", "download", "committed", "file"}
Happened == {hits \in Seq(Hits) : Len(hits) <= MaxMishaps}

\* The type invariant; a row of the index always names a revision of the log
\* that the device's revisions table has (finish_upload, record_revision).
TypeOK ==
    /\ log \in Seq(Operations) /\ log # <<>> /\ tree \in 0..Len(log)
    /\ disk \in [Devices -> [Paths -> Content \cup {Gone}]]
    /\ copied \in [Devices -> Content]
    /\ trash \in [Devices -> Content]
    /\ events \in [Devices -> SUBSET {"changed", "deleted"}]
    /\ idx \in [Devices -> Rows]
    /\ up \in [Devices -> [status : Status, retries : 0..MaxRetries,
                           path : Paths]]
    /\ down \in [Devices -> [status : Status, retries : 0..MaxRetries,
                             path : Paths, content : Content,
                             decided : Content \cup {Gone}]]
    /\ open \in [Devices -> SUBSET {"edit_edit", "delete_edit"}]
    /\ ckpt \in [Devices -> 1..Len(log)]
    /\ known \in [Devices -> SUBSET (1..Len(log))]
    /\ \A d \in Devices : idx[d].rev \in known[d]
    /\ made \in [Devices -> Content]
    /\ dropped \in Content /\ exposed \in Content /\ met \in Happened

Logged == UNION {log[r].content : r \in 1..Len(log)}
Copied == UNION {copied[d] : d \in Devices}
Saved == Logged \cup Copied
         \cup (UNION {Bytes(disk[d][p]) : d \in Devices, p \in Paths})
         \cup (UNION {trash[d] : d \in Devices})
Owed == (UNION {made[d] : d \in Devices}) \ dropped

Newest == log[NewestWrite(Len(log))]
Deleted == log[Len(log)].kind = "delete"

\* No edit is ever lost: it is in some file, copy or trash slot, or in a
\* revision of the log (reliability-spec.md, "Safety Guarantees").
NoEditLost == Owed \subseteq Saved

\* The places where an edit can be lost are known: an upload that ends with
\* neither a commit nor a copy, a merge written over a file that was saved
\* while the merge was made, a download or a deletion decided over bytes that
\* were saved since they were compared (the deletion takes the save to the
\* trash slot, where the next one replaces it), and the exchange of a second
\* publish.  Every other step of the passes keeps every edit, whatever is
\* interleaved with it.
LostOnlyIfExposed == Owed \subseteq Saved \cup exposed

Hit(places) == \E i \in DOMAIN met : met[i] \in places

\* Mishaps let an upload go over a revision its device has yet to poll, back to
\* which the poll takes the row: a failed lookup skips the check for divergence,
\* and a process that stops after its commit and before record_revision does
\* not know the revision for its own.
Blind == Hit({"lookup", "committed"})

\* A device that has taken in the whole log, has no job, no event and no
\* conflict left has the newest revision at the file's path: no download is
\* skipped, superseded or overtaken for good.  When a user removed the file, it
\* may be missing, which maintenance has yet to notice, or under its id, as its
\* tree entry was not there when the newest revision was polled.
AtRest(d) ==
    /\ plan[d] = <<>> /\ events[d] = {} /\ ckpt[d] = Len(log)
    /\ open[d] = {} /\ up[d].status = "none" /\ down[d].status = "none"
AtRestIsLatest ==
    \A d \in Devices : AtRest(d) /\ ~Deleted /\ ~Blind =>
        \/ disk[d].path = Newest.content
        \/ Hit({"file"}) /\ (disk[d].path = Gone \/ disk[d].stray = Newest.content)

\* A revision holds every edit of the revision it succeeds, unless its device
\* has a conflict on the file open, a user removed the file (the poll applies a
\* deletion to a newer revision too), an upload went blind, or a full pass left
\* a download whose row is already that of the new revision: an upload never
\* silently takes the work of another device out of the file.
Wrote(d) == /\ Len(log') > Len(log)
            /\ step[d] = "commit" /\ step'[d] = "entry"
NoSilentOverwrite ==
    [][\A d \in Devices :
          Wrote(d) /\ ~Deleted
             => \/ Newest.content \subseteq log'[Len(log')].content
                \/ open[d] # {}
                \/ Blind \/ Hit({"file", "download"})]_vars

\* When users stop, every device ends with the newest revision, or with no
\* file when it was deleted, or with an open conflict to show its user.
Converges ==
    <>[](\A d \in Devices :
            \/ open[d] # {}
            \/ disk[d].path = IF Deleted THEN Gone ELSE Newest.content)

\* Every edit gets into a revision or a conflict copy, unless it went through
\* one of the places where edits are exposed or its user deleted the file.
EditsSurface ==
    \A e \in Edits :
        e \in Owed ~> e \in Logged \cup Copied \cup exposed \cup dropped
=============================================================================
