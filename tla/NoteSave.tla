------------------------------ MODULE NoteSave ------------------------------
(***************************************************************************)
(* One note on one device: saves of its text by the Notes editor, other    *)
(* programs that write the same file, the recovery of a save that stopped  *)
(* half way, and the upload of what was saved.                             *)
(*                                                                         *)
(* A save never writes the note in place.  It writes a journal directory   *)
(* (payload, intent.json), a staged file, and exchanges the staged file    *)
(* with the note; the file it displaced stays in the journal and is looked *)
(* at again, because another program may have written it in between.  Only *)
(* then are the index and the journal told.  A stop (a crash, or an error  *)
(* that ends the call) may come between any two of these steps; every      *)
(* later operation starts with the recovery of what was left.              *)
(*                                                                         *)
(* Files are inodes: a link and an exchange move inodes, a program with an *)
(* open file writes the inode wherever it is.  Texts are model values, a   *)
(* hash is its text.  The process lock makes the operations on the notes   *)
(* run one at a time; `op' is the running one.                             *)
(*                                                                         *)
(* Covered: read, save, request replay, recovery of saves, conflict copies,*)
(* index projection, uploads of one note.  Left out: a note that other     *)
(* programs delete, size and UTF-8 limits, symbolic links, Windows.        *)
(***************************************************************************)
EXTENDS Integers, FiniteSets, Sequences

CONSTANTS
    Req,        \* save requests
    Body,       \* request -> the text it saves
    Ext,        \* texts other programs write, each at most once
    Text0,      \* the text of the note at the beginning
    Nothing,    \* no text, no request
    MaxStops,   \* bound: stops (crashes and errors) of an operation
    MaxResend   \* bound: requests the editor sends again

Texts == {Body[r] : r \in Req} \cup Ext \cup {Text0}

ASSUME NoteSaveAssumption ==
    /\ MaxStops \in Nat /\ MaxResend \in Nat
    /\ Nothing \notin Req \cup Texts

VARIABLES
    data,    \* inode -> text, for the inodes created so far
    note,    \* the inode the note's path names
    held,    \* the inode another program holds open, 0 for none
    jr,      \* request -> its journal directory
    copies,  \* request -> inodes of the "Recovered ..." files beside the note
    db,      \* the index: save token, object state, mutation stages, upload jobs
    editor,  \* the editor: its save token, and the token each request expects
    reply,   \* request -> what the editor was told
    op,      \* the running operation
    up,      \* the running upload
    remote,  \* texts committed to the bucket, in order
    stops, resends,
    over,    \* history: request -> text its exchange displaced from the path
    late,    \* history: inodes written when they were no longer the note
    gone,    \* history: texts other programs wrote over at the path
    fresh    \* texts other programs have not written yet

disk == <<data, note, held, fresh>>
book == <<jr, copies>>
user == <<editor, reply>>
cloud == <<up, remote>>
bounds == <<stops, resends>>
past == <<over, late, gone>>
vars == <<disk, book, db, user, op, cloud, bounds, past>>

NoToken == [gen |-> 0, hash |-> Nothing]

\* What an operation holds in memory: the request the editor waits for, the
\* request it works on and whether it recovers it, the text it read, the
\* captured files still to look at, where it goes then, the text to copy and
\* whether it is the payload.
Idle == [pc |-> "idle", goal |-> Nothing, r |-> Nothing, rec |-> FALSE,
         before |-> Nothing, todo |-> {}, next |-> "idle",
         copy |-> Nothing, last |-> FALSE]
NoUpload == [pc |-> "idle", same |-> FALSE]

\* intent.json and the files of a journal directory.  `links' are the
\* replace-preimage files, `armed' is publication_identity, `conflict' the
\* state of changes[0], `plan' and `planned' recovery_conflict and the
\* conflict copies entered in the baseline.
NoJournal ==
    [stage |-> "none", seq |-> 0, exp |-> Nothing, gen |-> 0, noop |-> FALSE,
     was |-> "synced", conflict |-> FALSE, stg |-> 0, disp |-> 0, links |-> {},
     armed |-> 0, plan |-> 0, planned |-> {}, cstage |-> 0]

Init ==
    /\ data = <<Text0>> /\ note = 1 /\ held = 0
    /\ jr = [r \in Req |-> NoJournal]
    /\ copies = [r \in Req |-> <<>>]
    /\ db = [gen |-> 1, hash |-> Text0, state |-> "synced",
             stage |-> [r \in Req |-> "none"], jobs |-> <<>>]
    /\ editor = [tok |-> NoToken, sent |-> [r \in Req |-> NoToken]]
    /\ reply = [r \in Req |-> "none"]
    /\ op = Idle /\ up = NoUpload
    /\ remote = <<Text0>>
    /\ stops = 0 /\ resends = 0
    /\ over = [r \in Req |-> Nothing]
    /\ late = {} /\ gone = {} /\ fresh = Ext

-----------------------------------------------------------------------------
(* Reading state.                                                          *)

NoteText == data[note]
Pending == {r \in Req : jr[r].stage \in {"intent", "published"}}
NewInode == Len(data) + 1

\* The names a file has at the note's path and in the journals.
OwnLinks(r, i) == (IF jr[r].disp = i THEN 1 ELSE 0) + (IF i \in jr[r].links THEN 1 ELSE 0)
Links(i) == (IF note = i THEN 1 ELSE 0) + Cardinality({r \in Req : jr[r].disp = i})
              + Cardinality({r \in Req : i \in jr[r].links})
Captured(j) == (j.links \cup {j.disp}) \ {0}

\* The text of a captured file; none when it has a name outside its journal.
CaptureBytes(r, i) == IF Links(i) = OwnLinks(r, i) THEN data[i] ELSE Nothing

\* The generation grows when the text is another one.
ContentToken(t) == [gen |-> IF db.hash = t THEN db.gen ELSE db.gen + 1, hash |-> t]

-----------------------------------------------------------------------------
(* Other programs.                                                         *)

ExtOpen ==
    /\ held # note /\ fresh # {}
    /\ held' = note
    /\ UNCHANGED <<data, note, fresh, book, db, user, op, cloud, bounds, past>>

ExtWrite(e) ==
    /\ held # 0 /\ e \in fresh
    /\ fresh' = fresh \ {e}
    /\ data' = [data EXCEPT ![held] = e]
    /\ IF held = note THEN gone' = gone \cup {NoteText} /\ late' = late
                      ELSE gone' = gone /\ late' = late \cup {held}
    /\ held' = 0
    /\ UNCHANGED <<note, book, db, user, op, cloud, bounds, over>>

\* Write a new file and rename it over the note.
ExtReplace(e) ==
    /\ e \in fresh
    /\ fresh' = fresh \ {e}
    /\ data' = Append(data, e)
    /\ note' = NewInode
    /\ gone' = gone \cup {NoteText}
    /\ UNCHANGED <<held, book, db, user, op, cloud, bounds, over, late>>

-----------------------------------------------------------------------------
(* The editor's calls.  Each takes the process lock; all but a read first  *)
(* recover what earlier calls left.                                        *)

Read ==
    /\ op.pc = "idle"
    /\ LET t == ContentToken(NoteText) IN
         /\ editor.tok # t
         /\ db' = [db EXCEPT !.gen = t.gen, !.hash = t.hash]
         /\ editor' = [editor EXCEPT !.tok = t]
    /\ UNCHANGED <<disk, book, reply, op, cloud, bounds, past>>

Call(r) ==
    /\ op.pc = "idle"
    /\ \/ /\ reply[r] = "none" /\ editor.tok # NoToken
          /\ editor' = [editor EXCEPT !.sent[r] = editor.tok]
          /\ resends' = resends
       \/ /\ reply[r] = "lost" /\ resends < MaxResend
          /\ resends' = resends + 1
          /\ editor' = editor
    /\ op' = [Idle EXCEPT !.pc = "scan", !.goal = r]
    /\ UNCHANGED <<disk, book, db, reply, cloud, stops, past>>

\* Start-up, opening the workspace, listing a folder: recovery alone.
Recover ==
    /\ op.pc = "idle" /\ Pending # {}
    /\ op' = [Idle EXCEPT !.pc = "scan"]
    /\ UNCHANGED <<disk, book, db, user, cloud, bounds, past>>

-----------------------------------------------------------------------------
(* The steps of a save.                                                    *)

Answer(what) ==
    /\ reply' = IF op.goal = Nothing THEN reply ELSE [reply EXCEPT ![op.goal] = what]
    /\ op' = Idle

\* A known request is answered from its journal.
Replay_Planned ==
    /\ op.pc = "scan" /\ Pending = {} /\ op.goal # Nothing
    /\ jr[op.goal].stage # "none"
    /\ Answer("ok")
    /\ editor' = [editor EXCEPT !.tok = [gen |-> jr[op.goal].gen, hash |-> Body[op.goal]]]
    /\ UNCHANGED <<disk, book, db, cloud, bounds, past>>

Replay ==
    /\ op.pc = "scan" /\ Pending = {} /\ op.goal # Nothing
    /\ LET r == op.goal IN
         /\ jr[r].stage # "none"
         /\ IF jr[r].stage = "indexed"
            THEN /\ Answer(IF jr[r].conflict THEN "conflict" ELSE "ok")
                 /\ editor' = [editor EXCEPT !.tok = [gen |-> jr[r].gen, hash |-> Body[r]]]
            ELSE Answer("stale") /\ editor' = editor
    /\ UNCHANGED <<disk, book, db, cloud, bounds, past>>

\* A new one is refused over another text or token, or planned.
Begin ==
    /\ op.pc = "scan" /\ Pending = {} /\ op.goal # Nothing
    /\ LET r == op.goal
           t == ContentToken(NoteText)
           noop == t.hash = Body[r]
       IN /\ jr[r].stage = "none"
          /\ db' = [db EXCEPT !.gen = t.gen, !.hash = t.hash]
          /\ IF t # editor.sent[r]
             THEN Answer("stale") /\ jr' = jr
             ELSE /\ jr' = [jr EXCEPT ![r] = [NoJournal EXCEPT
                        !.seq = 1 + Cardinality({q \in Req : jr[q].stage # "none"}),
                        !.exp = t.hash, !.noop = noop,
                        !.was = IF noop THEN db.state ELSE "pending_upload",
                        !.gen = IF noop THEN t.gen ELSE t.gen + 1]]
                  /\ op' = [op EXCEPT !.pc = "intent", !.r = r]
                  /\ reply' = reply
    /\ UNCHANGED <<disk, copies, editor, cloud, bounds, past>>

\* The payload and the intent are on disk.
WriteIntent ==
    /\ op.pc = "intent"
    /\ jr' = [jr EXCEPT ![op.r].stage = "intent"]
    /\ op' = [op EXCEPT !.pc = "project"]
    /\ UNCHANGED <<disk, copies, db, user, cloud, bounds, past>>

\* The index learns the stage: by a save after its intent, by a recovery
\* before anything else.
ProjectPlan ==
    /\ op.pc = "project"
    /\ db' = [db EXCEPT !.stage[op.r] = jr[op.r].stage]
    /\ op' = [op EXCEPT !.pc = IF op.rec THEN "complete"
                               ELSE IF jr[op.r].noop THEN "published" ELSE "stage"]
    /\ UNCHANGED <<disk, book, user, cloud, bounds, past>>

\* A recovery keeps a stage that holds the payload and replaces another one.
WriteStage_NoFile ==
    /\ op.pc = "stage"
    /\ jr' = [jr EXCEPT ![op.r].stg = NewInode, ![op.r].armed = 0]
    /\ op' = [op EXCEPT !.pc = "preimage"]
    /\ UNCHANGED <<disk, copies, db, user, cloud, bounds, past>>

WriteStage ==
    /\ op.pc = "stage"
    /\ LET r == op.r IN
       IF op.rec /\ jr[r].stg # 0 /\ data[jr[r].stg] = Body[r]
       THEN UNCHANGED <<data, jr>>
       ELSE /\ data' = Append(data, Body[r])
            /\ jr' = [jr EXCEPT ![r].stg = NewInode, ![r].armed = 0]
    /\ op' = [op EXCEPT !.pc = "preimage"]
    /\ UNCHANGED <<note, held, fresh, copies, db, user, cloud, bounds, past>>

\* The note is not what the save was decided against.  A save reports it; a
\* recovery keeps the payload as a conflict copy.
Refuse ==
    /\ jr' = [jr EXCEPT ![op.r].stage = "conflicted"]
    /\ op' = IF op.rec THEN [op EXCEPT !.pc = "copy", !.copy = Body[op.r], !.last = TRUE]
                       ELSE [op EXCEPT !.pc = "refused"]

Preimage ==
    /\ op.pc = "preimage"
    /\ IF NoteText # jr[op.r].exp THEN Refuse
       ELSE jr' = jr /\ op' = [op EXCEPT !.pc = "recheck", !.before = NoteText]
    /\ UNCHANGED <<disk, copies, db, user, cloud, bounds, past>>

Recheck ==
    /\ op.pc = "recheck"
    /\ IF NoteText # op.before THEN Refuse
       ELSE jr' = jr /\ op' = [op EXCEPT !.pc = "arm"]
    /\ UNCHANGED <<disk, copies, db, user, cloud, bounds, past>>

\* Link the file the path names into the journal and record the identity of
\* the stage, from which a recovery tells whether the exchange happened.
Arm ==
    /\ op.pc = "arm"
    /\ jr' = [jr EXCEPT ![op.r].links = @ \cup {note}, ![op.r].armed = jr[op.r].stg]
    /\ op' = [op EXCEPT !.pc = "exchange"]
    /\ UNCHANGED <<disk, copies, db, user, cloud, bounds, past>>

Exchange ==
    /\ op.pc = "exchange"
    /\ note' = jr[op.r].stg
    /\ jr' = [jr EXCEPT ![op.r].stg = note]
    /\ over' = [over EXCEPT ![op.r] = NoteText]
    /\ op' = [op EXCEPT !.pc = "complete"]
    /\ UNCHANGED <<data, held, fresh, copies, db, user, cloud, bounds, late, gone>>

\* The stage is the displaced file unless it is still the armed one.
Exchanged(j) == j.armed # 0 /\ (j.disp # 0 \/ j.stg # j.armed)

Complete_Unchecked ==
    /\ op.pc = "complete" /\ Exchanged(jr[op.r])
    /\ jr' = IF jr[op.r].disp # 0 THEN jr
             ELSE [jr EXCEPT ![op.r].disp = jr[op.r].stg, ![op.r].stg = 0]
    /\ op' = [op EXCEPT !.pc = "verify"]
    /\ UNCHANGED <<disk, copies, db, user, cloud, bounds, past>>

Complete ==
    /\ op.pc = "complete" /\ Exchanged(jr[op.r])
    /\ LET j == IF jr[op.r].disp # 0 THEN jr[op.r]
                ELSE [jr[op.r] EXCEPT !.disp = jr[op.r].stg, !.stg = 0]
       IN /\ jr' = [jr EXCEPT ![op.r] = j]
          /\ op' = [op EXCEPT !.pc = "preserve", !.todo = Captured(j), !.next = "verify"]
    /\ UNCHANGED <<disk, copies, db, user, cloud, bounds, past>>

\* A recovery that finds nothing exchanged looks at the note: it holds the
\* body already, or still the expected text, or neither.
Resume ==
    /\ op.pc = "complete" /\ ~Exchanged(jr[op.r])
    /\ op' = IF NoteText = Body[op.r]
             THEN [op EXCEPT !.pc = "preserve", !.todo = Captured(jr[op.r]), !.next = "index"]
             ELSE IF NoteText = jr[op.r].exp THEN [op EXCEPT !.pc = "stage"]
             ELSE [op EXCEPT !.pc = "copy", !.copy = Body[op.r], !.last = TRUE]
    /\ UNCHANGED <<disk, book, db, user, cloud, bounds, past>>

\* Every captured file is read again; one that does not hold the expected
\* text is copied beside the note and marks the save as a conflict.
Preserve ==
    /\ op.pc = "preserve" /\ op.todo # {}
    /\ \E i \in op.todo :
         LET t == CaptureBytes(op.r, i)
             on == [op EXCEPT !.todo = @ \ {i}]
         IN CASE t = jr[op.r].exp -> jr' = jr /\ op' = on
              [] t = Nothing -> /\ jr' = [jr EXCEPT ![op.r].conflict = TRUE]
                                /\ op' = on
              [] OTHER -> jr' = jr /\ op' = [on EXCEPT !.pc = "copy", !.copy = t]
    /\ UNCHANGED <<disk, copies, db, user, cloud, bounds, past>>

Preserved ==
    /\ op.pc = "preserve" /\ op.todo = {}
    /\ op' = [op EXCEPT !.pc = op.next]
    /\ UNCHANGED <<disk, book, db, user, cloud, bounds, past>>

\* The note must now hold the body; a recovery then reads what was captured
\* once more.  One that found the exchange done keeps the payload first and
\* ends the mutation after it; one that exchanged itself refuses at once.
Verify ==
    /\ op.pc = "verify"
    /\ CASE NoteText = Body[op.r] /\ op.rec ->
              jr' = jr /\ op' = [op EXCEPT !.pc = "preserve", !.next = "index",
                                          !.todo = Captured(jr[op.r])]
         [] NoteText = Body[op.r] /\ ~op.rec ->
              jr' = jr /\ op' = [op EXCEPT !.pc = "published"]
         [] NoteText # Body[op.r] /\ op.rec /\ op.before = Nothing ->
              jr' = jr /\ op' = [op EXCEPT !.pc = "copy", !.copy = Body[op.r], !.last = TRUE]
         [] OTHER -> Refuse
    /\ UNCHANGED <<disk, copies, db, user, cloud, bounds, past>>

\* The call returns StaleWrite.
Refused ==
    /\ op.pc = "refused"
    /\ Answer("stale")
    /\ UNCHANGED <<disk, book, db, editor, cloud, bounds, past>>

-----------------------------------------------------------------------------
(* finish.                                                                 *)

Published ==
    /\ op.pc = "published"
    /\ jr' = [jr EXCEPT ![op.r].stage = "published"]
    /\ op' = [op EXCEPT !.pc = "index"]
    /\ UNCHANGED <<disk, copies, db, user, cloud, bounds, past>>

\* One transaction: the token, the object's state, an upload job unless the
\* mutation is indexed already, and its stage.
Index ==
    /\ op.pc = "index"
    /\ LET r == op.r
           j == jr[r]
       IN db' = [db EXCEPT
                   !.gen = j.gen, !.hash = Body[r],
                   !.state = IF j.conflict THEN "conflicted" ELSE j.was,
                   !.stage[r] = "indexed",
                   !.jobs = IF j.noop \/ db.stage[r] = "indexed" THEN @
                            ELSE Append(@, [r |-> r, status |-> "queued"])]
    /\ op' = [op EXCEPT !.pc = "indexed"]
    /\ UNCHANGED <<disk, book, user, cloud, bounds, past>>

\* The journal says indexed; a save acknowledges, a recovery goes on.
Indexed ==
    /\ op.pc = "indexed"
    /\ jr' = [jr EXCEPT ![op.r].stage = "indexed"]
    /\ op' = IF op.rec THEN [Idle EXCEPT !.pc = "scan", !.goal = op.goal]
                       ELSE [op EXCEPT !.pc = "ack"]
    /\ UNCHANGED <<disk, copies, db, user, cloud, bounds, past>>

Ack ==
    /\ op.pc = "ack"
    /\ Answer(IF jr[op.r].conflict THEN "conflict" ELSE "ok")
    /\ editor' = [editor EXCEPT !.tok = [gen |-> jr[op.r].gen, hash |-> Body[op.r]]]
    /\ UNCHANGED <<disk, book, db, cloud, bounds, past>>

-----------------------------------------------------------------------------
(* Recovery: the pending mutations in the order of their sequence numbers, *)
(* and the conflict copies both recovery and a save may have to make.      *)

RecoverNext ==
    /\ op.pc = "scan"
    /\ \E r \in Pending :
         /\ \A q \in Pending : jr[r].seq <= jr[q].seq
         /\ op' = [op EXCEPT !.pc = "project", !.r = r, !.rec = TRUE]
    /\ UNCHANGED <<disk, book, db, user, cloud, bounds, past>>

RecoverDone ==
    /\ op.pc = "scan" /\ Pending = {} /\ op.goal = Nothing
    /\ op' = Idle
    /\ UNCHANGED <<disk, book, db, user, cloud, bounds, past>>

Copied(r, t) ==
    \E k \in DOMAIN copies[r] : data[copies[r][k]] = t
        /\ (<<k, t>> \in jr[r].planned \/ jr[r].plan = k)

\* After a copy: on to the next captured file, or the mutation is over.
AfterCopy ==
    IF op.last THEN [op EXCEPT !.pc = "conflict"]
    ELSE [op EXCEPT !.pc = "preserve", !.copy = Nothing]

CopyKnown ==
    /\ op.pc = "copy" /\ Copied(op.r, op.copy)
    /\ op' = AfterCopy
    /\ jr' = IF op.last THEN jr ELSE [jr EXCEPT ![op.r].conflict = TRUE]
    /\ UNCHANGED <<disk, copies, db, user, cloud, bounds, past>>

\* conflict-stage in the journal.
CopyStage ==
    /\ op.pc = "copy" /\ ~Copied(op.r, op.copy)
    /\ LET c == jr[op.r].cstage IN
       IF c # 0 /\ data[c] = op.copy THEN UNCHANGED <<data, jr>>
       ELSE /\ data' = Append(data, op.copy)
            /\ jr' = [jr EXCEPT ![op.r].cstage = NewInode]
    /\ op' = [op EXCEPT !.pc = "plan"]
    /\ UNCHANGED <<note, held, fresh, copies, db, user, cloud, bounds, past>>

\* The intent records the copy's name: the one planned before if nothing is
\* there, else the first free one.
CopyPlan ==
    /\ op.pc = "plan"
    /\ LET j == jr[op.r]
           k == Len(copies[op.r]) + 1
       IN jr' = [jr EXCEPT ![op.r] = IF j.plan = k THEN j
                    ELSE [j EXCEPT !.plan = k, !.planned = @ \cup {<<k, op.copy>>}]]
    /\ op' = [op EXCEPT !.pc = "place"]
    /\ UNCHANGED <<disk, copies, db, user, cloud, bounds, past>>

CopyPlace_NoMark ==
    /\ op.pc = "place"
    /\ copies' = [copies EXCEPT ![op.r] = Append(@, jr[op.r].cstage)]
    /\ jr' = [jr EXCEPT ![op.r].cstage = 0]
    /\ op' = AfterCopy
    /\ UNCHANGED <<disk, db, user, cloud, bounds, past>>

CopyPlace ==
    /\ op.pc = "place"
    /\ copies' = [copies EXCEPT ![op.r] = Append(@, jr[op.r].cstage)]
    /\ jr' = [jr EXCEPT ![op.r].cstage = 0, ![op.r].conflict = @ \/ ~op.last]
    /\ op' = AfterCopy
    /\ UNCHANGED <<disk, db, user, cloud, bounds, past>>

\* The body is in its copy: the mutation ends as a conflict, first in the
\* journal and then in the index.
EndConflict_IndexOnly ==
    /\ op.pc = "conflict"
    /\ op' = [op EXCEPT !.pc = "conflicted"]
    /\ UNCHANGED <<disk, book, db, user, cloud, bounds, past>>

EndConflict ==
    /\ op.pc = "conflict"
    /\ jr' = [jr EXCEPT ![op.r].stage = "conflicted"]
    /\ op' = [op EXCEPT !.pc = "conflicted"]
    /\ UNCHANGED <<disk, copies, db, user, cloud, bounds, past>>

ProjectConflict ==
    /\ op.pc = "conflicted"
    /\ db' = [db EXCEPT !.stage[op.r] = "conflicted"]
    /\ op' = [Idle EXCEPT !.pc = "scan", !.goal = op.goal]
    /\ UNCHANGED <<disk, book, user, cloud, bounds, past>>

\* A crash, or an error that ends the call: the journal and the files stay.
Stop ==
    /\ op.pc # "idle" /\ stops < MaxStops
    /\ stops' = stops + 1
    /\ Answer("lost")
    /\ UNCHANGED <<disk, book, db, editor, cloud, resends, past>>

-----------------------------------------------------------------------------
(* Uploads.                                                                *)

FirstJob(k) == /\ k \in DOMAIN db.jobs /\ db.jobs[k].status = "queued"
               /\ \A i \in 1..k-1 : db.jobs[i].status # "queued"
JobText(k) == Body[db.jobs[k].r]

\* upload_binding_is_current and upload_generation_matches.
Bound_TokenOnly(k) == db.state # "conflicted"
Bound(k) == /\ db.state # "conflicted" /\ db.hash = JobText(k)
            /\ \A i \in DOMAIN db.jobs : i > k => db.jobs[i].status # "queued"
Current(k) == Bound(k) /\ NoteText = JobText(k)

\* A stale job waits for a pending mutation of the note, else it is over.
DropStale(k) ==
    db' = IF Pending # {} THEN db ELSE [db EXCEPT !.jobs[k].status = "done"]

UploadStep(from, to) ==
    \E k \in DOMAIN db.jobs :
      /\ FirstJob(k) /\ up.pc = from
      /\ IF Current(k) THEN up' = [up EXCEPT !.pc = to] /\ db' = db
         ELSE up' = NoUpload /\ DropStale(k)
      /\ UNCHANGED <<disk, book, user, op, remote, bounds, past>>

\* Check and store the blob; check again before the commit.
UploadBlob == UploadStep("idle", "blob")
UploadCheck == UploadStep("blob", "commit")

UploadCommit ==
    \E k \in DOMAIN db.jobs :
      /\ FirstJob(k) /\ up.pc = "commit"
      /\ remote' = Append(remote, JobText(k))
      /\ up' = [up EXCEPT !.pc = "compare"]
      /\ UNCHANGED <<disk, book, db, user, op, bounds, past>>

UploadCompare ==
    \E k \in DOMAIN db.jobs :
      /\ FirstJob(k) /\ up.pc = "compare"
      /\ up' = [pc |-> "finish", same |-> NoteText = JobText(k)]
      /\ UNCHANGED <<disk, book, db, user, op, remote, bounds, past>>

UploadFinish ==
    \E k \in DOMAIN db.jobs :
      /\ FirstJob(k) /\ up.pc = "finish"
      /\ db' = [db EXCEPT !.jobs[k].status = "done",
                          !.state = IF up.same /\ Bound(k) THEN "synced" ELSE @]
      /\ up' = NoUpload
      /\ UNCHANGED <<disk, book, user, op, remote, bounds, past>>

\* The upload fails or the process stops; the job stays in the queue.
UploadFail ==
    /\ up.pc # "idle" /\ stops < MaxStops
    /\ up' = NoUpload
    /\ stops' = stops + 1
    /\ UNCHANGED <<disk, book, db, user, op, remote, resends, past>>

-----------------------------------------------------------------------------
Others == ExtOpen \/ \E e \in Ext : ExtWrite(e) \/ ExtReplace(e)
Calls == Read \/ Recover \/ \E r \in Req : Call(r)
Steps == \/ Replay \/ Begin \/ WriteIntent \/ ProjectPlan \/ WriteStage \/ Preimage
         \/ Recheck \/ Arm \/ Exchange \/ Complete \/ Resume \/ Preserve \/ Preserved
         \/ Verify \/ Refused \/ Published \/ Index \/ Indexed \/ Ack \/ RecoverNext
         \/ RecoverDone \/ CopyKnown \/ CopyStage \/ CopyPlan \/ CopyPlace
         \/ EndConflict \/ ProjectConflict
Uploads == UploadBlob \/ UploadCheck \/ UploadCommit \/ UploadCompare \/ UploadFinish

Next == Others \/ Calls \/ Steps \/ Stop \/ Uploads \/ UploadFail

Spec == Init /\ [][Next]_vars

\* A running operation goes on; the uploader runs; a recovery is tried again
\* at the next call, of which there is always one (the tree is listed).
FairSpec == Spec /\ WF_vars(Steps) /\ WF_vars(Recover) /\ WF_vars(Uploads)

-----------------------------------------------------------------------------
(* Properties.                                                             *)

Settled == op.pc = "idle" /\ Pending = {}
Surfaced(t) == \E r \in Req : \E k \in DOMAIN copies[r] : data[copies[r][k]] = t

Pcs == {"idle", "scan", "intent", "project", "stage", "preimage", "recheck", "arm",
        "exchange", "complete", "preserve", "verify", "refused", "published", "index",
        "indexed", "ack", "copy", "plan", "place", "conflict", "conflicted"}
Stages == {"none", "intent", "published", "indexed", "conflicted"}

\* Types, and that every name in the journals is of a file that exists.
TypeOK ==
    /\ \A i \in DOMAIN data : data[i] \in Texts
    /\ fresh \subseteq Ext
    /\ note \in DOMAIN data /\ held \in DOMAIN data \cup {0}
    /\ \A r \in Req :
         /\ jr[r].stage \in Stages /\ jr[r].exp \in Texts \cup {Nothing}
         /\ Captured(jr[r]) \cup ({jr[r].stg, jr[r].cstage} \ {0}) \subseteq DOMAIN data
         /\ \A k \in DOMAIN copies[r] : copies[r][k] \in DOMAIN data
    /\ db.hash \in Texts /\ db.state \in {"synced", "pending_upload", "conflicted"}
    /\ \A r \in Req : reply[r] \in {"none", "ok", "conflict", "stale", "lost"}
    /\ op.pc \in Pcs /\ op.r \in Req \cup {Nothing} /\ op.goal \in Req \cup {Nothing}
    /\ up.pc \in {"idle", "blob", "commit", "compare", "finish"}

\* A save answered without a conflict displaced exactly the text its token
\* named, whatever other programs wrote between the checks and the exchange
\* and whatever stopped and was recovered in between.
AckedOverExpected ==
    \A r \in Req : reply[r] = "ok" => over[r] \in {Nothing, jr[r].exp}

\* The observed versions are kept and an uncertain one gets a conflict copy:
\* once nothing runs, a text that an exchange displaced is the expected one
\* or lies beside the note.  (A file another journal also links is left out:
\* capture_bytes takes that link for a copy already made.)
DisplacedSurfaces ==
    Settled => \A r \in Req :
        LET i == jr[r].disp IN
        (i # 0 /\ i \notin late /\ Links(i) = OwnLinks(r, i)) =>
            data[i] = jr[r].exp \/ Surfaced(data[i])

\* The text of an acknowledged save is at the path, in the hands of a save
\* that expected it, or was written over by another program.
AckedBodyStands ==
    \A r \in Req : reply[r] \in {"ok", "conflict"} /\ ~jr[r].noop =>
        \/ NoteText = Body[r]
        \/ \E q \in Req : over[q] = Body[r] /\ (jr[q].exp = Body[r] \/ Surfaced(Body[r]))
        \/ Body[r] \in gone

\* "Synced" is said only when the newest indexed save is the bucket's head:
\* the answer to an older upload never makes a newer save synced.
SyncedCoversSaves ==
    db.state = "synced" /\ db.jobs # <<>> => remote[Len(remote)] = JobText(Len(db.jobs))

\* Every interrupted mutation reaches an end.
Settles == (Pending # {}) ~> (Pending = {})

=============================================================================
