---------------------------- MODULE NotesReplay ----------------------------
(***************************************************************************)
(* The notes' topology changes on their way to the bucket.  Every create,  *)
(* rename, move, delete and undo of a note or folder is a durable intent   *)
(* in the device's journal, indexed at once; each sync cycle replays the   *)
(* intents not yet committed, uploads the saved notes, and then polls what *)
(* the other devices committed.                                            *)
(*                                                                         *)
(* One folder of the Notes root, and one note that is inside or outside of *)
(* it.  The user acts at any moment, also in the middle of a replay.  A    *)
(* commit is an attempt written to the intent's receipt and a write of the *)
(* head, as OpLog has it in detail; saves of notes are NoteSave's.           *)
(***************************************************************************)
EXTENDS Integers, Sequences, FiniteSets, SequencesExt

CONSTANTS Devices, MaxChanges, MaxMishaps,
          Mishaps   \* those that may happen: "stop", "keep", "age"

ASSUME BoundsAssumption == MaxChanges \in Nat /\ MaxMishaps \in Nat

Folder == "folder"
Note == "note"
Ids == {Folder, Note}
Places == {"a", "b", "in", "out"}   \* names of the folder, sides of the note
Gone == "gone"
None == [dev |-> "none", req |-> 0, details |-> <<>>]   \* no deletion record

VARIABLES
  log,      \* the committed operations, oldest first
  tree,     \* tree[id]: where the materialized tree has the entry
  tomb,     \* the deletion record of the folder, None without one
  expiry,   \* deletions whose retention is over, the record found expired
  journal,  \* journal[d]: the intents of the device, in sequence order
  row,      \* row[d][id]: the local index, and whether the entry is on disk
  run,      \* run[d]: the sync cycle of the device
  cursor,   \* cursor[d]: the checkpoint, operations the device has polled
  mishaps,  \* those that did happen
  exposed,  \* what the code leaves open and did happen
  hidden    \* history: <<d, i, id>> when something called id synced on d while
            \* change i of it was still to be published

bucket == <<log, tree, tomb, expiry>>
history == <<exposed, hidden>>
vars == <<bucket, journal, row, run, cursor, mishaps, history>>

-----------------------------------------------------------------------------
Op(id, kind, to, d, i) == [id |-> id, kind |-> kind, to |-> to, dev |-> d, req |-> i]
Intent(kind, id, to, ids, of) ==
    [kind |-> kind, id |-> id, to |-> to, ids |-> ids, of |-> of,
     base |-> -1, seen |-> None, acked |-> FALSE, stage |-> "indexed"]
Rest == [pc |-> "rest", i |-> 0, upto |-> 0, seen |-> 0, left |-> <<>>]

Known(at, st) == [at |-> at, st |-> st, here |-> st \in {"synced", "pending"}]
Live(d, id) == row[d][id].st \in {"synced", "pending"}
Here(d, id) == Live(d, id) /\ row[d][id].here
Inside(d) == {Folder} \cup (IF Live(d, Note) /\ row[d][Note].at = "in" THEN {Note} ELSE {})

\* Both are known everywhere, or the folder nowhere yet.
Init ==
    \E shared \in BOOLEAN :
      LET at == [id \in Ids |-> IF id = Note THEN IF shared THEN "in" ELSE "out"
                                ELSE IF shared THEN "a" ELSE Gone]
          created(id) == Op(id, "create", at[id], "earlier", 0)
      IN
      /\ log = IF shared THEN <<created(Folder), created(Note)>> ELSE <<created(Note)>>
      /\ tree = [id \in Ids |-> [at |-> at[id], ver |-> 0, op |-> 0]]
      /\ row = [d \in Devices |-> [id \in Ids |->
                  Known(at[id], IF at[id] = Gone THEN "none" ELSE "synced")]]
      /\ tomb = None /\ expiry = [over |-> {}, found |-> None]
      /\ journal = [d \in Devices |-> <<>>]
      /\ run = [d \in Devices |-> Rest]
      /\ cursor = [d \in Devices |-> Len(log)]
      /\ mishaps = {} /\ exposed = {} /\ hidden = {}

Shows == UNCHANGED hidden
Safe == UNCHANGED history
ExposeAll(tags) == exposed' = exposed \cup tags
Exposes(tag, when) == exposed' = IF when THEN exposed \cup {tag} ELSE exposed

\* The changes of an entry that are not published yet.
Pending(d, id) == {i \in DOMAIN journal[d] : id \in journal[d][i].ids
                                               /\ journal[d][i].stage # "committed"}
ChangePending(d, id) == Pending(d, id) # {}
HiddenChanges(d, id, changes) == {<<d, i, id>> : i \in changes}
Hides(d, id, changes) == hidden' = hidden \cup HiddenChanges(d, id, changes)

-----------------------------------------------------------------------------
(* The user.  A change is an intent and the index projects it at once.      *)

Changes == FoldSet(LAMBDA d, n : n + Len(journal[d]), 0, Devices)
Change(d, intent, rows) ==
    /\ Changes < MaxChanges
    /\ journal' = [journal EXCEPT ![d] = Append(@, intent)]
    /\ row' = [row EXCEPT ![d] = rows]
    /\ UNCHANGED <<bucket, run, cursor, mishaps>> /\ Safe

Marked(d, ids, st) ==
    [id \in Ids |-> IF id \in ids THEN Known(row[d][id].at, st) ELSE row[d][id]]

\* The id of a folder follows from its parent and name; one that was ever
\* used is not taken again.
CreateFolder(d) ==
    /\ row[d][Folder].st = "none"
    /\ Change(d, Intent("create", Folder, "a", {Folder}, 0),
              [row[d] EXCEPT ![Folder] = Known("a", "pending")])

Rename(d) ==
    LET to == CHOOSE n \in {"a", "b"} : n # row[d][Folder].at IN
    /\ Here(d, Folder)
    /\ Change(d, Intent("place", Folder, to, Inside(d), 0),
              [Marked(d, Inside(d), "pending") EXCEPT ![Folder].at = to])

Move(d) ==
    LET to == IF row[d][Note].at = "in" THEN "out" ELSE "in" IN
    /\ Here(d, Note) /\ (to = "in" => Here(d, Folder))
    /\ Change(d, Intent("place", Note, to, {Note}, 0),
              [row[d] EXCEPT ![Note] = Known(to, "pending")])

Save(d) ==
    /\ Here(d, Note)
    /\ Change(d, Intent("save", Note, "in", {Note}, 0), Marked(d, {Note}, "pending"))

Delete(d) ==
    /\ Here(d, Folder)
    /\ Change(d, Intent("delete", Folder, row[d][Folder].at, Inside(d), 0),
              Marked(d, Inside(d), "deleted"))

\* Undo of a deletion of this device that was not undone before.
Restore(d) ==
    \E k \in DOMAIN journal[d] :
      LET del == journal[d][k] IN
      /\ del.kind = "delete" /\ ~Here(d, Folder)
      /\ ~\E i \in DOMAIN journal[d] : journal[d][i].kind = "restore" /\ journal[d][i].of = k
      /\ Change(d, Intent("restore", Folder, del.to, del.ids, k),
                [id \in Ids |-> IF id \notin del.ids THEN row[d][id]
                                ELSE Known(IF id = Folder THEN del.to ELSE "in", "pending")])

-----------------------------------------------------------------------------
(* Operations on the log.                                                  *)

OnTarget(id) == {n \in DOMAIN log : log[n].id = id}
LastOf(ns) == CHOOSE n \in ns : \A m \in ns : m <= n
OwnOp(d, i) == {n \in DOMAIN log : log[n].dev = d /\ log[n].req = i}
Superseded(d, i) == \E n \in OwnOp(d, i), m \in OnTarget(journal[d][i].id) : m > n
Dead(id) == OnTarget(id) # {} /\ log[LastOf(OnTarget(id))].kind = "delete"
RemotelyDeleted ==
    /\ tomb # None
    /\ IF OnTarget(Folder) # {} THEN Dead(Folder) ELSE tree[Folder].at = Gone

\* What one operation makes of a tree.
Applied(op, t) ==
    LET ids == IF op.req = 0 THEN {} ELSE journal[op.dev][op.req].ids IN
    CASE op.kind \in {"place", "create"} -> [t EXCEPT ![op.id] = op.to]
      [] op.kind = "delete" -> [id \in Ids |-> IF id = Folder \/ t[id] = "in" THEN Gone ELSE t[id]]
      [] op.kind = "restore" -> [id \in Ids |-> IF id = Folder THEN op.to
                                                ELSE IF id \in ids /\ t[id] = Gone THEN "in" ELSE t[id]]
      [] OTHER -> t
OfLog == FoldLeft(LAMBDA t, op : Applied(op, t), [id \in Ids |-> Gone], log)

Written(id, at, n) == [tree EXCEPT ![id] = [at |-> at, ver |-> @.ver + 1, op |-> n]]

-----------------------------------------------------------------------------
(* The cycle.                                                              *)

Happens(mishap) ==
    /\ mishap \in Mishaps \ mishaps /\ Cardinality(mishaps) < MaxMishaps
    /\ mishaps' = mishaps \cup {mishap}

\* A run is at an intent, or at an operation of the log when it polls; seen is
\* the head or the version it has read.
Working(d, pc) == run[d].pc = pc
Current(d) == journal[d][run[d].i]
Goto(d, pc) == run' = [run EXCEPT ![d].pc = pc]
Local == UNCHANGED <<row, cursor, mishaps>>

Waiting(d) == {i \in DOMAIN journal[d] :
                 journal[d][i].stage = "indexed" /\ journal[d][i].kind # "save"}

First(kind) ==
    CASE kind = "delete" -> "record" [] kind = "restore" -> "observe" [] OTHER -> "attempt"

\* The next intent not yet committed, of the first n.
NextOf(d, waiting, n) ==
    LET next == {i \in waiting : i <= n} IN
    IF next = {} THEN [Rest EXCEPT !.pc = "upload", !.upto = n]
    ELSE LET i == CHOOSE i \in next : \A j \in next : i <= j
         IN [Rest EXCEPT !.pc = First(journal[d][i].kind), !.i = i, !.upto = n]

\* The intents are read once; those made during the replay are not in it.
Begin(d) ==
    /\ Working(d, "rest")
    /\ cursor[d] < Len(log) \/ \E i \in DOMAIN journal[d] : journal[d][i].stage = "indexed"
    /\ run' = [run EXCEPT ![d] = NextOf(d, Waiting(d), Len(journal[d]))]
    /\ UNCHANGED <<bucket, journal>> /\ Local /\ Safe

\* An error ends the cycle; the next one begins with the same intent.
Fails(d) == run' = [run EXCEPT ![d] = Rest]

Update(d, intent) == journal' = [journal EXCEPT ![d][run[d].i] = intent]

(* write_tombstone: a record of this deletion is kept as it is; another one *)
(* is replaced only by a device that knows it was undone.                   *)

FollowsRestore(d) ==
    \E i \in DOMAIN journal[d] : /\ i <= run[d].upto /\ journal[d][i].kind = "restore"
                                 /\ journal[d][i].stage = "committed"

\* Mutant: any deletion record will do.
Record_AnyRecord(d) ==
    /\ Working(d, "record")
    /\ tomb' = IF tomb = None
               THEN [dev |-> d, req |-> run[d].i, details |-> <<Current(d).to, Current(d).ids>>]
               ELSE tomb
    /\ Goto(d, "attempt")
    /\ UNCHANGED <<log, tree, expiry, journal>> /\ Local /\ Safe

Record(d) ==
    LET me == [dev |-> d, req |-> run[d].i, details |-> <<Current(d).to, Current(d).ids>>]
        same == tomb # None /\ tomb.dev = d /\ tomb.details = me.details
    IN
    /\ Working(d, "record")
    /\ IF OwnOp(d, run[d].i) # {} THEN Goto(d, "attempt") /\ UNCHANGED tomb
       ELSE IF tomb = None \/ (~same /\ FollowsRestore(d))
       THEN tomb' = me /\ Goto(d, "attempt")
       ELSE IF same THEN Goto(d, "attempt") /\ UNCHANGED tomb
       ELSE Fails(d) /\ UNCHANGED tomb
    /\ Exposes("record kept", same /\ tomb.req # run[d].i)
    /\ UNCHANGED <<log, tree, expiry, journal>> /\ Local /\ Shows

(* observe_deletion: the first observation, unless the receipt knows of the *)
(* commit.  A commit whose reply was lost is in the log and not in it.      *)
Observe(d) ==
    /\ Working(d, "observe")
    /\ Update(d, IF Current(d).seen = None /\ ~Current(d).acked
                 THEN [Current(d) EXCEPT !.seen = tomb] ELSE Current(d))
    /\ Goto(d, "attempt")
    /\ ExposeAll({t \in {"early", "late observation"} :
                    /\ Current(d).seen = None /\ ~Current(d).acked /\ tomb # None
                    /\ IF t = "early" THEN OwnOp(tomb.dev, tomb.req) = {}
                       ELSE OwnOp(d, run[d].i) # {}})
    /\ UNCHANGED bucket /\ Local /\ Shows

Projected(d) ==
    IF Current(d).kind = "restore" THEN SetToSeq(Current(d).ids \ {Folder}) \o <<Folder>>
    ELSE <<Current(d).id>>
Committed(d) ==
    run' = [run EXCEPT ![d] = [@ EXCEPT !.pc = "check", !.left = Projected(d)]]

(* prior_commit, and the receipt of the attempt.  A create accepts the      *)
(* folder when it is there.  The parent of a moved note has to exist; it is *)
(* created, and then called synced, where the index has it.                 *)
ParentMissing(d) == Current(d).kind = "place" /\ Current(d).to = "in" /\ tree[Folder].at = Gone
\* Mutant: the retry does not look for the operation of an earlier attempt.
Attempt_Blind(d) ==
    /\ Working(d, "attempt") /\ ~ParentMissing(d)
    /\ run' = [run EXCEPT ![d].pc = "commit", ![d].seen = Len(log)]
    /\ UNCHANGED <<bucket, journal>> /\ Local /\ Safe

Attempt(d) ==
    LET i == run[d].i
        c == Current(d)
        before == {n \in OnTarget(c.id) : n > c.base}
    IN
    /\ Working(d, "attempt")
    /\ IF ParentMissing(d)
       THEN /\ IF Live(d, Folder) /\ tomb = None
               THEN /\ log' = Append(log, Op(Folder, "create", row[d][Folder].at, d, 0))
                    /\ tree' = Written(Folder, row[d][Folder].at, Len(log) + 1)
                    /\ row' = [row EXCEPT ![d][Folder].st = "synced"]
                    /\ Hides(d, Folder, Pending(d, Folder))
                    /\ UNCHANGED run
               ELSE Fails(d) /\ UNCHANGED <<log, tree, row, hidden>>
            /\ UNCHANGED journal
       ELSE /\ UNCHANGED <<log, tree, row, hidden>>
            /\ IF OwnOp(d, i) # {}
               THEN Committed(d) /\ Update(d, [c EXCEPT !.acked = TRUE])
               ELSE IF c.base >= 0 /\ before # {} THEN Fails(d) /\ UNCHANGED journal
               ELSE IF c.kind = "create" /\ tree[Folder].at # Gone
               THEN /\ IF tree[Folder].at = c.to THEN Goto(d, "mark") ELSE Fails(d)
                    /\ UNCHANGED journal
               ELSE IF c.kind = "create" /\ tomb # None THEN Fails(d) /\ UNCHANGED journal
               ELSE /\ Update(d, [c EXCEPT !.base = IF @ < 0 THEN Len(log) ELSE @])
                    /\ run' = [run EXCEPT ![d].pc = "commit", ![d].seen = Len(log)]
    /\ Exposes("already there", run'[d].pc = "mark" /\ Dead(Folder))
    /\ UNCHANGED <<tomb, expiry, cursor, mishaps>>

(* The head is written unless the target changed since it was read, and     *)
(* then the receipt notes the commit.                                       *)
Overtaken(d) == \E n \in OnTarget(Current(d).id) : n > run[d].seen
HeadWritten(d) ==
    LET c == Current(d) IN
    /\ log' = Append(log, Op(c.id, c.kind, c.to, d, run[d].i))
    /\ Exposes("undead", c.kind = "place" /\ Dead(c.id))
    /\ UNCHANGED <<tree, tomb, expiry, row, cursor>> /\ Shows

Commit(d) ==
    LET c == Current(d) IN
    /\ Working(d, "commit")
    /\ IF Overtaken(d)
       THEN /\ IF c.kind = "create" /\ tree[Folder].at = c.to THEN Goto(d, "mark") ELSE Fails(d)
            /\ Exposes("already there", run'[d].pc = "mark" /\ Dead(Folder))
            /\ UNCHANGED <<bucket, journal, row, cursor>> /\ Shows
       ELSE HeadWritten(d) /\ Committed(d) /\ Update(d, [c EXCEPT !.acked = TRUE])
    /\ UNCHANGED mishaps

\* A stop, or a lost reply, between the head and the receipt.
CommitUnseen(d) ==
    /\ Happens("stop")
    /\ Working(d, "commit") /\ ~Overtaken(d)
    /\ HeadWritten(d) /\ Fails(d) /\ UNCHANGED journal

(* project: read the entry, see whether a newer operation has the target,  *)
(* write over the version read.  A create, and what comes back inside a     *)
(* restored folder, only fill a gap.                                        *)

Target(d) == Head(run[d].left)
Done(d) ==
    [run[d] EXCEPT !.left = Tail(@),
       !.pc = IF Len(run[d].left) > 1 THEN "check"
              ELSE IF Current(d).kind = "restore" THEN "retire" ELSE "mark"]
Filled(d) == tree[Target(d)].at # Gone /\ (Current(d).kind = "create" \/ Target(d) # Current(d).id)

\* Mutant: newer operations are not looked for.
CheckNewer_Unchecked(d) ==
    /\ Working(d, "check")
    /\ run' = [run EXCEPT ![d] =
         IF Current(d).kind = "delete" THEN [@ EXCEPT !.pc = "drop"]
         ELSE IF Filled(d) THEN Done(d)
         ELSE [@ EXCEPT !.pc = "put", !.seen = tree[Target(d)].ver]]
    /\ UNCHANGED <<bucket, journal>> /\ Local /\ Safe

CheckNewer(d) ==
    /\ Working(d, "check")
    /\ run' = [run EXCEPT ![d] =
         IF Superseded(d, run[d].i) THEN Done(d)
         ELSE IF Current(d).kind = "delete" THEN [@ EXCEPT !.pc = "drop"]
         ELSE IF Filled(d) THEN Done(d)
         ELSE [@ EXCEPT !.pc = "put", !.seen = tree[Target(d)].ver]]
    /\ Exposes("restore lost", Superseded(d, run[d].i) /\ Target(d) # Current(d).id /\ ~Filled(d))
    /\ UNCHANGED <<bucket, journal>> /\ Local /\ Shows

\* Mutant: the write does not depend on the version read.
PutEntry_Unconditional(d) ==
    LET n == CHOOSE n \in OwnOp(d, run[d].i) : TRUE IN
    /\ Working(d, "put")
    /\ tree' = Written(Target(d), IF Target(d) = Current(d).id THEN Current(d).to ELSE "in", n)
    /\ run' = [run EXCEPT ![d] = Done(d)]
    /\ UNCHANGED <<log, tomb, expiry, journal>> /\ Local /\ Safe

PutEntry(d) ==
    LET n == CHOOSE n \in OwnOp(d, run[d].i) : TRUE
        id == Target(d)
    IN
    /\ Working(d, "put")
    /\ IF tree[id].ver = run[d].seen
       THEN /\ tree' = Written(id, IF id = Current(d).id THEN Current(d).to ELSE "in", n)
            /\ run' = [run EXCEPT ![d] = Done(d)]
       ELSE Goto(d, "check") /\ UNCHANGED tree
    /\ Exposes("orphan", id = Note /\ \E m \in OnTarget(Folder) : m > n /\ log[m].kind # "place")
    /\ UNCHANGED <<log, tomb, expiry, journal>> /\ Local /\ Shows

\* The entries of the subtree as this device knew it, whatever they are now.
DropEntries(d) ==
    LET n == CHOOSE n \in OwnOp(d, run[d].i) : TRUE
        ids == Current(d).ids
    IN
    /\ Working(d, "drop")
    /\ tree' = [id \in Ids |-> IF id \in ids THEN [at |-> Gone, ver |-> tree[id].ver + 1, op |-> n]
                               ELSE tree[id]]
    /\ ExposeAll({t \in {"late drop", "stale subtree"} :
                    IF t = "late drop" THEN Superseded(d, run[d].i) \/ \E id \in ids : tree[id].op > n
                    ELSE Note \in ids <=> OfLog[Note] = "out"})
    /\ Goto(d, "mark")
    /\ UNCHANGED <<log, tomb, expiry, journal>> /\ Local /\ Shows

\* Exactly the record observed is removed; an endpoint that ignores the
\* condition, or an error, leaves it.
Retire(d) ==
    /\ Working(d, "retire")
    /\ tomb' = IF Current(d).seen = tomb THEN None ELSE tomb
    /\ Goto(d, "mark")
    /\ UNCHANGED <<log, tree, expiry, journal>> /\ Local /\ Safe

KeepRecord(d) ==
    /\ Happens("keep")
    /\ Working(d, "retire") /\ Current(d).seen = tomb /\ tomb # None
    /\ Goto(d, "mark")
    /\ UNCHANGED <<bucket, journal, row, cursor>> /\ Safe

(* The ids whose local state the published intent brings up to date, but   *)
(* for those with a later change among the intents read.                   *)
SyncedBy(c) == IF c.kind = "delete" THEN {} ELSE c.ids
\* Mutant: later changes do not matter.
LaterPending_Never(d, id, n) == FALSE
LaterPending(d, id, n) == \E i \in Pending(d, id) : i > n /\ i <= run[d].upto
\* What this acknowledgement does not look for: a save before the intent,
\* which the cycle has yet to upload, and what was made since it read them.
Overlooked(d, id, n) ==
    {i \in Pending(d, id) : i > run[d].upto \/ (i < n /\ journal[d][i].kind = "save")}

Mark(d) ==
    LET ids == {id \in SyncedBy(Current(d)) : ~LaterPending(d, id, run[d].i)} IN
    /\ Working(d, "mark")
    /\ row' = [row EXCEPT ![d] = [id \in Ids |->
                 IF id \in ids THEN [row[d][id] EXCEPT !.st = "synced"] ELSE row[d][id]]]
    /\ Update(d, [Current(d) EXCEPT !.stage = "committed"])
    /\ run' = [run EXCEPT ![d] = NextOf(d, Waiting(d) \ {@.i}, @.upto)]
    /\ hidden' = hidden \cup
         UNION {HiddenChanges(d, id, Overlooked(d, id, run[d].i)) : id \in ids}
    /\ Exposes("old ack", \E id \in ids : Overlooked(d, id, run[d].i) # {})
    /\ UNCHANGED <<bucket, cursor, mishaps>>

-----------------------------------------------------------------------------
(* Uploads of saved notes.                                                 *)

Saves(d) == {i \in DOMAIN journal[d] :
               journal[d][i].kind = "save" /\ journal[d][i].stage = "indexed"}

PlaceIsStale(id) == \E n \in OnTarget(id) : n > tree[id].op /\ log[n].kind = "place"

\* The newest save carries the content of all; it is committed when its
\* entry is in the tree.  A placement made since the replay read the intents
\* is not looked for.
Unread(d, id) == {i \in Pending(d, id) : i > run[d].upto /\ journal[d][i].kind # "save"}
Upload(d) ==
    /\ Working(d, "upload")
    /\ Saves(d) # {} /\ Here(d, Note) /\ tree[Note].at # Gone
    /\ log' = Append(log, Op(Note, "write", tree[Note].at, d, LastOf(Saves(d))))
    /\ tree' = Written(Note, tree[Note].at, Len(log) + 1)
    /\ journal' = [journal EXCEPT ![d] = [i \in DOMAIN @ |->
                     IF i \in Saves(d) THEN [@[i] EXCEPT !.stage = "committed"] ELSE @[i]]]
    /\ row' = [row EXCEPT ![d][Note].st = "synced"]
    /\ ExposeAll({t \in {"old ack", "rename lost"} :
                    IF t = "old ack" THEN Unread(d, Note) # {} ELSE PlaceIsStale(Note)})
    /\ Hides(d, Note, Unread(d, Note))
    /\ UNCHANGED <<tomb, expiry, run, cursor, mishaps>>

-----------------------------------------------------------------------------
(* The poll applies what was committed since the checkpoint, in order, up   *)
(* to the head it read; the checkpoint moves at its end.                    *)

BeginPoll(d) ==
    /\ Working(d, "upload")
    /\ run' = [run EXCEPT ![d] = IF cursor[d] = Len(log) THEN Rest
                                 ELSE [Rest EXCEPT !.pc = "poll", !.i = cursor[d] + 1,
                                                   !.seen = Len(log)]]
    /\ UNCHANGED <<bucket, journal>> /\ Local /\ Safe

Polled(d) == log[run[d].i]
Polls(d, kinds) ==
    /\ Working(d, "poll") /\ run[d].i <= run[d].seen /\ Polled(d).kind \in kinds
    /\ run' = [run EXCEPT ![d].i = @ + 1]
    /\ UNCHANGED <<bucket, journal, cursor, mishaps>>

\* A folder that an operation brings back is synced, whatever was changed here since.
BackAgain(d) ==
    LET back == row'[d][Folder].st = "synced" /\ row[d][Folder].st # "synced" IN
    Hides(d, Folder, IF back THEN Pending(d, Folder) ELSE {})

\* A rename or move overtaken in this batch, or by a change this device has
\* not committed yet, places nothing.  What was removed here stays so, and is
\* placed in the index alone.  A folder on the way to the note comes along.
PollPlace(d) ==
    LET op == Polled(d)
        was == row[d][op.id]
        later == \E n \in run[d].i + 1..run[d].seen : log[n].id = op.id /\ log[n].kind = "place"
        parent == op.to = "in" => ~RemotelyDeleted /\ (Live(d, Folder) \/ tree[Folder].at # Gone)
        claimed == op.to = "in" /\ ~Live(d, Folder)
        placed == [row[d] EXCEPT ![op.id] = [was EXCEPT !.at = op.to, !.here = Live(d, op.id)]]
    IN
    /\ Polls(d, {"place"})
    /\ row' = IF later \/ (op.dev = d /\ ChangePending(d, op.id)) \/ was.st = "none" \/ ~parent
                 \/ (op.id = Folder /\ Live(d, Folder) /\ RemotelyDeleted)
              THEN row
              ELSE [row EXCEPT ![d] = IF claimed THEN [placed EXCEPT ![Folder] = Known(tree[Folder].at, "synced")]
                                      ELSE placed]
    /\ ExposeAll({t \in {"stays deleted", "parent gone", "back again"} :
                    CASE t = "stays deleted" -> ~Live(d, op.id)
                      [] t = "parent gone" -> ~parent
                      [] OTHER -> claimed /\ ChangePending(d, Folder)})
    /\ BackAgain(d)

PollCreate(d) ==
    /\ Polls(d, {"create"})
    /\ row' = IF RemotelyDeleted THEN row
              ELSE [row EXCEPT ![d][Folder] =
                      IF Live(d, Folder) THEN [@ EXCEPT !.at = Polled(d).to, !.here = TRUE]
                      ELSE Known(Polled(d).to, "synced")]
    /\ Exposes("back again", ChangePending(d, Folder))
    /\ BackAgain(d)

\* A note with unsynced changes stays where it is, without its folder.
PollDelete(d) ==
    LET changed == Inside(d) # {Folder} /\ row[d][Note].st # "synced" IN
    /\ Polls(d, {"delete"})
    /\ row' = IF Live(d, Folder)
              THEN [row EXCEPT ![d] = Marked(d, IF changed THEN {Folder} ELSE Inside(d), "removed")]
              ELSE row
    /\ Safe

\* Mutant: the folder comes back without its contents.
PollRestore_FolderOnly(d) ==
    /\ Polls(d, {"restore"})
    /\ row' = IF tree[Folder].at = Gone \/ RemotelyDeleted THEN row
              ELSE [row EXCEPT ![d][Folder] = Known(Polled(d).to, "synced")]
    /\ Safe

PollRestore(d) ==
    LET op == Polled(d)
        back == row[d][Note].st = "removed" /\ row[d][Note].at = "in" /\ tree[Note].at # Gone
    IN
    /\ Polls(d, {"restore"})
    /\ row' = IF tree[Folder].at = Gone \/ RemotelyDeleted THEN row
              ELSE [row EXCEPT ![d] = [id \in Ids |->
                      IF id = Folder THEN Known(op.to, "synced")
                      ELSE IF back THEN Known("in", "synced") ELSE row[d][id]]]
    /\ ExposeAll({t \in {"late entry", "stays deleted", "back again"} :
                    CASE t = "late entry" -> \/ tree[Folder].at = Gone /\ ~RemotelyDeleted
                                             \/ tree[Note].at = Gone /\ OfLog[Note] = "in"
                      [] t = "stays deleted" -> row[d][Note].st = "deleted"
                      [] OTHER -> ChangePending(d, Folder)})
    /\ BackAgain(d)

PollWrite(d) == Polls(d, {"write"}) /\ UNCHANGED row /\ Safe

EndPoll(d) ==
    /\ Working(d, "poll") /\ run[d].i > run[d].seen
    /\ cursor' = [cursor EXCEPT ![d] = run[d].seen]
    /\ run' = [run EXCEPT ![d] = Rest]
    /\ UNCHANGED <<bucket, journal, row, mishaps>> /\ Safe

-----------------------------------------------------------------------------
(* Expired deletion records, and stops.                                    *)

\* Ninety days pass for the deletion in force.
Age ==
    /\ Happens("age") /\ tomb # None
    /\ expiry' = [expiry EXCEPT !.over = @ \cup {<<tomb.dev, tomb.req>>}]
    /\ UNCHANGED <<log, tree, tomb, journal, row, run, cursor>> /\ Safe

\* A maintenance pass reads an expired record and sees that the tree agrees
\* with the newest operation.
FindExpired ==
    /\ expiry.found = None /\ <<tomb.dev, tomb.req>> \in expiry.over
    /\ OnTarget(Folder) # {} => (Dead(Folder) <=> tree[Folder].at = Gone)
    /\ expiry' = [expiry EXCEPT !.found = tomb]
    /\ UNCHANGED <<log, tree, tomb, journal, row, run, cursor, mishaps>> /\ Safe

\* It removes that very record.
CollectRecord ==
    /\ expiry.found # None
    /\ tomb' = IF tomb = expiry.found THEN None ELSE tomb
    /\ expiry' = [expiry EXCEPT !.found = None]
    /\ UNCHANGED <<log, tree, journal, row, run, cursor, mishaps>> /\ Safe

Stop(d) ==
    /\ Happens("stop") /\ ~Working(d, "rest")
    /\ run' = [run EXCEPT ![d] = Rest]
    /\ UNCHANGED <<bucket, journal, row, cursor>> /\ Safe

-----------------------------------------------------------------------------
User(d) == CreateFolder(d) \/ Rename(d) \/ Move(d) \/ Save(d) \/ Delete(d) \/ Restore(d)

Publish(d) ==
    \/ Begin(d) \/ Record(d) \/ Observe(d) \/ Attempt(d) \/ Commit(d)
    \/ CommitUnseen(d) \/ CheckNewer(d) \/ PutEntry(d) \/ DropEntries(d) \/ Retire(d)
    \/ Mark(d) \/ Upload(d)

Poll(d) ==
    \/ BeginPoll(d) \/ EndPoll(d)
    \/ PollPlace(d) \/ PollCreate(d) \/ PollDelete(d) \/ PollRestore(d) \/ PollWrite(d)

Next ==
    \/ \E d \in Devices : User(d) \/ Publish(d) \/ Poll(d) \/ KeepRecord(d) \/ Stop(d)
    \/ Age \/ FindExpired \/ CollectRecord

Spec == Init /\ [][Next]_vars

-----------------------------------------------------------------------------
(* Properties.                                                             *)

\* Every variable stays in its range: an operation and a deletion record name
\* an intent, a run the intent it is at, and each commit belongs to one request.
TypeOK ==
    LET at == Places \cup {Gone}
        ops == [id : Ids, kind : {"create", "place", "write", "delete", "restore"},
                to : at, dev : Devices \cup {"earlier"}, req : Nat]
        states == {"none", "synced", "pending", "deleted", "removed"}
        record == [dev : Devices, req : Nat, details : Places \X SUBSET Ids] \cup {None}
        points == {"rest", "record", "observe", "attempt", "commit", "check", "put", "drop",
                   "retire", "mark", "upload", "poll"}
        named(x) == x.dev \in Devices /\ x.req \in DOMAIN journal[x.dev]
    IN
    /\ \A n \in DOMAIN log :
         /\ log[n] \in ops
         /\ log[n].req # 0 => named(log[n]) /\ OwnOp(log[n].dev, log[n].req) = {n}
    /\ tree \in [Ids -> [at : at, ver : Nat, op : 0..Len(log)]]
    /\ tomb \in record /\ (tomb # None => named(tomb))
    /\ expiry \in [over : SUBSET (Devices \X Nat), found : record]
    /\ row \in [Devices -> [Ids -> [at : at, st : states, here : BOOLEAN]]]
    /\ \A d \in Devices :
         /\ \A i \in DOMAIN journal[d] : journal[d][i].seen \in record
         /\ run[d].pc \in points /\ run[d].upto <= Len(journal[d])
         /\ run[d].pc \in points \ {"rest", "upload", "poll"} =>
              run[d].i \in DOMAIN journal[d] /\ journal[d][run[d].i].stage = "indexed"
         /\ Working(d, "poll") => run[d].seen <= Len(log) /\ run[d].i \in 1..run[d].seen + 1
         /\ cursor[d] <= Len(log)
    /\ hidden \subseteq Devices \X Nat \X Ids
    /\ mishaps \subseteq Mishaps /\ Cardinality(mishaps) <= MaxMishaps

\* No device is in the middle of a change that is already in the log.
Settled == \A d \in Devices : Working(d, "rest") /\ \A i \in Waiting(d) : OwnOp(d, i) = {}

\* Nothing is left to publish or to poll.
AllQuiet ==
    \A d \in Devices : /\ Working(d, "rest") /\ cursor[d] = Len(log)
                       /\ \A i \in DOMAIN journal[d] : journal[d][i].stage = "committed"

Spared(tags) == exposed \cap tags # {}

\* Once the commits are projected, the materialized tree is the fold of the
\* log: `project` writes an entry for every operation that nothing newer
\* overtook, and for no other (notes_intake.rs).  What the code leaves open:
\* an edit that overtakes a move; entries dropped after a newer operation, or
\* by a subtree as the deleting device knew it; the placement of a folder
\* deleted meanwhile, or of a note in one; the contents of a restored folder
\* that another device has already renamed.
TreeIsLog ==
    Settled => /\ tree[Folder].at = OfLog[Folder] \/ Spared({"late drop"})
               /\ \/ tree[Note].at = OfLog[Note]
                  \/ Spared({"rename lost", "stale subtree", "late drop", "undead",
                             "orphan", "restore lost"})

\* A projection that was delayed never writes an entry over that of a newer
\* operation on the same id: the write is conditional on the version read before
\* newer operations were looked for (project, notes_intake.rs).  The deletion of
\* an entry is unconditional (publish_delete), and is not a write of one here.
NeverOlder ==
    [][\A id \in Ids :
         \/ tree'[id].at = Gone \/ tree'[id].op >= tree[id].op
         \/ log[tree[id].op].id # id]_vars

\* What the index calls synced has no change waiting for the bucket: an old
\* acknowledgement does not cover a newer generation (synced_by and
\* latest_pending_sequences).  Each change it may hide is one of these, and
\* `hidden` names it: one made since the cycle read the intents, a save before
\* the intent that this cycle has yet to upload (Overlooked, Unread); one of a
\* folder published as the parent of a moved note (ensure_remote_folder); one of
\* the folder when another device's operation brought it back (BackAgain).
SyncedIsCommitted ==
    \A d \in Devices, id \in Ids :
       row[d][id].st = "synced" => \A i \in Pending(d, id) : <<d, i, id>> \in hidden

\* With nothing left to publish or to poll, every device has the folder and
\* the note where the bucket has them, or nowhere if the bucket has them
\* nowhere; `exposed` holds the cases the code leaves apart.
DevicesAgree ==
    AllQuiet => \A d \in Devices, id \in Ids :
       \/ IF Here(d, id) THEN row[d][id].at = tree[id].at ELSE tree[id].at = Gone
       \/ Spared({"undead", "old ack", "rename lost", "stale subtree", "late drop",
                  "stays deleted", "orphan", "late entry", "back again", "restore lost",
                  "already there", "parent gone"})

\* A deletion in force has its own record, or had it for the ninety days: a
\* later deletion never runs on what was left of the retention of an earlier
\* one, and a restore never takes the record of another deletion away
\* (write_tombstone, observe_deletion, retire_deletion).  What is open: the
\* same device deletes the same things again after a record was not removed; a
\* restore observes a record whose deletion is not committed yet; one whose
\* commit was not acknowledged observes what it finds when it is retried, and
\* that may be the record of a newer deletion.
RetentionIsFresh ==
    LET dels == OnTarget(Folder) IN
    Settled /\ Dead(Folder)
      => LET op == log[LastOf(dels)] IN
         \/ tomb.dev = op.dev /\ tomb.req = op.req
         \/ <<op.dev, op.req>> \in expiry.over \/ Spared({"record kept", "early", "late observation"})

\* A rename or move does not conflict with an edit: an edit of the note leaves
\* it where a committed move put it (docs/spec/conflict-policy.md:17 and 28).
EditKeepsPlace ==
    LET places == {n \in OnTarget(Note) : log[n].kind # "write"}
        folderStays == \A n \in OnTarget(Folder) : log[n].kind = "create"
    IN
    Settled /\ folderStays => tree[Note].at = log[LastOf(places)].to

=============================================================================
