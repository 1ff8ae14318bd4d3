------------------------------ MODULE Folders ------------------------------
(***************************************************************************)
(* Folders of the sync folder as nodes of the bucket tree (sync/folders.rs)*)
(* and what happens to them when users create, move and remove folders and *)
(* move or edit a file in them on several devices (local_changes.rs,       *)
(* remote_changes.rs).                                                     *)
(*                                                                         *)
(* A device runs cycles: it drains the watcher, handles the events, uploads*)
(* and polls.  Each write to the bucket is a step; other devices and users *)
(* come in between.  A commit is the atomic step CommitLog promises.  What *)
(* a download does to the bytes is FileSync's; here it is part of the step *)
(* that registers the revision.                                            *)
(***************************************************************************)
EXTENDS Integers, FiniteSets, FiniteSetsExt, Sequences, SequencesExt, Functions

CONSTANTS
    Devices,
    Names,      \* names users give to folders
    Acts,       \* kinds of what users do
    MaxActs,    \* bound: what users do in all
    MaxLog      \* bound: operations committed

ASSUME FoldersAssumption == MaxActs \in Nat /\ MaxLog \in Nat

VARIABLES
    log, tree, tomb,        \* bucket: operations, tree entries, tombstones by id
    dirs, files, events,    \* disk: folders, copies of the file (dirty or not), watcher
    row, ckpt, conflicts,   \* index: rows by id, checkpoint of the poll, open conflicts
    stage, batch, todo, poll,  \* cycle: stage, events left, writes left, poll
    second,                 \* history: a device gave the file a second id
    exposed,                \* history: the ways in which a cycle acted on what was no longer so
    did                     \* what users did, by kind

bucket == <<log, tree, tomb>>
disk   == <<dirs, files, events>>
index  == <<row, ckpt, conflicts>>
cycle  == <<stage, batch, todo, poll>>
vars   == <<bucket, disk, index, cycle, second, exposed, did>>

-----------------------------------------------------------------------------
(* Paths are sequences of names, ids are what folder_node_id hashes.  A     *)
(* name is a sequence too: <<"a">>, and <<"a", 2>> for "a (2)".             *)

Root == <<>>
File == <<"file">>
FolderId(parent, name, generation) == <<parent, name, generation>>
At(parent, name) == [parent |-> parent, name |-> name]

Parent(p) == Front(p)
Inside(p, folder) == IsPrefix(folder, p)
StrictlyInside(p, folder) == IsStrictPrefix(folder, p)
MovedPath(p, from, to) ==
    IF Inside(p, from) THEN to \o SubSeq(p, Len(from) + 1, Len(p)) ELSE p

NoPoll == [next |-> 1, to |-> 0]
GoneLocally == {"deleted_locally", "deleted_remotely"}

Init ==
    LET a == FolderId(Root, <<"a">>, 0)
        b == FolderId(Root, <<"b">>, 0)
        place(i) == IF i = File THEN At(a, <<"f">>) ELSE At(Root, i[2])
        path(i)  == IF i = File THEN <<<<"a">>, <<"f">>>> ELSE <<i[2]>>
    IN
    /\ log = <<>> /\ tomb = <<>>
    /\ tree = [i \in {a, b, File} |-> place(i)]
    /\ dirs = [d \in Devices |-> {<<>>, path(a), path(b)}]
    /\ files = [d \in Devices |-> [p \in {path(File)} |-> FALSE]]
    /\ row = [d \in Devices |->
                 [i \in {a, b, File} |->
                     [path |-> path(i), parent |-> place(i).parent, state |-> "synced"]]]
    /\ ckpt = [d \in Devices |-> 0]
    /\ conflicts = [d \in Devices |-> {}]
    /\ events = [d \in Devices |-> <<>>]
    /\ stage = [d \in Devices |-> "rest"]
    /\ batch = [d \in Devices |-> <<>>]
    /\ todo = [d \in Devices |-> <<>>]
    /\ poll = [d \in Devices |-> NoPoll]
    /\ second = FALSE /\ exposed = {}
    /\ did = [k \in Acts |-> 0]

-----------------------------------------------------------------------------
(* The index.                                                              *)

Known(d, i) == i \in DOMAIN row[d]
Live(d, i) == Known(d, i) /\ row[d][i].state \notin GoneLocally
LiveUnder(d, p) == {i \in DOMAIN row[d] : Live(d, i) /\ Inside(row[d][i].path, p)}
FoldersAt(d, p) == {i \in LiveUnder(d, p) : i # File /\ row[d][i].path = p}
FolderAt(d, p) == CHOOSE i \in FoldersAt(d, p) : TRUE
NodeAt(d, p) == IF p = <<>> THEN Root ELSE FolderAt(d, p)
FileAt(d, p) == Known(d, File) /\ row[d][File].path = p

MoveRows_Flat(d, from, to) ==
    [i \in DOMAIN row[d] |->
        IF Live(d, i) /\ row[d][i].path = from THEN [row[d][i] EXCEPT !.path = to]
                                               ELSE row[d][i]]
MoveRows_Not(d, from, to) == row[d]

\* move_subtree: everything live at or under a path follows it.
MoveRows(d, from, to) ==
    [i \in DOMAIN row[d] |->
        IF Live(d, i) THEN [row[d][i] EXCEPT !.path = MovedPath(@, from, to)]
                      ELSE row[d][i]]
MarkRows(d, ids, state) ==
    [i \in DOMAIN row[d] |->
        IF i \in ids THEN [row[d][i] EXCEPT !.state = state] ELSE row[d][i]]
WithRow(rows, i, path, parent, state) ==
    (i :> [path |-> path, parent |-> parent, state |-> state]) @@ rows

(* The disk.                                                               *)

Exists(d, p) == p \in dirs[d] \/ p \in DOMAIN files[d]
MoveDirs(d, from, to) == {MovedPath(p, from, to) : p \in dirs[d]} \cup Prefixes(Parent(to))
MoveFiles(d, from, to) ==
    [p \in {MovedPath(q, from, to) : q \in DOMAIN files[d]} |->
        LET q == CHOOSE q \in DOMAIN files[d] : MovedPath(q, from, to) = p
        IN files[d][q]]
WithoutFiles_Flat(d, p) == Restrict(files[d], DOMAIN files[d] \ {p})
WithoutFiles(d, p) == Restrict(files[d], {q \in DOMAIN files[d] : ~Inside(q, p)})

Renamed(from, to) == [kind |-> "renamed", from |-> from, path |-> to]
Created(p) == [kind |-> "created", path |-> p]
Modified(p) == [kind |-> "modified", path |-> p]
Removed(p) == [kind |-> "deleted", path |-> p]
Notify(d, e) == events' = [events EXCEPT ![d] = Append(@, e)]

(* The bucket.                                                             *)

\* is_remotely_deleted: the newest operation decides, a tombstone may be old.
IsDeleted(i) ==
    /\ i \in DOMAIN tomb
    /\ LET on == {n \in 1..Len(log) : log[n].id = i}
       IN on # {} => log[Max(on)].kind = "delete"

\* What the newest operation makes of an entry, if it has any: its bytes
\* aside.
Newest(i) ==
    LET on == {n \in 1..Len(log) : log[n].id = i /\ log[n].kind # "write"}
    IN IF on = {} THEN <<>> ELSE <<log[Max(on)]>>

-----------------------------------------------------------------------------
(* Users.                                                                  *)

\* One edit at most: what two edits do to each other is FileSync's.
Act(kind) ==
    /\ kind \in Acts
    /\ MapThenSumSet(LAMBDA k : did[k], Acts) < MaxActs
    /\ kind = "edit" => did[kind] = 0
    /\ did' = [did EXCEPT ![kind] = @ + 1]
Places(d) == {Append(p, n) : p \in dirs[d], n \in {<<m>> : m \in Names}}
ByUser == UNCHANGED <<bucket, index, cycle, second, exposed>>

UserCreates(d, p) ==
    /\ Act("create") /\ p \in Places(d) /\ ~Exists(d, p)
    /\ dirs' = [dirs EXCEPT ![d] = @ \cup {p}]
    /\ Notify(d, Created(p))
    /\ ByUser /\ UNCHANGED files

UserMoves(d, from, to) ==
    /\ Act("move") /\ from \in dirs[d] \ {<<>>}
    /\ to \in Places(d) /\ ~Exists(d, to) /\ ~Inside(to, from)
    /\ dirs' = [dirs EXCEPT ![d] = MoveDirs(d, from, to)]
    /\ files' = [files EXCEPT ![d] = MoveFiles(d, from, to)]
    /\ Notify(d, Renamed(from, to))
    /\ ByUser

UserMovesFile(d, from, to) ==
    /\ Act("movefile") /\ from \in DOMAIN files[d] /\ Parent(to) \in dirs[d]
    /\ ~Exists(d, to)
    /\ files' = [files EXCEPT ![d] = MoveFiles(d, from, to)]
    /\ Notify(d, Renamed(from, to))
    /\ ByUser /\ UNCHANGED dirs

UserRemoves(d, p) ==
    /\ Act("remove") /\ p \in dirs[d] \ {<<>>}
    /\ dirs' = [dirs EXCEPT ![d] = {q \in @ : ~Inside(q, p)}]
    /\ files' = [files EXCEPT ![d] = WithoutFiles(d, p)]
    /\ Notify(d, Removed(p))
    /\ ByUser

UserEdits(d, p) ==
    /\ Act("edit") /\ p \in DOMAIN files[d]
    /\ files' = [files EXCEPT ![d][p] = TRUE]
    /\ Notify(d, Modified(p))
    /\ ByUser /\ UNCHANGED dirs

User(d) ==
    \/ \E p \in Places(d) : UserCreates(d, p)
    \/ \E from \in dirs[d], to \in Places(d) : UserMoves(d, from, to)
    \/ \E from \in DOMAIN files[d], p \in dirs[d] : UserMovesFile(d, from, Append(p, <<"f">>))
    \/ \E p \in dirs[d] : UserRemoves(d, p)
    \/ \E p \in DOMAIN files[d] : UserEdits(d, p)

-----------------------------------------------------------------------------
(* The watcher: what a drain makes of the events.                           *)

\* drop_rename_round_trips: a chain of renames that comes back is nothing.
WithoutRoundTrips(es) ==
    LET step(acc, n) ==
            IF es[n].kind # "renamed" THEN [acc EXCEPT !.chain = <<>>]
            ELSE LET chain == IF acc.chain # <<>> /\ es[Last(acc.chain)].path = es[n].from
                              THEN acc.chain ELSE <<>>
                     loop == {k \in DOMAIN chain : es[chain[k]].from = es[n].path}
                 IN IF loop = {} THEN [acc EXCEPT !.chain = Append(chain, n)]
                    ELSE [chain |-> SubSeq(chain, 1, Min(loop) - 1),
                          out |-> acc.out \cup {n}
                                  \cup {chain[k] : k \in Min(loop)..Len(chain)}]
        out == FoldLeft(step, [chain |-> <<>>, out |-> {}], [n \in DOMAIN es |-> n]).out
        kept == SetToSortSeq(DOMAIN es \ out, <)
    IN [n \in DOMAIN kept |-> es[kept[n]]]

\* edits_follow_renames: an earlier edit inside goes where the rename goes.
EditsFollow(es) ==
    LET edit(e, r) == e.kind \in {"created", "modified"} /\ Inside(e.path, r.from)
        step(acc, e) ==
            IF e.kind # "renamed" THEN Append(acc, e)
            ELSE LET moved == SelectSeq(acc, LAMBDA x : edit(x, e)) IN
                 Append(SelectSeq(acc, LAMBDA x : ~edit(x, e)), e)
                 \o [n \in DOMAIN moved |->
                        [moved[n] EXCEPT !.path = MovedPath(@, e.from, e.path)]]
    IN FoldLeft(step, <<>>, es)

\* expand_folder_events: what a new folder holds comes after it, without
\* what a rename of the same drain moved in.
Expanded(d, es) ==
    LET targets(p) == {q \in {es[n].path : n \in {k \in DOMAIN es : es[k].kind = "renamed"}} :
                          StrictlyInside(q, p)}
        within(p) == {q \in dirs[d] \cup DOMAIN files[d] :
                        StrictlyInside(q, p) /\ \A t \in targets(p) : ~Inside(q, t)}
        inside(e) ==
            IF e.kind \in {"created", "renamed"} /\ e.path \in dirs[d]
            THEN LET ps == SetToSortSeq(within(e.path), LAMBDA p, q : Len(p) < Len(q))
                 IN [n \in DOMAIN ps |-> Created(ps[n])]
            ELSE <<>>
    IN FoldLeft(LAMBDA acc, e : Append(acc, e) \o inside(e), <<>>, es)

\* drop_deletes_inside_deleted_folders
WithoutInnerDeletes(es) ==
    LET deleted == {es[n].path : n \in {k \in DOMAIN es : es[k].kind = "deleted"}}
    IN SelectSeq(es, LAMBDA e : e.kind = "deleted"
                                   => \A p \in deleted : ~StrictlyInside(e.path, p))

Drained(d) ==
    WithoutInnerDeletes(Expanded(d, EditsFollow(WithoutRoundTrips(events[d]))))

-----------------------------------------------------------------------------
(* Writes to the bucket.  todo holds the ones a handler still makes, each   *)
(* with what follows it on the device before the next one.                  *)

Op(d, kind, i, at) == [kind |-> kind, id |-> i, at |-> at, by |-> d]
Tomb(i, p) == [do |-> "tomb", id |-> i, path |-> p]
Commit(op) == [do |-> "commit", op |-> op, head |-> Len(log)]
Put(i, at, then, from, path) ==
    [do |-> "put", id |-> i, at |-> at, then |-> then, from |-> from, path |-> path]
Drop(ids) == [do |-> "drop", ids |-> ids]

Writes(d, w) == todo' = [todo EXCEPT ![d] = w]
SetRow(d, rows) == row' = [row EXCEPT ![d] = rows]
Local == UNCHANGED <<bucket, ckpt, conflicts, second, did>>
\* The ways in which a cycle acts on what is no longer so:
\*   "stale event"    a handler takes the path of an event that is not there
\*                    any more, or that something else has since;
\*   "round trip"     the drain takes a user's move back of what the engine
\*                    had moved for part of the engine's own;
\*   "moved by user"  the poll places a folder where the index does not know
\*                    what the user did, or one that is not at its path;
\*   "late entry"     a path gets an id, or a row its parent, from a tree
\*                    entry that is behind the log;
\*   "moved out"      a folder is deleted with what another device moved out;
\*   "parent gone"    something is placed or written in a deleted folder;
\*   "left behind"  a revision lands where the tree has its file by now, and
\*                  what is at the path of the row stays there;
\*   "conflict"     a copy is kept beside a file for the user to settle;
\*   "events lost"  a cycle fails and with it the events it had drained;
\*   "name taken", "cycle"   two devices' moves need a third operation.
Exposes(way, condition) ==
    exposed' = IF condition THEN exposed \cup {way} ELSE exposed
Safe == UNCHANGED exposed

\* A folder that place_folder puts on disk: created, or moved with
\* everything inside.
PlaceLocally(d, i, at, path) ==
    LET old == row[d][i].path
        moves == Live(d, i) /\ old \in dirs[d]
    IN
    /\ dirs' = [dirs EXCEPT ![d] = IF moves THEN MoveDirs(d, old, path) ELSE @ \cup Prefixes(path)]
    /\ files' = [files EXCEPT ![d] = IF moves THEN MoveFiles(d, old, path) ELSE @]
    /\ IF moves THEN Notify(d, Renamed(old, path))
       ELSE IF path \notin dirs[d] THEN Notify(d, Created(path)) ELSE UNCHANGED events
    /\ SetRow(d, IF Live(d, i)
                 THEN [MoveRows(d, old, path) EXCEPT ![i].parent = at.parent]
                 ELSE WithRow(row[d], i, path, at.parent, "synced"))

\* An error ends the cycle: what it had drained is gone.
Fail(d) ==
    /\ stage' = [stage EXCEPT ![d] = "rest"]
    /\ batch' = [batch EXCEPT ![d] = <<>>]
    /\ poll' = [poll EXCEPT ![d] = NoPoll]

\* The record of another deletion of this entry is an error.
TombStep(d) ==
    LET w == Head(todo[d])
        record == [by |-> d, path |-> w.path]
        other == w.id \in DOMAIN tomb /\ tomb[w.id] # record
    IN
    /\ todo[d] # <<>> /\ w.do = "tomb"
    /\ IF other
       THEN Fail(d) /\ Writes(d, <<>>) /\ UNCHANGED tomb
       ELSE /\ tomb' = (w.id :> record) @@ tomb
            /\ Writes(d, Tail(todo[d]))
            /\ UNCHANGED <<stage, batch, poll>>
    /\ Exposes("events lost", other /\ batch[d] # <<>>)
    /\ UNCHANGED <<log, tree, disk, index, second, did>>

\* An upload commits on the head its checks read: an operation on the file
\* since then fails it for good.
CommitStep(d) ==
    LET w == Head(todo[d])
        refused == w.op.kind = "write" /\ \E n \in w.head + 1..Len(log) : log[n].id = File
    IN
    /\ todo[d] # <<>> /\ w.do = "commit" /\ Len(log) < MaxLog
    /\ IF refused
       THEN /\ SetRow(d, MarkRows(d, {File}, "conflicted"))
            /\ Writes(d, <<>>) /\ UNCHANGED log
       ELSE /\ log' = Append(log, w.op)
            /\ Writes(d, Tail(todo[d])) /\ UNCHANGED row
    /\ Exposes("parent gone", w.op.kind = "write" /\ ~refused /\ IsDeleted(row[d][File].parent))
    /\ UNCHANGED <<tree, tomb, disk, ckpt, conflicts, stage, batch, poll, second, did>>

PutStep(d) ==
    LET w == Head(todo[d]) IN
    /\ todo[d] # <<>> /\ w.do = "put"
    /\ tree' = (w.id :> w.at) @@ tree
    /\ Writes(d, Tail(todo[d]))
    /\ IF w.then = "place" THEN PlaceLocally(d, w.id, w.at, w.path)
       ELSE /\ UNCHANGED disk
            /\ CASE w.then = "register" ->
                        SetRow(d, WithRow(row[d], w.id, w.path, w.at.parent, "synced"))
                 [] w.then = "moved" ->
                        SetRow(d, [MoveRows(d, w.from, w.path) EXCEPT ![w.id].parent = w.at.parent])
                 [] w.then = "file" ->
                        SetRow(d, [row[d] EXCEPT ![w.id].path = w.path, ![w.id].parent = w.at.parent])
                 [] w.then = "uploaded" -> SetRow(d, MarkRows(d, {File}, "synced"))
                 [] w.then = "none" -> UNCHANGED row
    /\ UNCHANGED <<log, tomb, ckpt, conflicts, stage, batch, poll, second, did>> /\ Safe

DropStep(d) ==
    LET w == Head(todo[d]) IN
    /\ todo[d] # <<>> /\ w.do = "drop"
    /\ tree' = Restrict(tree, DOMAIN tree \ w.ids)
    /\ SetRow(d, MarkRows(d, {i \in w.ids : Live(d, i)}, "deleted_locally"))
    /\ Writes(d, Tail(todo[d]))
    /\ UNCHANGED <<log, tomb, disk, ckpt, conflicts, stage, batch, poll, second, did>>
    /\ Exposes("moved out", \E i \in w.ids : \E op \in ToSet(Newest(i)) :
                              op.kind = "place" /\ op.at.parent # row[d][i].parent)

-----------------------------------------------------------------------------
(* ensure_folder: the folders of a path get their nodes, parents first.     *)

Lacking(d, p) == {n \in 1..Len(p) : FoldersAt(d, SubSeq(p, 1, n)) = {}}

\* claim_folder_id: the first generation whose id is at this place or free;
\* the id of a folder deleted or moved stays taken.
Claim(d, p) ==
    LET n    == Min(Lacking(d, p))
        path == SubSeq(p, 1, n)
        at   == At(NodeAt(d, Parent(path)), Last(path))
        id(g) == FolderId(at.parent, at.name, g)
        free(g) == IF id(g) \in DOMAIN tree THEN tree[id(g)] = at ELSE id(g) \notin DOMAIN tomb
        i    == id(CHOOSE g \in 0..MaxLog : free(g) /\ \A h \in 0..g - 1 : ~free(h))
    IN
    /\ Lacking(d, p) # {}
    /\ IF i \in DOMAIN tree
       THEN /\ SetRow(d, WithRow(row[d], i, path, at.parent, "synced"))
            /\ UNCHANGED todo
       ELSE /\ Writes(d, <<Commit(Op(d, "create", i, at)), Put(i, at, "register", path, path)>>)
            /\ UNCHANGED row
    /\ IF path \notin dirs[d] THEN exposed' = exposed \cup {"stale event"}
       ELSE Exposes("late entry", i \in DOMAIN tree /\ \E op \in ToSet(Newest(i)) : op.at # at)
    /\ UNCHANGED <<disk, stage, batch, poll>> /\ Local

-----------------------------------------------------------------------------
(* Local changes.                                                          *)

Event(d) == Head(batch[d])
EventDone(d) == batch' = [batch EXCEPT ![d] = Tail(@)]
Handling(d, kind) ==
    /\ stage[d] = "work" /\ todo[d] = <<>> /\ batch[d] # <<>>
    /\ Event(d).kind \in kind
    /\ UNCHANGED <<stage, poll>>

\* The folders an event needs before it can be handled.
Needed(d) ==
    LET e == Event(d) IN
    IF e.kind = "created" THEN IF e.path \in dirs[d] THEN e.path ELSE <<>>
    ELSE IF e.kind # "renamed" THEN <<>>
    ELSE IF FileAt(d, e.from) \/ FoldersAt(d, e.from) # {} THEN Parent(e.path)
    ELSE IF File \in LiveUnder(d, e.from) THEN e.from
    ELSE IF e.path \in dirs[d] THEN e.path ELSE <<>>
Ready(d) == Lacking(d, Needed(d)) = {}

StartCycle(d) ==
    /\ stage[d] = "rest"
    /\ \/ events[d] # <<>> \/ ckpt[d] < Len(log)
       \/ Known(d, File) /\ row[d][File].state = "pending_upload"
    /\ batch' = [batch EXCEPT ![d] = Drained(d)]
    /\ events' = [events EXCEPT ![d] = <<>>]
    /\ stage' = [stage EXCEPT ![d] = "work"]
    /\ Exposes("round trip",
               \E e \in ToSet(events[d]) \ ToSet(WithoutRoundTrips(events[d])) :
                  Exists(d, e.from) /\ LiveUnder(d, e.from) = {})
    /\ UNCHANGED <<bucket, dirs, files, index, todo, poll, second, did>>

EventClaim(d) ==
    /\ stage[d] = "work" /\ todo[d] = <<>> /\ batch[d] # <<>>
    /\ Claim(d, Needed(d))

\* A folder that is there, or a file: indexed at its path, edited or new.
LocalCreated(d) ==
    LET p == Event(d).path IN
    /\ Handling(d, {"created", "modified"}) /\ Ready(d) /\ EventDone(d)
    /\ IF p \notin DOMAIN files[d] THEN UNCHANGED <<row, files, second>>
       ELSE IF ~FileAt(d, p) THEN /\ second' = TRUE /\ UNCHANGED <<row, files>>
       ELSE IF ~files[d][p] THEN UNCHANGED <<row, files, second>>
       ELSE /\ SetRow(d, MarkRows(d, {File}, "pending_upload"))
            /\ files' = [files EXCEPT ![d][p] = FALSE]
            /\ UNCHANGED second
    /\ UNCHANGED <<bucket, dirs, events, ckpt, conflicts, todo, did>> /\ Safe

LocalRenamed(d) ==
    LET e  == Event(d)
        at == At(NodeAt(d, Parent(e.path)), Last(e.path))
        i  == FolderAt(d, e.from)
    IN
    /\ Handling(d, {"renamed"}) /\ Ready(d) /\ EventDone(d)
    /\ IF FileAt(d, e.from)
       THEN Writes(d, <<Commit(Op(d, "place", File, at)), Put(File, at, "file", e.from, e.path)>>)
       ELSE IF FoldersAt(d, e.from) # {}
       THEN Writes(d, <<Commit(Op(d, "place", i, at)), Put(i, at, "moved", e.from, e.path)>>)
       ELSE UNCHANGED todo
    /\ Exposes("stale event", Exists(d, e.from) \/ ~Exists(d, e.path))
    /\ UNCHANGED <<disk, row>> /\ Local

\* What comes back in the meantime is not deleted; a folder goes as one
\* operation, and the entries of all this device knows inside go with it.
LocalDeleted(d) ==
    LET p == Event(d).path
        i == FolderAt(d, p)
        gone(x, ids) == Writes(d, <<Tomb(x, p), Commit(Op(d, "delete", x, At(Root, <<>>))), Drop(ids)>>)
    IN
    /\ Handling(d, {"deleted"}) /\ EventDone(d)
    /\ IF Exists(d, p) THEN UNCHANGED todo
       ELSE IF FileAt(d, p)
       THEN IF Live(d, File) THEN gone(File, {File}) ELSE UNCHANGED todo
       ELSE IF FoldersAt(d, p) # {} THEN gone(i, {i} \cup LiveUnder(d, p))
       ELSE IF File \in LiveUnder(d, p) THEN gone(File, {File})
       ELSE UNCHANGED todo
    /\ Exposes("stale event", Exists(d, p) /\ LiveUnder(d, p) # {})
    /\ UNCHANGED <<disk, row>> /\ Local

-----------------------------------------------------------------------------
(* Conflict copies: a copy beside the place, and a record until the user   *)
(* settles it.                                                             *)

Copied(d, path, kind) ==
    /\ conflicts' = [conflicts EXCEPT ![d] = @ \cup {kind}]
    /\ dirs' = [dirs EXCEPT ![d] = @ \cup Prefixes(Parent(path))]
    /\ files' = [files EXCEPT ![d] = (Append(Parent(path), <<kind>>) :> FALSE) @@ @]
    /\ Notify(d, Created(Append(Parent(path), <<kind>>)))
    /\ Exposes("conflict", TRUE)

-----------------------------------------------------------------------------
(* Uploads: the edited file.  The operation has no placement; the entry is  *)
(* written with the placement read before the commit.                       *)

Uploads(d) ==
    /\ batch[d] = <<>> /\ Known(d, File) /\ row[d][File].state = "pending_upload"
    /\ row[d][File].path \in DOMAIN files[d]

UploadClaim(d) ==
    /\ stage[d] = "work" /\ todo[d] = <<>> /\ Uploads(d)
    /\ Claim(d, Parent(row[d][File].path))

UploadRead(d) ==
    /\ stage[d] = "work" /\ todo[d] = <<>> /\ Uploads(d)
    /\ Lacking(d, Parent(row[d][File].path)) = {}
    /\ IF File \in DOMAIN tree
       THEN /\ Writes(d, <<Commit(Op(d, "write", File, At(Root, <<>>))),
                           Put(File, tree[File], "uploaded", <<>>, <<>>)>>)
            /\ UNCHANGED <<row, disk, conflicts>> /\ Safe
       ELSE /\ SetRow(d, MarkRows(d, {File}, "conflicted"))
            /\ Copied(d, row[d][File].path, "deleted")
            /\ UNCHANGED todo
    /\ UNCHANGED <<bucket, ckpt, stage, batch, poll, second, did>>

-----------------------------------------------------------------------------
(* The poll.                                                               *)

\* The head is read; without news the cycle is over.
StartPoll(d) ==
    /\ stage[d] = "work" /\ todo[d] = <<>> /\ batch[d] = <<>> /\ ~Uploads(d)
    /\ IF ckpt[d] = Len(log)
       THEN stage' = [stage EXCEPT ![d] = "rest"] /\ UNCHANGED poll
       ELSE /\ stage' = [stage EXCEPT ![d] = "poll"]
            /\ poll' = [poll EXCEPT ![d] = [next |-> ckpt[d] + 1, to |-> Len(log)]]
    /\ UNCHANGED <<disk, row, batch, todo>> /\ Local /\ Safe

Polled(d) == poll[d].next > poll[d].to
EndPoll_HeadNow(d) ==
    /\ stage[d] = "poll" /\ todo[d] = <<>> /\ Polled(d)
    /\ ckpt' = [ckpt EXCEPT ![d] = Len(log)]
    /\ poll' = [poll EXCEPT ![d] = NoPoll]
    /\ stage' = [stage EXCEPT ![d] = "rest"]
    /\ UNCHANGED <<bucket, disk, row, conflicts, batch, todo, second, did>> /\ Safe

EndPoll(d) ==
    /\ stage[d] = "poll" /\ todo[d] = <<>> /\ Polled(d)
    /\ ckpt' = [ckpt EXCEPT ![d] = poll[d].to]
    /\ poll' = [poll EXCEPT ![d] = NoPoll]
    /\ stage' = [stage EXCEPT ![d] = "rest"]
    /\ UNCHANGED <<bucket, disk, row, conflicts, batch, todo, second, did>> /\ Safe

PolledOp(d) == log[poll[d].next]
Polling(d, kind) ==
    /\ stage[d] = "poll" /\ todo[d] = <<>> /\ ~Polled(d)
    /\ PolledOp(d).kind \in kind
    /\ UNCHANGED <<bucket, ckpt, second, did>>
Steady == UNCHANGED <<stage, batch, conflicts>>
Next1(d) == poll' = [poll EXCEPT ![d].next = @ + 1]
Skip(d) == Next1(d) /\ UNCHANGED <<disk, row, todo>>
Pass(d) == Skip(d) /\ Safe
PassOrphan(d, i) == Skip(d) /\ Exposes("parent gone", Live(d, i))

\* folder_path climbs the tree from a folder to one the device knows.
Climb(d, i) ==
    LET stop(c) == c = Root \/ IsDeleted(c) \/ Live(d, c) \/ c \notin DOMAIN tree
        c[n \in 0..Cardinality(DOMAIN tree)] ==
            IF n = 0 THEN <<i>>
            ELSE IF stop(Last(c[n - 1])) THEN c[n - 1]
            ELSE Append(c[n - 1], tree[Last(c[n - 1])].parent)
    IN c[Cardinality(DOMAIN tree)]
Unreachable(d, i) ==
    LET c == Last(Climb(d, i)) IN c # Root /\ (IsDeleted(c) \/ ~Live(d, c))
PathOf(d, i) == IF i = Root THEN <<>> ELSE row[d][i].path
Resolved(d, i) == ~Unreachable(d, i) /\ Len(Climb(d, i)) = 1

\* is_taken and free_name
Taken(d, i, path) ==
    \/ \E j \in DOMAIN row[d] \ {i} : Live(d, j) /\ row[d][j].path = path
    \/ Exists(d, path) /\ IF Live(d, i) THEN path # row[d][i].path ELSE path \notin dirs[d]
Suffixed(name, k) == IF k = 1 THEN name ELSE Append(name, k)
FreeName(d, i, name, parentPath) ==
    LET taken(k) == Taken(d, i, Append(parentPath, Suffixed(name, k)))
    IN Suffixed(name, CHOOSE k \in 1..MaxLog + 1 : ~taken(k) /\ \A j \in 1..k - 1 : taken(j))

MovedAway(d, path) ==
    \E e \in ToSet(events[d]) : e.kind = "renamed" /\ Inside(path, e.from)
MovedTo(d, path) == \E e \in ToSet(events[d]) : e.kind = "renamed" /\ Inside(path, e.path)

\* The index has something under a path that the user has moved or removed.
Astray(d, p) == \E i \in LiveUnder(d, p) : ~Exists(d, row[d][i].path)

\* place_folder
PlaceFolder(d, i, at, parentPath) ==
    LET path == Append(parentPath, at.name)
        old  == row[d][i].path
        name == FreeName(d, i, at.name, parentPath)
        new  == At(at.parent, name)
    IN
    IF Live(d, i) /\ old = path
    THEN /\ SetRow(d, [row[d] EXCEPT ![i].parent = at.parent])
         /\ dirs' = [dirs EXCEPT ![d] = @ \cup Prefixes(path)]
         /\ IF path \in dirs[d] THEN UNCHANGED events ELSE Notify(d, Created(path))
         /\ Exposes("moved by user", path \notin dirs[d])
         /\ UNCHANGED <<files, todo>>
    ELSE IF Live(d, i) /\ Inside(parentPath, old)
    THEN \* keep_out_of_cycle
         /\ Writes(d, <<Put(i, At(row[d][i].parent, Last(old)), "none", <<>>, <<>>)>>)
         /\ Exposes("cycle", TRUE)
         /\ UNCHANGED <<disk, row>>
    ELSE IF name = at.name
    THEN /\ PlaceLocally(d, i, at, path) /\ UNCHANGED todo
         /\ Exposes("moved by user", IF Live(d, i) THEN Astray(d, old) ELSE MovedTo(d, path))
    ELSE /\ Writes(d, <<Commit(Op(d, "place", i, new)),
                        Put(i, new, "place", <<>>, Append(parentPath, name))>>)
         /\ Exposes("name taken", TRUE)
         /\ UNCHANGED <<disk, row>>

\* The topmost folder on the way that the device does not know is placed
\* first.
PlaceUnknown(d, i) ==
    LET c == Climb(d, i) IN
    /\ ~Unreachable(d, i) /\ Len(c) > 1
    /\ PlaceFolder(d, c[Len(c) - 1], tree[c[Len(c) - 1]], PathOf(d, Last(c)))
    /\ UNCHANGED poll

\* Only the last placement of an entry in the batch counts.
Superseded(d) ==
    \E n \in poll[d].next + 1..poll[d].to :
        log[n].kind = "place" /\ log[n].id = PolledOp(d).id

PlacesFolder(d) ==
    \/ PolledOp(d).kind = "create"
    \/ PolledOp(d).kind = "place" /\ ~Superseded(d) /\ PolledOp(d).id # File
       /\ Live(d, PolledOp(d).id)

PollFolder(d) ==
    LET op == PolledOp(d) IN
    /\ Polling(d, {"create", "place"}) /\ PlacesFolder(d) /\ Steady
    /\ IF IsDeleted(op.id) THEN Pass(d)
       ELSE IF Unreachable(d, op.at.parent) THEN PassOrphan(d, op.id)
       ELSE IF Resolved(d, op.at.parent)
       THEN Next1(d) /\ PlaceFolder(d, op.id, op.at, PathOf(d, op.at.parent))
       ELSE PlaceUnknown(d, op.at.parent)

\* A file, or a folder this device has deleted: what is at the path of its
\* row moves, unless something is where it goes: a file there is copied, to
\* copy a folder is an error.
PollRenamed(d) ==
    LET op  == PolledOp(d)
        old == row[d][op.id].path
        new == Append(PathOf(d, op.at.parent), op.at.name)
    IN
    /\ Polling(d, {"place"}) /\ ~PlacesFolder(d)
    /\ IF Superseded(d) \/ ~Known(d, op.id) THEN Pass(d) /\ Steady
       ELSE IF Unreachable(d, op.at.parent) THEN PassOrphan(d, op.id) /\ Steady
       ELSE IF ~Resolved(d, op.at.parent) THEN PlaceUnknown(d, op.at.parent) /\ Steady
       ELSE IF Exists(d, new) /\ new # old
       THEN IF "placed" \in conflicts[d] THEN Pass(d) /\ Steady
            ELSE IF new \in dirs[d]
            THEN Fail(d) /\ Exposes("name taken", TRUE) /\ UNCHANGED <<disk, row, conflicts, todo>>
            ELSE Next1(d) /\ Copied(d, new, "placed") /\ UNCHANGED <<row, stage, batch, todo>>
       ELSE /\ Next1(d) /\ Steady
            /\ IF Exists(d, old) /\ new # old
               THEN /\ dirs' = [dirs EXCEPT ![d] = MoveDirs(d, old, new)]
                    /\ files' = [files EXCEPT ![d] = MoveFiles(d, old, new)]
                    /\ Notify(d, Renamed(old, new))
               ELSE UNCHANGED disk
            /\ SetRow(d, [row[d] EXCEPT ![op.id].path = new, ![op.id].parent = op.at.parent])
            /\ IF Live(d, op.id) THEN Exposes("moved by user", ~Exists(d, old))
               ELSE exposed' = exposed \cup {"moved out"}
            /\ UNCHANGED todo

\* has_local_changes: an unsynced or edited file inside, or one the index
\* does not have at its path.
HasLocalChanges(d, p) ==
    \/ File \in LiveUnder(d, p)
       /\ \/ row[d][File].state # "synced"
          \/ row[d][File].path \in DOMAIN files[d] /\ files[d][row[d][File].path]
    \/ \E q \in DOMAIN files[d] : Inside(q, p) /\ ~FileAt(d, q)

\* delete_file of remote_changes.rs: an edited file stays, with a conflict.
TrashFile(d, rows) ==
    LET p == row[d][File].path
        edited == p \in DOMAIN files[d] /\ files[d][p]
    IN IF edited
       THEN /\ SetRow(d, rows)
            /\ IF "deleted" \in conflicts[d] THEN UNCHANGED <<disk, conflicts>> /\ Safe
               ELSE Copied(d, p, "deleted")
       ELSE /\ SetRow(d, [rows EXCEPT ![File].state = "deleted_locally"])
            /\ files' = [files EXCEPT ![d] = WithoutFiles(d, p)]
            /\ UNCHANGED <<dirs, events, conflicts>>
            /\ Exposes("moved by user", MovedAway(d, p))

TrashFolder(d, i) ==
    LET p == row[d][i].path
        rows == MarkRows(d, LiveUnder(d, p) \ {File}, "deleted_remotely")
    IN IF HasLocalChanges(d, p)
       THEN IF File \in LiveUnder(d, p) /\ row[d][File].state = "synced"
            THEN TrashFile(d, rows)
            ELSE SetRow(d, rows) /\ UNCHANGED <<disk, conflicts>> /\ Exposes("moved by user", MovedAway(d, p))
       ELSE /\ SetRow(d, MarkRows(d, LiveUnder(d, p), "deleted_remotely"))
            /\ dirs' = [dirs EXCEPT ![d] = {q \in @ : ~Inside(q, p)}]
            /\ files' = [files EXCEPT ![d] = WithoutFiles(d, p)]
            /\ UNCHANGED <<events, conflicts>>
            /\ Exposes("moved by user", MovedAway(d, p))

PollDeleted(d) ==
    LET i == PolledOp(d).id IN
    /\ Polling(d, {"delete"}) /\ Next1(d) /\ UNCHANGED <<stage, batch, todo>>
    /\ IF ~Live(d, i) THEN UNCHANGED <<disk, row, conflicts>> /\ Safe
       ELSE IF i = File THEN TrashFile(d, row[d])
       ELSE TrashFolder(d, i)

\* The tree has the file where it was before a placement polled by now.
Behind(d, at) ==
    LET placed == {n \in DOMAIN log : log[n].kind = "place" /\ log[n].id = File}
    IN \E m \in placed : m < poll[d].next /\ \A n \in placed : n >= m => log[n].at # at

\* A revision of another device lands where the tree has the file now, or
\* under its id when the tree has it no more.  One this device has already
\* is not written again, but its row takes the parent from the tree, unless
\* a placement follows in the batch.
PollWritten(d) ==
    LET at == IF File \in DOMAIN tree THEN tree[File] ELSE At(Root, File)
        p  == Append(PathOf(d, at.parent), at.name)
        old == row[d][File].path
    IN
    /\ Polling(d, {"write"}) /\ Steady
    /\ IF Unreachable(d, at.parent) THEN PassOrphan(d, File)
       ELSE IF ~Resolved(d, at.parent) THEN PlaceUnknown(d, at.parent)
       ELSE /\ Next1(d) /\ UNCHANGED todo
            /\ IF PolledOp(d).by = d
               THEN /\ SetRow(d, IF Superseded(d) THEN row[d]
                                 ELSE [row[d] EXCEPT ![File].parent = at.parent])
                    /\ UNCHANGED disk
               ELSE /\ dirs' = [dirs EXCEPT ![d] = @ \cup Prefixes(Parent(p))]
                    /\ files' = [files EXCEPT ![d] = (p :> FALSE) @@ @]
                    /\ SetRow(d, WithRow(row[d], File, p, at.parent, "synced"))
                    /\ Notify(d, Created(p))
            /\ exposed' = exposed
                 \cup {way \in {"parent gone"} : File \notin DOMAIN tree}
                 \cup {way \in {"late entry"} : PolledOp(d).by = d /\ Behind(d, at)}
                 \cup {way \in {"left behind"} :
                           PolledOp(d).by # d /\ old # p /\ old \in DOMAIN files[d]}

-----------------------------------------------------------------------------
Step(d) ==
    \/ StartCycle(d)
    \/ TombStep(d) \/ CommitStep(d) \/ PutStep(d) \/ DropStep(d)
    \/ EventClaim(d) \/ LocalCreated(d) \/ LocalRenamed(d) \/ LocalDeleted(d)
    \/ UploadClaim(d) \/ UploadRead(d)
    \/ StartPoll(d) \/ PollFolder(d) \/ PollRenamed(d) \/ PollDeleted(d) \/ PollWritten(d)
    \/ EndPoll(d)

Next == \E d \in Devices : User(d) \/ Step(d)
Spec == Init /\ [][Next]_vars

-----------------------------------------------------------------------------
(* Properties.  They are about cycles that were not exposed: in the ways    *)
(* that exposed names, the code acts on what is no longer so, and nothing   *)
(* below holds.                                                             *)

TypeOK ==
    /\ \A n \in DOMAIN log : log[n].kind \in {"create", "place", "delete", "write"}
    /\ \A d \in Devices :
        /\ ckpt[d] \in 0..Len(log)
        /\ stage[d] \in {"rest", "work", "poll"}
        /\ \A p \in dirs[d] \ {Root} : Parent(p) \in dirs[d]
        /\ \A p \in DOMAIN files[d] : Parent(p) \in dirs[d]
        /\ DOMAIN row[d] \subseteq DOMAIN tree \cup {log[n].id : n \in DOMAIN log} \cup {File}
        /\ \A i \in DOMAIN row[d] :
              row[d][i].state \in {"synced", "pending_upload", "conflicted"} \cup GoneLocally

\* The path of a folder is its parent's and its name, on every device and
\* whatever the order in which moves of both come: move_subtree and
\* set_parent tell one story (local_changes.rs rename_folder, folders.rs
\* place_folder, mod.rs poll_remote_changes).  A file with changes may
\* outlive its folder, and the poll of a device's own write may take the
\* parent from the tree ahead of the placement: then that placement is still
\* to be polled, and is the same.
After(d) == IF stage[d] = "poll" THEN poll[d].next ELSE ckpt[d] + 1
PlacementToCome(d, i) ==
    \E n \in After(d)..Len(log) :
        log[n].kind = "place" /\ log[n].id = i /\ log[n].at.parent = row[d][i].parent
IndexIsTree ==
    exposed = {} =>
        \A d \in Devices : todo[d] = <<>> =>
            \A i \in DOMAIN row[d] : Live(d, i) =>
                LET r == row[d][i] IN
                \/ r.parent = Root /\ Len(r.path) = 1
                \/ r.parent # Root /\ Live(d, r.parent) /\ Parent(r.path) = row[d][r.parent].path
                \/ i = File /\ r.parent # Root /\ ~Live(d, r.parent)
                \/ i = File /\ PlacementToCome(d, i)

\* What the engine does on disk comes back as events and must not become
\* operations of its own: a thing a user does is one operation at most, on
\* whatever device, besides the folders it needs, and a file keeps its id
\* through renames of it and of its folders (watcher.rs, local_changes.rs
\* renamed and deleted, docs/spec/sync-semantics.md 6).
NoEcho ==
    exposed = {} =>
        /\ Len(SelectSeq(log, LAMBDA op : op.kind # "create"))
               <= MapThenSumSet(LAMBDA k : did[k], Acts)
        /\ ~second

\* When all have polled all and have nothing left to upload, the devices
\* have the same folders and files, whatever the order of what their users
\* did and of the steps that brought it over.
AtRest ==
    \A d \in Devices :
        /\ stage[d] = "rest" /\ events[d] = <<>> /\ ckpt[d] = Len(log)
        /\ row[d][File].state # "pending_upload"
Agree ==
    exposed = {} /\ AtRest =>
        \A d, e \in Devices : dirs[d] = dirs[e] /\ DOMAIN files[d] = DOMAIN files[e]
=============================================================================
