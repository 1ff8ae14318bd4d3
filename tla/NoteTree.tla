------------------------------ MODULE NoteTree ------------------------------
(***************************************************************************)
(* The folders and notes of one device's Notes root: creating a folder,    *)
(* renaming, moving, deleting, restoring, and bringing back a root that    *)
(* was moved away (notes/mutations.rs), with the journal of intents, the   *)
(* recovery of interrupted ones, the rebuilding of a lost index and other  *)
(* programs that move things meanwhile.  Saves are NoteSave's; what the    *)
(* bucket learns of all this is NotesReplay's.                             *)
(*                                                                         *)
(* One mutation runs at a time, under the root's lock, and every one       *)
(* recovers what was interrupted before it begins (mutate).  The system    *)
(* calls that move an entry, the checks before and after them, the writes  *)
(* of the intent and of the index are steps of their own: another program  *)
(* and a stop of the process come between.                                 *)
(***************************************************************************)
EXTENDS Integers, Sequences, SequencesExt, FiniteSets, FiniteSetsExt, TLC

CONSTANTS
    Req,        \* requests for a mutation; each names its intent, the inode it
                \* creates and the temporary name it may use
    Fresh,      \* ids a scan can give to entries it does not know
    Names,      \* names of entries
    Key(_),     \* portable_name_key
    MaxStops,   \* how often the process stops
    MaxWipes,   \* how often the index is lost
    MaxActs     \* how often another program moves something

Root  == "notes"
Dir   == "dir"
Note  == "note"
Other == "other"            \* what another program puts there
Inodes  == {Root, Dir, Note, Other} \cup Req
Ids     == {Root, Dir, Note} \cup Req \cup Fresh
IsFolder(i) == i \notin {Note, Other}

VARIABLES
    place,      \* where each inode is: in the tree, the journal, the trash or gone
    away,       \* the Notes folder has another name, and what is at its place
    row,        \* the index: the entries it knows
    bound,      \* the index names the root of this workspace
    intent,     \* the journal
    op,         \* the mutation or recovery under way
    left,       \* stops, losses of the index and acts of others yet to come
    home,       \* history: the inode an id was given to
    touched,    \* history: the inodes another program moved, or whose mutation
                \* was not finished when a root that was away came back
    put         \* history: where another program put an entry of its own,
                \* unless it was between a rename and its verification

disk == <<place, away>>
vars == <<disk, row, bound, intent, op, left, home, touched, put>>

-----------------------------------------------------------------------------
(* The file system.  A directory is known by its inode: an open handle     *)
(* stays with it.                                                          *)

InTree(d, n) == [in |-> "tree", dir |-> d, name |-> n]
Trash(r)     == [in |-> "trash", dir |-> r, name |-> "item"]
Stage(r)     == [in |-> "stage", dir |-> r, name |-> "stage"]
Gone         == [in |-> "gone", dir |-> Root, name |-> "gone"]

The(S) == CHOOSE x \in S : TRUE
At(p) == {i \in Inodes : place[i] = p}
Like(d, n) ==
    {i \in Inodes : place[i].in = "tree" /\ place[i].dir = d /\ Key(place[i].name) = Key(n)}

\* The directory that a path from the root names, or why it is not opened.
OpenDir(p) ==
    LET f[k \in 0..Len(p)] ==
          IF k = 0 THEN [dir |-> Root, err |-> "ok"]
          ELSE LET s  == f[k - 1]
                   at == At(InTree(s.dir, p[k]))
               IN CASE s.err # "ok" -> s
                    [] Cardinality(Like(s.dir, p[k])) > 1 -> [s EXCEPT !.err = "name"]
                    [] at = {} -> [s EXCEPT !.err = "offline"]
                    [] ~IsFolder(The(at)) -> [s EXCEPT !.err = "io"]
                    [] OTHER -> [s EXCEPT !.dir = The(at)]
    IN f[Len(p)]
ParentDir(p) == OpenDir(Front(p))
Entry(p) == InTree(ParentDir(p).dir, Last(p))

\* The path of an inode of the tree.
DiskPath(i) ==
    LET f[j \in Inodes] ==
          IF j = Root THEN <<>> ELSE Append(f[place[j].dir], place[j].name)
    IN f[i]

\* Not inside the trash or the journal.
InNotes(i) ==
    LET f[j \in Inodes] == j # Root => place[j].in = "tree" /\ f[place[j].dir]
    IN f[i]

Ready == away = "here"

-----------------------------------------------------------------------------
(* The index.                                                              *)

Live(rows) == {i \in DOMAIN rows : rows[i].live}
Resolves(rows, i) ==
    LET f[j \in Ids] == /\ j \in Live(rows)
                        /\ j # Root => f[rows[j].parent]
    IN f[i]
Path(rows, i) ==
    LET f[j \in Ids] == IF j = Root THEN <<>> ELSE Append(f[rows[j].parent], rows[j].name)
    IN f[i]
Keys(p) == [n \in DOMAIN p |-> Key(p[n])]
Subtree_Itself(rows, i) == {i}
Subtree(rows, i) == {j \in Live(rows) : IsPrefix(Path(rows, i), Path(rows, j))}

Stopped == {"blocked", "suspended"}
BlockedPaths ==
    UNION {LET t == intent[r] IN
           {t.from, Append(Front(t.from), r), t.to} :
              r \in {r \in Req : intent[r].stage \in Stopped}}
BlockedIds == UNION {DOMAIN intent[r].changes : r \in {r \in Req : intent[r].stage \in Stopped}}
Hidden(p) == \E b \in BlockedPaths : IsPrefix(b, p)
Usable(i) == Resolves(row, i) /\ i \notin BlockedIds /\ ~Hidden(Path(row, i))

\* What a pass over the disk adds to the index: entries at paths it has no
\* live row for.  A note under a temporary name is none.
Unknown ==
    {i \in Inodes \ {Root} :
        /\ InNotes(i) /\ ~Hidden(DiskPath(i))
        /\ place[i].name \in Names \/ IsFolder(i)
        /\ ~\E j \in Live(row) : Path(row, j) = DiskPath(i)}
Given ==
    LET free == Fresh \ DOMAIN row
        pick == CHOOSE f \in [Unknown -> free] : IsInjective(f)
        idAt(p) == IF \E j \in Live(row) : Path(row, j) = p
                   THEN The({j \in Live(row) : Path(row, j) = p})
                   ELSE pick[The({i \in Unknown : DiskPath(i) = p})]
    IN [j \in {pick[i] : i \in Unknown} |->
          LET ino == The({i \in Unknown : pick[i] = j}) IN
          [ino |-> ino, parent |-> idAt(Front(DiskPath(ino))), name |-> place[ino].name]]
Scanned == [j \in DOMAIN Given |-> [parent |-> Given[j].parent, name |-> Given[j].name, live |-> TRUE]] @@ row
HomeScanned == [j \in DOMAIN Given |-> Given[j].ino] @@ home
CanScan == Cardinality(Unknown) <= Cardinality(Fresh \ DOMAIN row)

\* project_notes_intent: what the intent knew is inserted where it is missing,
\* what it changes is written.
Projected(rows, t, apply) ==
    IF apply THEN t.changes @@ rows @@ t.base ELSE rows @@ t.base
\* notes_rebuild_intent: what it knew is written too.
Rebuilt_Changes(rows, t) ==
    IF t.stage = "indexed" THEN t.changes @@ rows ELSE rows
Rebuilt(rows, t) ==
    IF t.stage = "indexed" THEN t.changes @@ t.base @@ rows ELSE t.base @@ rows

-----------------------------------------------------------------------------
NoIntent == [kind |-> "none", stage |-> "none", id |-> Root, src |-> Root,
             from |-> <<>>, to |-> <<>>, partial |-> FALSE, seq |-> 0, of |-> "none",
             origin |-> Gone, base |-> <<>>, changes |-> <<>>]
Idle == [pc |-> "idle", r |-> "none", more |-> FALSE, queue |-> <<>>,
         hops |-> <<>>, was |-> FALSE, err |-> "ok", tried |-> FALSE]
Off  == [Idle EXCEPT !.pc = "off"]

Pending == {r \in Req : intent[r].stage = "intent"}
NextSeq == 1 + Max({intent[r].seq : r \in Req})
\* read_intents, with the root's own return first (recover_scope).
InOrder(rs) ==
    SetToSortSeq(rs, LAMBDA r, s :
        IF (intent[r].kind = "root") = (intent[s].kind = "root")
        THEN intent[r].seq < intent[s].seq ELSE intent[r].kind = "root")

Init ==
    /\ place = [i \in Inodes |->
                  CASE i = Dir -> InTree(Root, "d") [] i = Note -> InTree(Dir, "a")
                    [] OTHER -> Gone]
    /\ away = "here"
    /\ row = (Root :> [parent |-> Root, name |-> "notes", live |-> TRUE])
             @@ (Dir :> [parent |-> Root, name |-> "d", live |-> TRUE])
             @@ (Note :> [parent |-> Dir, name |-> "a", live |-> TRUE])
    /\ bound = TRUE
    /\ intent = [r \in Req |-> NoIntent] /\ op = Idle
    /\ left = [stops |-> MaxStops, wipes |-> MaxWipes, acts |-> MaxActs]
    /\ home = [i \in {Root, Dir, Note} |-> i] /\ touched = {} /\ put = Gone

-----------------------------------------------------------------------------
(* A call, and what it recovers first.  op.more: a mutation of its own     *)
(* follows.  op.queue: the intents to recover, the one under way first.    *)

Write(r, t)  == intent' = [intent EXCEPT ![r] = t]
\* The folder is opened before the intent is written; the handle stays.
Into(r, p)   == <<[f |-> Stage(r), t |-> Entry(p)]>>
Goto(pc)     == op' = [op EXCEPT !.pc = pc]
Fail(e)      == op' = [op EXCEPT !.pc = "undo", !.err = e]
\* An error that leaves the intent as it is ends the whole call.
Raise        == op' = Idle
Proceed      == op' = IF op.queue = <<>> THEN Idle
                      ELSE [Idle EXCEPT !.pc = "recover", !.more = op.more, !.queue = Tail(op.queue)]
Quiet        == UNCHANGED <<left, touched, put>>

Recovered_Started == {r \in Req : intent[r].stage \in Stopped}
Recovered == Pending \cup {r \in Req : intent[r].stage \in Stopped}

\* mutate, or recover_pending and the intake of a sync cycle.
Enter ==
    /\ op.pc = "idle"
    /\ \E more \in BOOLEAN :
         /\ IF more THEN \E r \in Req : intent[r].stage = "none" ELSE Recovered # {}
         /\ op' = [Idle EXCEPT !.pc = "recover", !.more = more, !.queue = InOrder(Recovered)]
    /\ UNCHANGED <<disk, row, bound, intent, home>> /\ Quiet

\* One intent of recover_scope; those of a root that is away have to wait.
Resume ==
    /\ op.pc = "recover" /\ op.queue # <<>>
    /\ LET r == Head(op.queue)
           t == intent[r]
           at(pc, hops) == op' = [op EXCEPT !.pc = pc, !.r = r, !.hops = hops]
       IN /\ row' = IF t.kind = "root" THEN row ELSE Projected(row, t, FALSE)
          /\ IF t.kind = "root" THEN at("root", <<>>) /\ UNCHANGED intent
             ELSE IF ~Ready THEN Proceed /\ UNCHANGED intent
             ELSE CASE ParentDir(t.to).err = "ok" ->
                         /\ IF t.kind = "create" THEN at("restage", Into(r, t.to))
                            ELSE at("check", <<>>)
                         /\ UNCHANGED intent
                    [] ParentDir(t.to).err = "offline" ->
                         Proceed /\ Write(r, [t EXCEPT !.stage = "conflicted"])
                    [] OTHER -> Raise /\ UNCHANGED intent
    /\ UNCHANGED <<disk, bound, home>> /\ Quiet

NothingMore ==
    /\ op.pc = "recover" /\ op.queue = <<>> /\ ~op.more
    /\ op' = Idle
    /\ UNCHANGED <<disk, row, bound, intent, home>> /\ Quiet

-----------------------------------------------------------------------------
(* The intent of a mutation: its checks, what it knows and what it changes.*)

Beginning == op.pc = "recover" /\ op.queue = <<>> /\ op.more
\* inventory: the live entries, and an error when the place of one is lost.
Inventory(rows) == [i \in Live(rows) |-> rows[i]]
Start(r, kind, i, from, to, src, changes, of) ==
    /\ intent[r].stage = "none"
    /\ \A j \in Live(row') : Resolves(row', j)
    /\ Write(r, [kind |-> kind, stage |-> "intent", id |-> i, src |-> src, from |-> from,
                 to |-> to, partial |-> FALSE, seq |-> NextSeq, of |-> of,
                 origin |-> place[src], base |-> Inventory(row'), changes |-> changes])
    /\ op' = [Idle EXCEPT !.pc = CASE kind = "create" -> "stage" [] kind = "root" -> "root"
                                   [] OTHER -> "check",
                          !.r = r,
                          !.hops = IF kind = "create" THEN Into(r, to) ELSE <<>>]
    /\ UNCHANGED <<disk, bound, left, put>>
Scan == Ready /\ bound /\ CanScan /\ row' = Scanned /\ home' = HomeScanned

\* A folder to put something into, by its id and its handle.
Opened(i) == Usable(i) /\ IsFolder(home[i]) /\ OpenDir(Path(row, i)).err = "ok"
Handle(i) == OpenDir(Path(row, i)).dir
NoSibling(rows, i, parent, n) ==
    ~\E j \in Live(rows) \ {i, Root} : rows[j].parent = parent /\ Key(rows[j].name) = Key(n)

\* create, of a folder.
Create(r, parent, n) ==
    /\ Scan
    /\ Opened(parent)
    /\ Like(Handle(parent), n) = {} /\ NoSibling(row', r, parent, n)
    /\ Start(r, "create", r, <<>>, Append(Path(row, parent), n), r,
             r :> [parent |-> parent, name |-> n, live |-> TRUE], "none")
    /\ UNCHANGED touched

\* relocate: what is at the path of the id, whatever that is.
Relocate(r, i, parent, n) ==
    /\ Scan
    /\ i # Root /\ Usable(i) /\ Opened(parent)
    /\ LET from == Path(row, i)
           to   == Append(Path(row, parent), n)
           old  == Entry(from)
       IN /\ ~\E b \in BlockedPaths : IsPrefix(from, b)
          /\ ~IsPrefix(from, Path(row, parent))
          /\ ParentDir(from).err = "ok" /\ At(old) # {}
          /\ Cardinality(Like(old.dir, old.name)) = 1
          /\ Like(Handle(parent), n) \subseteq
                IF row[i].parent = parent THEN At(old) ELSE {}
          /\ NoSibling(row', i, parent, n)
          /\ \E src \in At(old) :
               Start(r, "move", i, from, to, src,
                     [j \in Subtree(row', i) |->
                        IF j = i THEN [row[i] EXCEPT !.parent = parent, !.name = n] ELSE row'[j]],
                     "none")
    /\ UNCHANGED touched

\* delete_local.
Delete(r, i) ==
    /\ Scan
    /\ i # Root /\ Usable(i)
    /\ LET from == Path(row, i)
       IN /\ ~\E b \in BlockedPaths : IsPrefix(from, b)
          /\ ParentDir(from).err = "ok"
          /\ \E src \in At(Entry(from)) :
               Start(r, "delete", i, from, from, src,
                     [j \in Subtree(row', i) |-> [row'[j] EXCEPT !.live = FALSE]], "none")
    /\ UNCHANGED touched

\* restore_local: what the deletion d moved to the trash, once.
Restore(r, d, n) ==
    LET t == intent[d]
        parent == t.changes[t.id].parent
    IN /\ Ready
       /\ t.kind = "delete" /\ t.stage = "indexed"
       /\ ~\E o \in Req : intent[o].of = d /\ intent[o].stage = "indexed"
       /\ Opened(parent)
       /\ Like(Handle(parent), n) = {} /\ NoSibling(row, Root, parent, n)
       /\ UNCHANGED <<row, home>>
       /\ Start(r, "restore", t.id, t.to, Append(Path(row, parent), n), t.src,
                [j \in DOMAIN t.changes |->
                   IF j = t.id THEN [t.changes[j] EXCEPT !.name = n, !.live = TRUE]
                   ELSE [t.changes[j] EXCEPT !.live = TRUE]], d)
       /\ UNCHANGED touched

\* restore_root_location_inner: the folder with the root's identity.
RestoreRoot(r) ==
    /\ away = "moved"
    /\ UNCHANGED <<row, home>>
    /\ touched' = touched \cup
         {home[j] : j \in UNION {DOMAIN intent[o].changes : o \in Recovered} \cap DOMAIN home}
    /\ Start(r, "root", Root, <<>>, <<>>, Root,
             [j \in {j \in Live(row) : Resolves(row, j)} |-> row[j]], "none")

\* The checks refuse the call, after the pass over the disk.
Refused ==
    /\ Beginning
    /\ (Scan \/ UNCHANGED <<row, home>>)
    /\ op' = Idle
    /\ UNCHANGED <<disk, bound, intent>> /\ Quiet

NextReq == CHOOSE r \in Req : intent[r].stage = "none"
Begin ==
    /\ Beginning
    /\ \E r \in {NextReq}, i, j \in DOMAIN row, n \in Names :
           \/ Create(r, i, n)
           \/ Relocate(r, i, j, n) /\ (j = row[i].parent \/ n = row[i].name)
           \/ Delete(r, i)
           \/ RestoreRoot(r)
           \/ \E d \in Req : Restore(r, d, n)

-----------------------------------------------------------------------------
(* Publishing a new folder.                                                *)

Stages ==
    /\ op.pc = "stage"
    /\ LET t == intent[op.r] IN
       /\ place' = [place EXCEPT ![t.src] = Stage(op.r)]
       /\ Goto("vacant")
    /\ UNCHANGED <<away, row, bound, intent, home>> /\ Quiet

\* ensure_vacant, once more.
Vacant ==
    /\ op.pc = "vacant"
    /\ LET t == intent[op.r]
           to == Head(op.hops).t
           c == t.changes[t.id]
       IN IF Like(to.dir, to.name) = {} /\ NoSibling(row, t.id, c.parent, c.name)
          THEN Goto("place") /\ UNCHANGED intent
          ELSE Write(op.r, [t EXCEPT !.stage = "rejected"]) /\ Raise
    /\ UNCHANGED <<disk, row, bound, home>> /\ Quiet

\* CreateFolder in recover_scope.
Restage ==
    /\ op.pc = "restage"
    /\ LET t  == intent[op.r]
           to == Head(op.hops).t
       IN IF At(to) = {}
          THEN /\ place' = [place EXCEPT ![t.src] = Stage(op.r)]
               /\ Goto("place") /\ UNCHANGED intent
          ELSE /\ UNCHANGED place
               /\ IF At(to) = {t.src} THEN Goto("index") /\ UNCHANGED intent
                  ELSE Write(op.r, [t EXCEPT !.stage = "rejected"]) /\ Proceed
    /\ UNCHANGED <<away, row, bound, home>> /\ Quiet

\* The entry is moved where nothing is (move_new).
Place ==
    /\ op.pc = "place"
    /\ LET h == Head(op.hops) IN
       IF At(h.t) # {} THEN Raise /\ UNCHANGED place
       ELSE Goto("index") /\ place' = [place EXCEPT ![intent[op.r].src] = h.t]
    /\ UNCHANGED <<away, row, bound, intent, home>> /\ Quiet

-----------------------------------------------------------------------------
(* Moving an entry, to the trash and back included (recover_topology).     *)

Source(t) == CASE t.kind = "restore" -> Trash(t.of)
               [] OTHER -> Entry(t.from)
Goal(r, t) == IF t.kind = "delete" THEN Trash(r) ELSE Entry(t.to)
Temp(r, t) == IF t.kind = "restore" THEN Gone ELSE [Source(t) EXCEPT !.name = r]

\* ensure_indexed_topology_placement.
Placement(t, p) ==
    IF \E j \in Live(row) \ DOMAIN t.changes : ~Resolves(row, j) THEN "io"
    ELSE IF \E j \in Live(row) \ DOMAIN t.changes : IsPrefix(Keys(p), Keys(Path(row, j)))
    THEN "name" ELSE "ok"

\* What stands in the way of the move, if anything does.
Obstacle(r, t) ==
    LET now == IF At(Temp(r, t)) # {} THEN Temp(r, t) ELSE Source(t)
    IN CASE t.kind # "delete" /\ Placement(t, t.to) # "ok" -> Placement(t, t.to)
         [] ~Ready -> "offline"
         [] ParentDir(t.to).err # "ok" -> ParentDir(t.to).err
         [] t.kind # "restore" /\ ParentDir(t.from).err # "ok" -> ParentDir(t.from).err
         [] At(Goal(r, t)) = {t.src} -> "there"
         [] At(Goal(r, t)) # {} -> "name"
         [] At(now) = {} -> "missing"
         [] At(now) # {t.src} -> "stale"
         [] OTHER -> "ok"
Hops(r, t) ==
    LET now == IF At(Temp(r, t)) # {} THEN Temp(r, t) ELSE Source(t)
        to  == Goal(r, t)
    IN IF t.kind = "move" /\ Key(now.name) = Key(to.name) /\ now.name # to.name
       THEN <<[f |-> now, t |-> Temp(r, t)], [f |-> Temp(r, t), t |-> to]>>
       ELSE <<[f |-> now, t |-> to]>>

Check ==
    /\ op.pc = "check"
    /\ LET r == op.r
           t == intent[r]
           o == Obstacle(r, t)
       IN IF (t.from = t.to /\ t.kind = "move") \/ o = "there"
          THEN Goto("index") /\ UNCHANGED intent
          ELSE IF o = "ok"
          THEN /\ op' = [op EXCEPT !.pc = "move", !.hops = Hops(r, t), !.was = t.partial]
               /\ Write(r, [t EXCEPT !.partial = TRUE,
                                     !.base = IF t.stage \in Stopped THEN Inventory(row) ELSE @,
                                     !.seq  = IF t.stage \in Stopped THEN NextSeq ELSE @])
          ELSE (IF o \in {"name", "missing", "stale"} THEN Fail(o) ELSE Raise) /\ UNCHANGED intent
    /\ UNCHANGED <<disk, row, bound, home>> /\ Quiet

Move_Rejects ==
    /\ op.pc = "move"
    /\ LET h == Head(op.hops)
           t == intent[op.r]
       IN IF At(h.f) = {} \/ At(h.t) # {}
          THEN Write(op.r, [t EXCEPT !.stage = "rejected"]) /\ Proceed /\ UNCHANGED place
          ELSE /\ Goto("verify") /\ UNCHANGED intent
               /\ \E i \in At(h.f) : place' = [place EXCEPT ![i] = h.t]
    /\ UNCHANGED <<away, row, bound, home>> /\ Quiet
\* move_topology_entry: the call that moves whatever has the name.
Move ==
    /\ op.pc = "move"
    /\ LET h == Head(op.hops)
           t == intent[op.r]
       IN IF At(h.f) = {} THEN Fail("stale") /\ UNCHANGED <<place, intent>>
          ELSE IF At(h.t) # {}
          THEN /\ Fail("name") /\ UNCHANGED place
               /\ Write(op.r, [t EXCEPT !.partial = op.was])
          ELSE /\ Goto("verify") /\ UNCHANGED intent
               /\ \E i \in At(h.f) : place' = [place EXCEPT ![i] = h.t]
    /\ UNCHANGED <<away, row, bound, home>> /\ Quiet

Verify_NoReturn ==
    /\ op.pc = "verify"
    /\ LET h == Head(op.hops)
           t == intent[op.r]
       IN IF At(h.t) = {t.src}
          THEN /\ UNCHANGED place
               /\ op' = IF Len(op.hops) = 1 THEN [op EXCEPT !.pc = "index"]
                        ELSE [op EXCEPT !.pc = "move", !.hops = Tail(@), !.was = TRUE]
          ELSE /\ Fail("stale")
               /\ UNCHANGED place
    /\ UNCHANGED <<away, row, bound, intent, home>> /\ Quiet
\* What came was looked at before; if it is another entry it goes back.
Verify ==
    /\ op.pc = "verify"
    /\ LET h == Head(op.hops)
           t == intent[op.r]
       IN IF At(h.t) = {t.src}
          THEN /\ UNCHANGED place
               /\ op' = IF Len(op.hops) = 1 THEN [op EXCEPT !.pc = "index"]
                        ELSE [op EXCEPT !.pc = "move", !.hops = Tail(@), !.was = TRUE]
          ELSE /\ Fail("stale")
               /\ place' = [i \in Inodes |->
                              IF i \in At(h.t) /\ At(h.f) = {} THEN h.f ELSE place[i]]
    /\ UNCHANGED <<away, row, bound, intent, home>> /\ Quiet

\* The error path of publish_topology: an entry under its temporary name goes
\* back to its old one, if that is free on disk and in the index.
Mine(r, t) == t.kind = "move" /\ Ready /\ ParentDir(t.from).err = "ok"
Undo ==
    /\ op.pc = "undo"
    /\ LET r == op.r
           t == intent[r]
           temp == Mine(r, t) /\ At(Temp(r, t)) = {t.src}
           try == temp /\ Placement(t, t.from) = "ok"
       IN /\ IF temp /\ Placement(t, t.from) = "io" THEN Raise
             ELSE op' = [op EXCEPT !.pc = "stop", !.tried = try]
          /\ place' = IF try /\ At(Source(t)) = {}
                      THEN [place EXCEPT ![t.src] = Source(t)] ELSE place
    /\ UNCHANGED <<away, row, bound, intent, home>> /\ Quiet
StopShort ==
    /\ op.pc = "stop"
    /\ LET r == op.r
           t == intent[r]
           temp    == Mine(r, t) /\ At(Temp(r, t)) = {t.src}
           partial == IF op.tried THEN At(Source(t)) # {t.src} ELSE t.partial \/ temp
       IN /\ Write(r, [t EXCEPT !.partial = partial,
                                !.stage = IF temp THEN "blocked"
                                          ELSE IF partial THEN "suspended" ELSE "rejected"])
          /\ row' = Projected(row, t, FALSE)
          /\ Proceed
    /\ UNCHANGED <<disk, bound, home>> /\ Quiet

-----------------------------------------------------------------------------
(* The root (relocate_root), the index (finish), the end.                  *)

ReturnRoot ==
    /\ op.pc = "root"
    /\ IF away = "squatted"
       THEN /\ Write(op.r, [intent[op.r] EXCEPT !.stage = "rejected"]) /\ Proceed
            /\ UNCHANGED away
       ELSE away' = "here" /\ Goto("index") /\ UNCHANGED intent
    /\ UNCHANGED <<place, row, bound, home>> /\ Quiet

Index ==
    /\ op.pc = "index"
    /\ row' = Projected(row, intent[op.r], TRUE)
    /\ bound' = TRUE
    /\ home' = IF intent[op.r].kind = "create" THEN op.r :> op.r @@ home ELSE home
    /\ Goto("settle")
    /\ UNCHANGED <<disk, intent>> /\ Quiet
Settle ==
    /\ op.pc = "settle"
    /\ Write(op.r, [intent[op.r] EXCEPT !.stage = "indexed"])
    /\ Proceed
    /\ UNCHANGED <<disk, row, bound, home>> /\ Quiet

-----------------------------------------------------------------------------
(* Stops, with the index lost or not, and other programs.                                *)

Stop ==
    /\ op.pc # "off" /\ left.stops > 0
    /\ op' = Off
    /\ \/ /\ left' = [left EXCEPT !.stops = @ - 1]
          /\ UNCHANGED <<row, bound>>
       \/ /\ bound /\ left.wipes > 0 /\ Ready
          /\ row' = <<>> /\ bound' = FALSE
          /\ left' = [left EXCEPT !.stops = @ - 1, !.wipes = @ - 1]
    /\ UNCHANGED <<disk, intent, home, touched, put>>
\* recover_startup: a lost index is rebuilt from the journal first.
Restart ==
    /\ op.pc = "off"
    /\ row' = IF bound THEN row
              ELSE FoldLeft(LAMBDA rows, r : Rebuilt(rows, intent[r]),
                            Root :> [parent |-> Root, name |-> "notes", live |-> TRUE],
                            SetToSortSeq({r \in Req : intent[r].stage # "none"},
                                         LAMBDA r, s : intent[r].seq < intent[s].seq))
    /\ bound' = TRUE
    /\ op' = [Idle EXCEPT !.pc = "recover", !.queue = InOrder(Recovered)]
    /\ UNCHANGED <<disk, intent, home>> /\ Quiet

\* Another program moves, removes or adds an entry, or the root.
Outside(is) ==
    /\ left.acts > 0 /\ left' = [left EXCEPT !.acts = @ - 1]
    /\ touched' = touched \cup is
    /\ UNCHANGED <<row, bound, intent, op, home>>
\* Not what comes between a rename and the look at what it moved: that is
\* taken for what was moved, and given back to where it never was.
Watched(p) == put' = IF op.pc = "verify" THEN Gone ELSE p
\* A program that saves by replacing: its file takes the note's name.
OtherReplaces ==
    /\ place[Other] = Gone /\ InNotes(Note)
    /\ place' = [place EXCEPT ![Other] = place[Note], ![Note] = Gone] /\ UNCHANGED away
    /\ Watched(place[Note])
    /\ Outside({Note, Other})
OtherMoves(i, d, n) ==
    /\ i # d /\ InNotes(i) /\ InNotes(d) /\ IsFolder(d) /\ At(InTree(d, n)) = {}
    /\ place' = [place EXCEPT ![i] = InTree(d, n)] /\ UNCHANGED <<away, put>>
    /\ Outside({i})
OtherAdds(d, n) ==
    /\ place[Other] = Gone /\ InNotes(d) /\ IsFolder(d) /\ At(InTree(d, n)) = {}
    /\ place' = [place EXCEPT ![Other] = InTree(d, n)] /\ UNCHANGED away
    /\ Watched(InTree(d, n))
    /\ Outside({Other})
OtherRemoves ==
    /\ InNotes(Note)
    /\ place' = [place EXCEPT ![Note] = Gone] /\ UNCHANGED <<away, put>>
    /\ Outside({Note})
OtherTakesRoot ==
    /\ away' = CASE away = "here" -> "moved" [] away = "moved" -> "squatted" [] OTHER -> away
    /\ UNCHANGED <<place, put>>
    /\ Outside({})
Others ==
    \/ \E i \in {Note, Dir}, d \in {Root, Dir}, n \in Names : OtherMoves(i, d, n)
    \/ \E d \in {Root, Dir}, n \in Names : OtherAdds(d, n)
    \/ OtherRemoves \/ OtherReplaces
    \/ OtherTakesRoot

-----------------------------------------------------------------------------
Step ==
    \/ Resume \/ NothingMore \/ Begin \/ Refused
    \/ Stages \/ Vacant \/ Restage \/ Place
    \/ Check \/ Move \/ Verify \/ Undo \/ StopShort
    \/ ReturnRoot \/ Index \/ Settle
Next == Enter \/ Step \/ Stop \/ Restart \/ Others
Spec == Init /\ [][Next]_vars

-----------------------------------------------------------------------------
TypeOK ==
    /\ \A i \in Inodes : place[i].in \in {"tree", "stage", "trash", "gone"}
                         /\ (place[i].in = "tree" => IsFolder(place[i].dir))
                         /\ place[i].name \in Names \cup Req \cup {"d", "item", "stage", "gone"}
    /\ away \in {"here", "moved", "squatted"}
    /\ DOMAIN row \subseteq Ids
    /\ \A i \in DOMAIN row : row[i].parent \in DOMAIN row /\ row[i].live \in BOOLEAN
    /\ bound \in BOOLEAN
    /\ \A r \in Req :
         /\ intent[r].stage \in {"none", "intent", "indexed", "rejected", "conflicted"} \cup Stopped
         /\ intent[r].kind \in {"none", "create", "move", "delete", "restore", "root"}
         /\ (intent[r].stage = "none") = (intent[r].kind = "none")
    /\ op.pc \in {"idle", "off", "recover", "stage", "vacant", "restage", "place", "check",
                  "move", "verify", "undo", "stop", "root", "index", "settle"}

\* An id names the same entry on disk before and after any mutation, stop and
\* loss of the index, and an entry no id names alive is in the trash: unless
\* another program had its hands on it or a mutation of it is not finished.
\* What another program put under a name stays there unless a mutation was
\* asked for it, also when that was between the check of a mutation and its rename, which
\* moves what has the name (move_topology_entry gives it back): unless the
\* process stopped before it could, or it came between the rename and the
\* look at what was moved.
Finished(i) == \A r \in Req : i \in DOMAIN intent[r].changes =>
                              intent[r].stage \in {"indexed", "rejected"}
OnlyOurs(i) ==
    LET f[j \in Ids] == home[j] \notin touched /\ (j # Root => f[row[j].parent])
    IN f[i]
InTrash(i) ==
    LET f[j \in Inodes] == place[j].in = "trash" \/ (place[j].in = "tree" /\ j # Root /\ f[place[j].dir])
    IN f[i]
IdKeepsEntry ==
    /\ op.pc = "idle" =>
        \A i \in DOMAIN row \ {Root} :
            Finished(i) /\ OnlyOurs(i) =>
                IF row[i].live
                THEN InNotes(home[i]) /\ DiskPath(home[i]) = Path(row, i)
                ELSE InTrash(home[i])
    /\ op.pc = "idle" /\ left.stops = MaxStops =>
        \/ put = Gone \/ place[Other] = put
        \/ \E r \in Req : intent[r].src = Other

\* When a mutation's own checks begin, and when a recovery ends, nothing that
\* was interrupted is left half done: unless another program stands in its way
\* or the root is away.
RecoveredFirst ==
    op.pc = "recover" /\ op.queue = <<>> =>
        \/ \A r \in Req : intent[r].stage \in {"none", "indexed", "rejected"}
        \/ touched # {} \/ ~Ready

\* A mutation that is refused has left its entry where it was.
RejectedIsUndone ==
    [][\A r \in Req :
          intent'[r].stage = "rejected" /\ intent[r].stage # "rejected"
          /\ intent[r].kind \notin {"create", "root"} /\ intent[r].src \notin touched
             => place[intent[r].src] = intent[r].origin]_vars

=============================================================================
