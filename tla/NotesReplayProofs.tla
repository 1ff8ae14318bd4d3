------------------------- MODULE NotesReplayProofs --------------------------
(***************************************************************************)
(* Machine-checked proof of what the replay of the notes' intents promises,*)
(* for any number of devices, changes, stops and kept or expired records:  *)
(* every intent is committed once, each change an index hides behind       *)
(* "synced" is one of those `hidden` names, and a delayed projection never *)
(* writes over a newer one.                                                *)
(*                                                                         *)
(* An operation names the one intent it carries out (LogInv), an entry of  *)
(* the tree the operation that wrote it (TreeInv), and a run in the middle *)
(* of a projection an entry no newer than its own operation, unless the    *)
(* entry has a later version by now (RunInv).  It goes over the intents in *)
(* order, so what waits is never behind it, nor behind the upload (RunInv).*)
(* A note the device removed as the bucket had it hides no change, so it   *)
(* may come back synced (RowInv).                                          *)
(***************************************************************************)
EXTENDS NotesReplay, TLAPS, FiniteSetTheorems, SequenceTheorems,
        WellFoundedInduction

-----------------------------------------------------------------------------
(* The inductive invariant.                                                *)

Ats    == Places \cup {Gone}
Kinds  == {"create", "place", "save", "delete", "restore"}
OpKinds == {"create", "place", "write", "delete", "restore"}
States == {"none", "synced", "pending", "deleted", "removed"}
Stages == {"indexed", "committed"}
Points == {"rest", "record", "observe", "attempt", "commit", "check", "put", "drop",
           "retire", "mark", "upload", "poll"}
Acting == Points \ {"rest", "upload", "poll"}
Ops     == [id : Ids, kind : OpKinds, to : Places, dev : Devices \cup {"earlier"}, req : Nat]
Records == [dev : Devices, req : Nat, details : Places \X SUBSET Ids] \cup {None}
Entries == [at : Ats, ver : Nat, op : Nat]
Rows    == [at : Ats, st : States, here : BOOLEAN]
Intents == [kind : Kinds, id : Ids, to : Places, ids : SUBSET Ids, of : Nat,
            base : Int, seen : Records, acked : BOOLEAN, stage : Stages]
Runs    == [pc : Points, i : Nat, upto : Nat, seen : Nat, left : Seq(Ids)]

\* The ranges of the variables.
Ranges ==
  /\ log \in Seq(Ops)
  /\ tree \in [Ids -> Entries]
  /\ tomb \in Records
  /\ expiry \in [over : SUBSET (Devices \X Nat), found : Records]
  /\ journal \in [Devices -> Seq(Intents)]
  /\ row \in [Devices -> [Ids -> Rows]]
  /\ run \in [Devices -> Runs]
  /\ cursor \in [Devices -> Nat]
  /\ hidden \subseteq Devices \X Nat \X Ids
  /\ mishaps \subseteq Mishaps /\ IsFiniteSet(mishaps) /\ Cardinality(mishaps) <= MaxMishaps

Named(x) == x.dev \in Devices /\ x.req \in DOMAIN journal[x.dev]

\* Only the folder is created, deleted and brought back, and the note saved.
Shape(c) ==
  /\ c.kind \in {"create", "delete", "restore"} => c.id = Folder
  /\ c.kind = "save" => c.id = Note
JournalInv == \A d \in Devices : \A k \in DOMAIN journal[d] : Shape(journal[d][k])

\* What a device knows, or has changed, has a place in its index.
PlaceInv ==
  \A d \in Devices, id \in Ids :
     /\ row[d][id].st # "none" => row[d][id].at # Gone
     /\ \A k \in DOMAIN journal[d] : id \in journal[d][k].ids => row[d][id].st # "none"

\* An operation carries out one intent of its device, and is the only one that
\* does; a save is committed with its operation.
KindOf(c) == IF c.kind = "save" THEN "write" ELSE c.kind
CarriesOut(n) ==
  /\ Named(log[n])
  /\ LET c == journal[log[n].dev][log[n].req] IN
     /\ log[n].id = c.id /\ log[n].kind = KindOf(c)
     /\ c.kind = "save" => c.stage = "committed"
  /\ \A m \in DOMAIN log : log[m].dev = log[n].dev /\ log[m].req = log[n].req => m = n
LogInv == \A n \in DOMAIN log : log[n].req # 0 => CarriesOut(n)

\* The folder's entry is written by operations on the folder; the note's by
\* those on the note, and by deletions and undos of the folder.  Only those
\* leave the note nowhere.
WrittenBy(id, n) ==
  \/ n = 0
  \/ n \in DOMAIN log /\ log[n].id = id
  \/ n \in DOMAIN log /\ id = Note /\ log[n].id = Folder /\ log[n].kind \in {"delete", "restore"}
TreeInv ==
  /\ \A id \in Ids : WrittenBy(id, tree[id].op)
  /\ tree[Note].at = Gone => tree[Note].op = 0 \/ log[tree[Note].op].id = Folder

\* What a conditional write must not overtake: an operation on the same entry.
NotOlder(id, n) ==
  \/ tree[id].op <= n
  \/ tree[id].op \in DOMAIN log /\ log[tree[id].op].id # id

\* A run past its first step is at an intent not yet committed; once it has
\* an operation it goes over the entries of that intent alone, and the version
\* it read is that of an entry no newer than the operation.  Nothing that waits
\* is behind it, nor among the intents the upload has left behind; a poll is
\* inside the log.
RunInv(d) ==
  LET r == run[d]
      c == journal[d][r.i]
  IN
  /\ r.upto <= Len(journal[d])
  /\ r.pc \in Acting => r.i \in DOMAIN journal[d] /\ c.stage = "indexed" /\ c.kind # "save"
  /\ r.pc \in Acting => \A j \in Waiting(d) : r.i <= j
  /\ r.pc = "upload" => \A j \in Waiting(d) : r.upto < j
  /\ r.pc = "poll" => r.seen <= Len(log) /\ r.i \in 1 .. r.seen + 1
  /\ r.pc \in {"record", "drop"} => c.kind = "delete"
  /\ r.pc = "commit" => OwnOp(d, r.i) = {}
  /\ r.pc \in {"check", "put", "drop"} => OwnOp(d, r.i) # {}
  /\ r.pc \in {"check", "put"} =>
       r.left # <<>> /\ (c.kind # "restore" => \A k \in DOMAIN r.left : r.left[k] = c.id)
  /\ r.pc = "put" =>
       /\ r.seen <= tree[r.left[1]].ver
       /\ r.seen = tree[r.left[1]].ver => \A n \in OwnOp(d, r.i) : NotOlder(r.left[1], n)

\* What is in the index as the bucket has it, and a note that was removed as
\* the bucket had it, has no change waiting but those `hidden` names.
Covered(d, id) == \A i \in Pending(d, id) : <<d, i, id>> \in hidden
RowInv ==
  \A d \in Devices, id \in Ids :
     row[d][id].st = "synced" \/ (id = Note /\ row[d][id].st = "removed") => Covered(d, id)

IInv ==
  /\ Ranges /\ (tomb # None => Named(tomb))
  /\ JournalInv /\ PlaceInv /\ LogInv /\ TreeInv /\ RowInv
  /\ \A d \in Devices : RunInv(d) /\ cursor[d] <= Len(log)

-----------------------------------------------------------------------------
(* Numbers and sequences.                                                  *)

(* A bounded set of positions in a journal or in the log has a last one. *)
LEMMA Greatest ==
  ASSUME NEW S \in SUBSET Nat, S # {}, NEW n \in Nat, \A i \in S : i <= n
  PROVE  \E m \in S : \A i \in S : i <= m
<1> DEFINE above == [i \in S |-> i .. n]
           T == {above[i] : i \in S}
           R == StrictSubsetOrdering(0 .. n)
<1>1. IsFiniteSet(0 .. n) /\ FiniteSubsetsOf(0 .. n) = SUBSET (0 .. n)
  <2>1. IsFiniteSet(0 .. n)
    BY FS_Interval, 0 \in Int, n \in Int
  <2>2. FiniteSubsetsOf(0 .. n) = SUBSET (0 .. n)
    BY ONLY <2>1, FS_FiniteSubsetsOfFinite
  <2>3. QED
    BY <2>1, <2>2
<1>2. IsWellFoundedOn(R, SUBSET (0 .. n))
  BY <1>1, FS_StrictSubsetOrderingWellFounded
<1>3. T \subseteq SUBSET (0 .. n) /\ T # {}
  <2>1. \A i \in S : above[i] = i .. n /\ (i .. n) \in SUBSET (0 .. n)
    OBVIOUS
  <2>2. QED
    BY <2>1
<1>4. PICK t \in T : \A u \in T : ~(<<u, t>> \in R)
  <2> HIDE DEF T, R
  <2> QED BY <1>2, <1>3, WFMin
<1>5. PICK m \in S : t = m .. n
  OBVIOUS
<1>6. ASSUME NEW i \in S PROVE i <= m
  <2>1. SUFFICES ASSUME i > m PROVE FALSE
    OBVIOUS
  <2>2. (i .. n) \subseteq (m .. n) /\ m \in m .. n /\ m \notin i .. n
    BY <2>1
  <2>3. above[i] \in T /\ above[i] = i .. n
    OBVIOUS
  <2>4. <<i .. n, m .. n>> \in R
    <3>1. (i .. n) \in SUBSET (0 .. n) /\ (m .. n) \in SUBSET (0 .. n)
      OBVIOUS
    <3>2. <<i .. n, m .. n>> \in (SUBSET (0 .. n)) \X (SUBSET (0 .. n))
      BY <3>1
    <3>3. QED
      BY <2>2, <3>2 DEF StrictSubsetOrdering
  <2>5. QED
    BY <1>4, <1>5, <2>3, <2>4
<1>7. QED
  BY <1>6

(* And a first one: the greatest of the distances from the bound. *)
LEMMA Least ==
  ASSUME NEW S \in SUBSET Nat, S # {}, NEW n \in Nat, \A i \in S : i <= n
  PROVE  \E m \in S : \A i \in S : m <= i
<1> DEFINE U == {n - i : i \in S}
<1>1. U \in SUBSET Nat /\ U # {} /\ \A u \in U : u <= n
  <2>1. \A i \in S : n - i \in Nat /\ n - i <= n
    OBVIOUS
  <2>2. QED
    BY <2>1
<1>2. \E v \in U : \A u \in U : u <= v
  <2> HIDE DEF U
  <2> QED BY <1>1, Greatest
<1>3. PICK v \in U : \A u \in U : u <= v
  BY <1>2
<1>4. PICK m \in S : v = n - m
  OBVIOUS
<1>5. ASSUME NEW i \in S PROVE m <= i
  <2>1. n - i \in U
    OBVIOUS
  <2>2. n - i <= n - m
    BY <1>3, <1>4, <2>1
  <2>3. QED
    BY <2>2
<1>6. QED
  BY <1>5

(* LastOf picks the last of the operations or saves it is given. *)
LEMMA LastOfIs ==
  ASSUME NEW S \in SUBSET Nat, S # {}, NEW n \in Nat, \A i \in S : i <= n
  PROVE  LastOf(S) \in S
<1>1. \E m \in S : \A i \in S : i <= m
  BY Greatest
<1>2. QED
  BY <1>1 DEF LastOf

(* An intent of the journal that is rewritten, as acknowledgements do. *)
LEMMA SeqPut ==
  ASSUME NEW S, NEW s \in Seq(S), NEW k \in DOMAIN s, NEW e \in S
  PROVE  LET t == [s EXCEPT ![k] = e] IN
         /\ t \in Seq(S) /\ Len(t) = Len(s) /\ DOMAIN t = DOMAIN s
         /\ t[k] = e /\ \A j \in DOMAIN s : j # k => t[j] = s[j]
OBVIOUS

(* One more intent in the journal, or operation in the log. *)
LEMMA SeqAdd ==
  ASSUME NEW S, NEW s \in Seq(S), NEW e \in S
  PROVE  LET t == Append(s, e) IN
         /\ t \in Seq(S) /\ Len(t) = Len(s) + 1 /\ DOMAIN t = 1 .. Len(s) + 1
         /\ DOMAIN s = 1 .. Len(s)
         /\ t[Len(s) + 1] = e /\ \A j \in DOMAIN s : t[j] = s[j]
OBVIOUS

(* What is left of a projection when an entry is done. *)
LEMMA SeqTail ==
  ASSUME NEW S, NEW s \in Seq(S), s # <<>>
  PROVE  /\ s[1] \in S /\ Head(s) = s[1] /\ Len(s) \in Nat /\ Len(s) >= 1
         /\ Tail(s) \in Seq(S) /\ Len(Tail(s)) = Len(s) - 1
         /\ \A k \in DOMAIN Tail(s) : k + 1 \in DOMAIN s /\ Tail(s)[k] = s[k + 1]
         /\ Len(s) > 1 => Tail(s) # <<>>
<1>1. s[1] \in S /\ Head(s) = s[1] /\ Len(s) \in Nat /\ Len(s) >= 1
  OBVIOUS
<1>2. Tail(s) \in Seq(S) /\ Len(Tail(s)) = Len(s) - 1
  BY <1>1
<1>3. \A k \in 1 .. Len(s) - 1 : k + 1 \in DOMAIN s /\ Tail(s)[k] = s[k + 1]
  BY <1>1
<1>4. DOMAIN Tail(s) = 1 .. Len(s) - 1
  BY <1>1, <1>2
<1>5. Len(s) > 1 => Tail(s) # <<>>
  <2>1. Len(<<>>) = 0
    OBVIOUS
  <2>2. ASSUME Len(s) > 1, Tail(s) = <<>> PROVE FALSE
    <3>1. Len(Tail(s)) = Len(<<>>)
      BY <2>2
    <3>2. QED
      BY <1>1, <1>2, <2>1, <2>2, <3>1
  <2>3. QED
    BY <2>2
<1>6. QED
  BY <1>1, <1>2, <1>3, <1>4, <1>5

(* The two entries of this model, and the places they can have. *)
LEMMA Two ==
  /\ Ids = {Folder, Note} /\ Folder # Note
  /\ Gone \notin Places /\ Gone \in Ats /\ Places \subseteq Ats
  /\ {"a", "b"} \subseteq Places /\ {"in", "out"} \subseteq Places
BY DEF Ids, Folder, Note, Gone, Ats, Places

(* A restore's projection goes over the contents, if any, and the folder. *)
LEMMA ProjectedIs ==
  ASSUME NEW d, Current(d) \in Intents
  PROVE  /\ Projected(d) \in Seq(Ids) /\ Projected(d) # <<>>
         /\ Current(d).kind # "restore" =>
              \A k \in DOMAIN Projected(d) : Projected(d)[k] = Current(d).id
<1>1. Current(d).id \in Ids /\ Current(d).ids \in SUBSET Ids
  BY DEF Intents
<1>2. CASE Current(d).kind # "restore"
  BY <1>1, <1>2 DEF Projected
<1>3. CASE Current(d).kind = "restore"
  <2> DEFINE S == Current(d).ids \ {Folder}
  <2>1. S = {} \/ S = {Note}
    BY <1>1, Two
  <2>2. SetToSeq(S) \in Seq(Ids)
    <3>1. CASE S = {}
      <4>1. Cardinality(S) = 0
        BY <3>1, FS_EmptySet
      <4>2. \E f \in [1 .. Cardinality(S) -> S] : IsInjective(f)
        <5>1. [i \in 1 .. 0 |-> i] \in [1 .. Cardinality(S) -> S]
          <6> HIDE DEF S
          <6> QED BY <4>1
        <5>2. IsInjective([i \in 1 .. 0 |-> i])
          BY DEF IsInjective
        <5>3. QED
          BY <5>1, <5>2
      <4>3. SetToSeq(S) \in [1 .. Cardinality(S) -> S]
        BY <4>2 DEF SetToSeq
      <4>4. QED
        BY <3>1, <4>1, <4>3
    <3>2. CASE S = {Note}
      <4>1. Cardinality(S) = 1
        BY <3>2, FS_Singleton
      <4>2. \E f \in [1 .. Cardinality(S) -> S] : IsInjective(f)
        <5>1. [i \in 1 .. 1 |-> Note] \in [1 .. Cardinality(S) -> S]
          BY <3>2, <4>1
        <5>2. IsInjective([i \in 1 .. 1 |-> Note])
          BY DEF IsInjective
        <5>3. QED
          BY <5>1, <5>2
      <4>3. SetToSeq(S) \in [1 .. Cardinality(S) -> S]
        BY <4>2 DEF SetToSeq
      <4>4. \A f \in [1 .. 1 -> {Note}] : f \in Seq({Note})
        BY SeqDef
      <4>5. Note \in Ids
        BY Two
      <4>6. QED
        <5> HIDE DEF S
        <5>1. SetToSeq(S) \in Seq({Note})
          BY <3>2, <4>1, <4>3, <4>4
        <5>2. QED
          BY <4>5, <5>1
    <3>3. QED
      BY <2>1, <3>1, <3>2
  <2>3. Projected(d) = SetToSeq(S) \o <<Folder>>
    BY <1>3 DEF Projected
  <2>4. QED
    <3> HIDE DEF S
    <3> QED BY <1>3, <2>2, <2>3, Two
<1>4. QED
  BY <1>2, <1>3

(* A run's next intent is one of those that wait, of the first n. *)
LEMMA NextOfIs ==
  ASSUME NEW d, journal[d] \in Seq(Intents), NEW W \in SUBSET DOMAIN journal[d],
         NEW n \in Nat, n <= Len(journal[d])
  PROVE  LET r == NextOf(d, W, n) IN
         /\ r \in Runs /\ r.upto = n
         /\ \/ r.pc = "upload" /\ \A j \in W : n < j
            \/ /\ r.i \in W /\ r.pc = First(journal[d][r.i].kind)
               /\ \A j \in W : r.i <= j
<1> DEFINE next == {i \in W : i <= n}
<1>0. Rest = [pc |-> "rest", i |-> 0, upto |-> 0, seen |-> 0, left |-> <<>>]
      /\ <<>> \in Seq(Ids)
  BY DEF Rest
<1>1. CASE next = {}
  <2>1. NextOf(d, W, n) = [Rest EXCEPT !.pc = "upload", !.upto = n]
    BY <1>1 DEF NextOf
  <2>2. NextOf(d, W, n) = [pc |-> "upload", i |-> 0, upto |-> n, seen |-> 0, left |-> <<>>]
    BY <1>0, <2>1
  <2>3. NextOf(d, W, n) \in Runs
    BY <1>0, <2>2 DEF Runs, Points
  <2>4. /\ NextOf(d, W, n).upto = n
        /\ NextOf(d, W, n).pc = "upload"
    BY <2>2
  <2>5. \A j \in W : n < j
    BY <1>1
  <2>6. QED
    BY <2>3, <2>4, <2>5
<1>2. CASE next # {}
  <2> DEFINE i == CHOOSE i \in next : \A j \in next : i <= j
  <2>1. next \in SUBSET Nat /\ \A j \in next : j <= n
    OBVIOUS
  <2>2. \E m \in next : \A j \in next : m <= j
    <3> HIDE DEF next
    <3> QED BY <1>2, <2>1, Least
  <2>3. i \in next
    BY <2>2
  <2>4. NextOf(d, W, n) = [Rest EXCEPT !.pc = First(journal[d][i].kind), !.i = i, !.upto = n]
    BY <1>2 DEF NextOf
  <2>5. First(journal[d][i].kind) \in Points
    BY DEF First, Points
  <2>6. i \in Nat /\ \A j \in W : i <= j
    <3>1. i \in Nat /\ i <= n /\ \A j \in next : i <= j
      BY <2>1, <2>2, <2>3
    <3> HIDE DEF i
    <3>2. QED
      BY <3>1
  <2>7. QED
    <3> HIDE DEF i
    <3>1. i \in W
      BY <2>3
    <3>2. QED
      <4>1. NextOf(d, W, n) = [pc |-> First(journal[d][i].kind), i |-> i, upto |-> n,
                               seen |-> 0, left |-> <<>>]
        BY <1>0, <2>4
      <4>2. QED
        BY <1>0, <2>5, <2>6, <3>1, <4>1 DEF Runs
<1>3. QED
  BY <1>1, <1>2

-----------------------------------------------------------------------------
(* What every step leaves alone.                                           *)

\* Intents stay, as what they are; once committed, they remain so.
JournalGrows ==
  \A d \in Devices :
    /\ DOMAIN journal[d] \subseteq DOMAIN journal'[d] /\ Len(journal[d]) <= Len(journal'[d])
    /\ \A k \in DOMAIN journal[d] :
         /\ journal'[d][k].id = journal[d][k].id /\ journal'[d][k].kind = journal[d][k].kind
         /\ journal'[d][k].ids = journal[d][k].ids
         /\ journal[d][k].stage = "committed" => journal'[d][k].stage = "committed"
\* Outside of the user's steps none is added.
JournalKept == JournalGrows /\ \A d \in Devices : DOMAIN journal'[d] = DOMAIN journal[d]

\* What was said to be hidden remains said.
Shown == hidden \subseteq hidden' /\ hidden' \ hidden \subseteq Devices \X Nat \X Ids

LogGrows == log' = log \/ \E op \in Ops : log' = Append(log, op)

\* An entry is what it was or has a later version.
TreeMoves == \A id \in Ids : tree'[id] = tree[id] \/ tree'[id].ver > tree[id].ver

(* The log only grows: what is in it stays where it is (commit_head). *)
LEMMA LogStays ==
  ASSUME log \in Seq(Ops), LogGrows
  PROVE  /\ log' \in Seq(Ops) /\ DOMAIN log \subseteq DOMAIN log' /\ Len(log) <= Len(log')
         /\ \A n \in DOMAIN log : log'[n] = log[n]
<1>1. CASE log' = log
  BY <1>1
<1>2. CASE \E op \in Ops : log' = Append(log, op)
  BY <1>2, SeqAdd
<1>3. QED
  BY <1>1, <1>2 DEF LogGrows

(* Operations go on carrying out their intents while the journals grow. *)
LEMMA LogSame ==
  ASSUME LogInv, JournalGrows, log' = log
  PROVE  LogInv'
<1> SUFFICES ASSUME NEW n \in DOMAIN log, log[n].req # 0 PROVE CarriesOut(n)'
  BY DEF LogInv
<1>1. CarriesOut(n)
  BY DEF LogInv
<1> DEFINE d == log[n].dev
           c == journal[d][log[n].req]
           b == journal'[d][log[n].req]
<1>2. d \in Devices /\ log[n].req \in DOMAIN journal[d]
  BY <1>1 DEF CarriesOut, Named
<1>3. /\ log[n].req \in DOMAIN journal'[d]
      /\ b.id = c.id /\ b.kind = c.kind /\ (c.stage = "committed" => b.stage = "committed")
  BY <1>2 DEF JournalGrows
<1>4. QED
  BY <1>1, <1>2, <1>3 DEF CarriesOut, Named, KindOf

(* A new operation is of an entry the code restores on the way, or the first *)
(* of its intent.                                                           *)
LEMMA LogMore ==
  ASSUME log \in Seq(Ops), LogInv, JournalGrows, NEW op \in Ops, log' = Append(log, op),
         \/ op.req = 0
         \/ /\ op.dev \in Devices /\ op.req \in DOMAIN journal'[op.dev]
            /\ op.id = journal'[op.dev][op.req].id
            /\ op.kind = KindOf(journal'[op.dev][op.req])
            /\ journal'[op.dev][op.req].kind = "save"
                 => journal'[op.dev][op.req].stage = "committed"
            /\ OwnOp(op.dev, op.req) = {}
  PROVE  LogInv'
<1>1. /\ DOMAIN log' = 1 .. Len(log) + 1 /\ DOMAIN log = 1 .. Len(log)
      /\ log'[Len(log) + 1] = op /\ \A j \in DOMAIN log : log'[j] = log[j]
  BY SeqAdd
<1>2. Len(log) \in Nat
  OBVIOUS
<1> SUFFICES ASSUME NEW n \in DOMAIN log', log'[n].req # 0 PROVE CarriesOut(n)'
  BY DEF LogInv
<1>3. CASE n \in DOMAIN log
  <2>1. CarriesOut(n) /\ log'[n] = log[n]
    BY <1>1, <1>3 DEF LogInv
  <2> DEFINE d == log[n].dev
             c == journal[d][log[n].req]
             b == journal'[d][log[n].req]
  <2>2. d \in Devices /\ log[n].req \in DOMAIN journal[d]
    BY <2>1 DEF CarriesOut, Named
  <2>3. /\ log[n].req \in DOMAIN journal'[d]
        /\ b.id = c.id /\ b.kind = c.kind /\ (c.stage = "committed" => b.stage = "committed")
    BY <2>2 DEF JournalGrows
  <2>4. ~(op.dev = d /\ op.req = log[n].req)
    BY <1>1, <1>3, <2>1 DEF OwnOp
  <2>5. \A m \in DOMAIN log' : log'[m].dev = d /\ log'[m].req = log[n].req => m = n
    <3>1. ASSUME NEW m \in DOMAIN log', log'[m].dev = d, log'[m].req = log[n].req PROVE m = n
      <4>1. m \in DOMAIN log \/ m = Len(log) + 1
        BY <1>1, <1>2
      <4>2. m \in DOMAIN log
        BY <1>1, <2>4, <3>1, <4>1
      <4>3. QED
        BY <1>1, <2>1, <3>1, <4>2 DEF CarriesOut
    <3>2. QED
      BY <3>1
  <2>6. QED
    BY <2>1, <2>2, <2>3, <2>5 DEF CarriesOut, Named, KindOf
<1>4. CASE n \notin DOMAIN log
  <2>1. n = Len(log) + 1 /\ log'[n] = op
    BY <1>1, <1>2, <1>4
  <2>2. ASSUME NEW m \in DOMAIN log', log'[m].dev = op.dev, log'[m].req = op.req PROVE m = n
    <3>1. m \in DOMAIN log => m \in OwnOp(op.dev, op.req)
      BY <1>1, <2>2 DEF OwnOp
    <3>2. m \notin DOMAIN log
      BY <2>1, <3>1
    <3>3. QED
      BY <1>1, <1>2, <2>1, <3>2
  <2>3. QED
    BY <2>1, <2>2 DEF CarriesOut, Named
<1>5. QED
  BY <1>3, <1>4

(* An entry keeps its writer while the log grows. *)
LEMMA TreeSame ==
  ASSUME log \in Seq(Ops), LogGrows, TreeInv, tree' = tree
  PROVE  TreeInv' /\ TreeMoves
<1>1. /\ DOMAIN log \subseteq DOMAIN log'
      /\ \A n \in DOMAIN log : log'[n] = log[n]
  BY LogStays
<1>2. ASSUME NEW id \in Ids PROVE WrittenBy(id, tree[id].op)'
  <2>1. WrittenBy(id, tree[id].op)
    BY DEF TreeInv
  <2>2. QED
    BY <1>1, <2>1 DEF WrittenBy
<1>3. tree[Note].at = Gone => tree[Note].op = 0 \/ log'[tree[Note].op].id = Folder
  <2>1. Note \in Ids /\ Note # Folder
    BY Two
  <2>2. WrittenBy(Note, tree[Note].op)
    BY <2>1 DEF TreeInv
  <2>3. QED
    BY <1>1, <2>2 DEF TreeInv, WrittenBy
<1>4. QED
  BY <1>2, <1>3 DEF TreeInv, TreeMoves

(* Entries written by an operation on them, or by one that removes or brings *)
(* back the folder, which alone may leave the note nowhere.                  *)
LEMMA TreeMore ==
  ASSUME log \in Seq(Ops), LogGrows, TreeInv, tree \in [Ids -> Entries],
         NEW S \in SUBSET Ids, NEW n \in DOMAIN log',
         tree' \in [Ids -> Entries],
         \A id \in Ids \ S : tree'[id] = tree[id],
         \A id \in S :
           /\ tree'[id].op = n /\ tree'[id].ver > tree[id].ver
           /\ \/ log'[n].id = id
              \/ id = Note /\ log'[n].id = Folder /\ log'[n].kind \in {"delete", "restore"}
           /\ id = Note /\ tree'[id].at = Gone => log'[n].id = Folder
  PROVE  TreeInv' /\ TreeMoves
<1>1. /\ DOMAIN log \subseteq DOMAIN log'
      /\ \A m \in DOMAIN log : log'[m] = log[m]
  BY LogStays
<1>2. ASSUME NEW id \in Ids PROVE WrittenBy(id, tree[id].op)'
  <2>1. WrittenBy(id, tree[id].op)
    BY DEF TreeInv
  <2>2. CASE id \in S
    BY <2>2 DEF WrittenBy
  <2>3. CASE id \notin S
    BY <1>1, <2>1, <2>3 DEF WrittenBy
  <2>4. QED
    BY <2>2, <2>3
<1>3. tree'[Note].at = Gone => tree'[Note].op = 0 \/ log'[tree'[Note].op].id = Folder
  <2>1. Note \in Ids /\ Note # Folder
    BY Two
  <2>2. WrittenBy(Note, tree[Note].op)
    BY <2>1 DEF TreeInv
  <2>3. CASE Note \in S
    BY <2>3
  <2>4. CASE Note \notin S
    BY <1>1, <2>1, <2>2, <2>4 DEF TreeInv, WrittenBy
  <2>5. QED
    BY <2>3, <2>4
<1>4. QED
  BY <1>2, <1>3 DEF TreeInv, TreeMoves

(* What no step of the run's own device changes, it keeps: the version it    *)
(* read is still that of the entry it saw, or the entry has a later one.     *)
LEMMA RunKept ==
  ASSUME NEW e \in Devices, RunInv(e), log \in Seq(Ops), LogGrows,
         run \in [Devices -> Runs], run'[e] = run[e],
         tree \in [Ids -> Entries], tree' \in [Ids -> Entries], TreeMoves,
         DOMAIN journal[e] \subseteq DOMAIN journal'[e], Len(journal[e]) <= Len(journal'[e]),
         journal[e] \in Seq(Intents), journal'[e] \in Seq(Intents),
         \A j \in Waiting(e)' : j \in Waiting(e) \/ j > Len(journal[e]),
         run[e].pc \in Acting =>
           /\ journal'[e][run[e].i] = journal[e][run[e].i]
           /\ \A n \in DOMAIN log' \ DOMAIN log :
                ~(log'[n].dev = e /\ log'[n].req = run[e].i)
  PROVE  RunInv(e)'
<1> DEFINE r == run[e]
           c == journal[e][r.i]
<1>1. /\ DOMAIN log \subseteq DOMAIN log'
      /\ \A n \in DOMAIN log : log'[n] = log[n]
  BY LogStays
<1>2. r \in Runs /\ r.i \in Nat /\ r.upto \in Nat
  BY DEF Runs
<1>3. /\ r.upto <= Len(journal'[e])
      /\ r.pc \in Acting => \A j \in Waiting(e)' : r.i <= j
      /\ r.pc = "upload" => \A j \in Waiting(e)' : r.upto < j
      /\ r.pc = "poll" => r.seen <= Len(log') /\ r.i \in 1 .. r.seen + 1
  <2>1. /\ Len(journal[e]) \in Nat /\ Len(journal'[e]) \in Nat
        /\ Len(log) \in Nat /\ Len(log') \in Nat /\ Len(log) <= Len(log')
    BY LogStays
  <2>2. \A j \in Waiting(e)' : j \in Nat
    BY DEF Waiting
  <2>3. r.upto <= Len(journal[e]) /\ (r.pc \in Acting => r.i <= Len(journal[e]))
    BY <1>2, <2>1 DEF RunInv
  <2>4. QED
    BY <1>2, <2>1, <2>2, <2>3 DEF RunInv, Runs
<1>4. CASE r.pc \notin Acting
  BY <1>3, <1>4 DEF RunInv, Acting, Points
<1>5. CASE r.pc \in Acting
  <2>1. journal'[e][r.i] = c /\ r.i \in DOMAIN journal'[e]
    BY <1>5 DEF RunInv
  <2>2. OwnOp(e, r.i)' = OwnOp(e, r.i)
    BY <1>1, <1>5 DEF OwnOp
  <2>3. r.pc = "put" =>
          /\ r.seen <= tree'[r.left[1]].ver
          /\ r.seen = tree'[r.left[1]].ver
               => \A n \in OwnOp(e, r.i) : NotOlder(r.left[1], n)'
    <3> SUFFICES ASSUME r.pc = "put"
                 PROVE  /\ r.seen <= tree'[r.left[1]].ver
                        /\ r.seen = tree'[r.left[1]].ver
                             => \A n \in OwnOp(e, r.i) : NotOlder(r.left[1], n)'
      OBVIOUS
    <3> DEFINE id == r.left[1]
    <3>1. r.left \in Seq(Ids) /\ r.left # <<>> /\ r.seen \in Nat
      BY <1>2 DEF RunInv, Runs
    <3>2. id \in Ids
      BY <3>1, SeqTail
    <3>3. tree[id].ver \in Nat /\ tree'[id].ver \in Nat
      BY <3>2 DEF Entries
    <3>4. /\ r.seen <= tree[id].ver
          /\ r.seen = tree[id].ver => \A n \in OwnOp(e, r.i) : NotOlder(id, n)
      BY DEF RunInv
    <3>5. CASE tree'[id] = tree[id]
      <4>1. \A n : NotOlder(id, n) => NotOlder(id, n)'
        BY <1>1, <3>5 DEF NotOlder
      <4>2. QED
        BY <3>4, <3>5, <4>1
    <3>6. CASE tree'[id].ver > tree[id].ver
      BY <3>1, <3>3, <3>4, <3>6
    <3>7. QED
      BY <3>2, <3>5, <3>6 DEF TreeMoves
  <2>4. QED
    <3>1. /\ r.pc \in {"record", "drop"} => c.kind = "delete"
          /\ r.pc = "commit" => OwnOp(e, r.i) = {}
          /\ r.pc \in {"check", "put", "drop"} => OwnOp(e, r.i) # {}
          /\ r.pc \in {"check", "put"} =>
               r.left # <<>> /\ (c.kind # "restore" => \A k \in DOMAIN r.left : r.left[k] = c.id)
          /\ c.stage = "indexed" /\ c.kind # "save"
      BY <1>5 DEF RunInv
    <3>2. run'[e] = run[e] /\ journal'[e][run'[e].i] = c
      BY <2>1
    <3>3. OwnOp(e, run[e].i)' = OwnOp(e, run[e].i)
      BY <2>2
    <3>4. run[e].pc = "put" =>
            \A n \in OwnOp(e, run[e].i)' :
               run[e].seen = tree'[run[e].left[1]].ver => NotOlder(run[e].left[1], n)'
      BY <2>3, <3>3
    <3> HIDE DEF c
    <3>5. QED
      BY <1>3, <2>1, <2>3, <3>1, <3>2, <3>3, <3>4 DEF RunInv
<1>6. QED
  BY <1>4, <1>5

(* The intents keep their shape. *)
LEMMA ShapeKept ==
  ASSUME JournalInv, JournalKept
  PROVE  JournalInv'
BY DEF JournalInv, JournalKept, JournalGrows, Shape

(* What waits to be published is only less. *)
LEMMA PendingLess ==
  ASSUME JournalKept
  PROVE  \A d \in Devices : \A id \in Ids : Pending(d, id)' \subseteq Pending(d, id)
BY DEF Pending, JournalKept, JournalGrows

(* The intents that wait are those of the journal. *)
LEMMA WaitingSame ==
  ASSUME NEW d, journal'[d] = journal[d]
  PROVE  Waiting(d)' = Waiting(d)
BY DEF Waiting

(* Changes that become hidden: those an acknowledgement does not look for. *)
LEMMA HidesIs ==
  ASSUME NEW d \in Devices, NEW id \in Ids, NEW S \in SUBSET Nat, Hides(d, id, S)
  PROVE  Shown /\ \A i \in S : <<d, i, id>> \in hidden'
BY DEF Hides, HiddenChanges, Shown

(* The changes of an entry are intents of the journal. *)
LEMMA PendingIs ==
  ASSUME NEW d, NEW id, journal[d] \in Seq(Intents)
  PROVE  Pending(d, id) \in SUBSET Nat /\ Pending(d, id) \in SUBSET DOMAIN journal[d]
BY DEF Pending

(* Acknowledged changes are only more, and what was hidden stays named. *)
LEMMA RowSame ==
  ASSUME RowInv, PlaceInv, JournalKept, row' = row, Shown
  PROVE  RowInv' /\ PlaceInv'
<1>1. ASSUME NEW d \in Devices, NEW id \in Ids, Covered(d, id) PROVE Covered(d, id)'
  BY <1>1, PendingLess DEF Covered, Shown
<1>2. RowInv'
  BY <1>1 DEF RowInv
<1>3. PlaceInv'
  BY DEF PlaceInv, JournalKept, JournalGrows
<1>4. QED
  BY <1>2, <1>3

-----------------------------------------------------------------------------
(* The ways a step moves on.                                               *)

(* The runs of the other devices. *)
LEMMA OtherRuns ==
  ASSUME IInv, NEW d \in Devices, LogGrows, JournalGrows, TreeMoves,
         tree' \in [Ids -> Entries], journal' \in [Devices -> Seq(Intents)],
         \A e \in Devices \ {d} : run'[e] = run[e] /\ journal'[e] = journal[e],
         \A n \in DOMAIN log' \ DOMAIN log : log'[n].dev = d
  PROVE  \A e \in Devices \ {d} : RunInv(e)'
<1> SUFFICES ASSUME NEW e \in Devices \ {d} PROVE RunInv(e)'
  OBVIOUS
<1>1. /\ RunInv(e) /\ log \in Seq(Ops) /\ run \in [Devices -> Runs]
      /\ tree \in [Ids -> Entries] /\ journal[e] \in Seq(Intents)
  BY DEF IInv, Ranges
<1>2. /\ run'[e] = run[e] /\ journal'[e] = journal[e]
      /\ Len(journal[e]) \in Nat
  BY <1>1
<1>3. /\ DOMAIN journal[e] \subseteq DOMAIN journal'[e] /\ Len(journal[e]) <= Len(journal'[e])
      /\ journal'[e] \in Seq(Intents)
      /\ \A j \in Waiting(e)' : j \in Waiting(e)
  BY <1>1, <1>2 DEF Waiting
<1>4. /\ journal'[e][run[e].i] = journal[e][run[e].i]
      /\ \A n \in DOMAIN log' \ DOMAIN log : ~(log'[n].dev = e /\ log'[n].req = run[e].i)
  BY <1>2
<1>5. QED
  BY <1>1, <1>2, <1>3, <1>4, RunKept

(* A step of a run that changes nothing but where the run is, and perhaps   *)
(* the deletion record.                                                     *)
LEMMA RunOnly ==
  ASSUME IInv, NEW d \in Devices, NEW r \in Runs, run' = [run EXCEPT ![d] = r],
         log' = log, tree' = tree, journal' = journal, row' = row, Shown, expiry' = expiry,
         \/ cursor' = cursor
         \/ run[d].pc = "poll" /\ cursor' = [cursor EXCEPT ![d] = run[d].seen],
         tomb' \in Records, tomb' # None => Named(tomb'),
         /\ mishaps' \subseteq Mishaps /\ IsFiniteSet(mishaps')
         /\ Cardinality(mishaps') <= MaxMishaps,
         RunInv(d)'
  PROVE  IInv'
<1>0. cursor' \in [Devices -> Nat] /\ \A e \in Devices : cursor'[e] <= Len(log')
  <2>1. /\ cursor \in [Devices -> Nat] /\ run \in [Devices -> Runs] /\ RunInv(d)
        /\ \A e \in Devices : cursor[e] <= Len(log)
    BY DEF IInv, Ranges
  <2>2. run[d].seen \in Nat /\ (run[d].pc = "poll" => run[d].seen <= Len(log))
    BY <2>1 DEF RunInv, Runs
  <2>3. QED
    BY <2>1, <2>2
<1>1. Ranges'
  BY <1>0 DEF IInv, Ranges, Shown
<1>2. JournalKept /\ JournalGrows /\ LogGrows /\ journal \in [Devices -> Seq(Intents)]
  BY DEF JournalKept, JournalGrows, LogGrows, IInv, Ranges
<1>3. TreeInv' /\ TreeMoves /\ LogInv' /\ JournalInv' /\ RowInv' /\ PlaceInv'
  <2>1. log \in Seq(Ops) /\ TreeInv /\ LogInv /\ JournalInv /\ RowInv /\ PlaceInv
    BY DEF IInv, Ranges
  <2>2. QED
    BY <1>2, <2>1, TreeSame, LogSame, ShapeKept, RowSame
<1>4. \A e \in Devices : RunInv(e)'
  <2>1. /\ tree' \in [Ids -> Entries] /\ journal' \in [Devices -> Seq(Intents)]
        /\ run \in [Devices -> Runs]
    BY <1>1 DEF IInv, Ranges
  <2>2. \A e \in Devices \ {d} : RunInv(e)'
    BY <1>2, <1>3, <2>1, OtherRuns
  <2>3. QED
    BY <2>2
<1>5. (tomb # None => Named(tomb))'
  BY DEF Named
<1>6. QED
  BY <1>0, <1>1, <1>3, <1>4, <1>5 DEF IInv

(* A write to the intent a run is at (save_receipt, observe_deletion,       *)
(* record_committed): the intent stays what it is, and not committed.       *)
LEMMA NotedIs ==
  ASSUME IInv, NEW d \in Devices, run[d].i \in DOMAIN journal[d],
         NEW b \in Intents, b.id = Current(d).id, b.kind = Current(d).kind,
         b.ids = Current(d).ids, b.stage = Current(d).stage,
         journal' = [journal EXCEPT ![d][run[d].i] = b]
  PROVE  /\ journal' \in [Devices -> Seq(Intents)] /\ JournalKept /\ JournalGrows
         /\ \A e \in Devices \ {d} : journal'[e] = journal[e]
         /\ DOMAIN journal'[d] = DOMAIN journal[d] /\ Len(journal'[d]) = Len(journal[d])
         /\ journal'[d][run[d].i] = b
         /\ Waiting(d)' = Waiting(d)
<1>0. journal \in [Devices -> Seq(Intents)]
  BY DEF IInv, Ranges
<1> DEFINE s == journal[d]
           t == [s EXCEPT ![run[d].i] = b]
<1>1. /\ t \in Seq(Intents) /\ Len(t) = Len(s) /\ DOMAIN t = DOMAIN s
      /\ t[run[d].i] = b /\ \A j \in DOMAIN s : j # run[d].i => t[j] = s[j]
  BY <1>0, SeqPut
<1>2. /\ journal' \in [Devices -> Seq(Intents)] /\ journal'[d] = t
      /\ \A e \in Devices \ {d} : journal'[e] = journal[e]
  <2> HIDE DEF t
  <2>1. journal' = [journal EXCEPT ![d] = t]
    BY DEF t
  <2>2. QED
    BY <1>0, <1>1, <2>1
<1> HIDE DEF t
<1>3. /\ DOMAIN t = DOMAIN s /\ Len(t) = Len(s) /\ Len(s) \in Nat
      /\ \A k \in DOMAIN s : /\ t[k].id = s[k].id /\ t[k].kind = s[k].kind
                             /\ t[k].ids = s[k].ids /\ t[k].stage = s[k].stage
  BY <1>0, <1>1 DEF Current
<1>4. JournalKept /\ JournalGrows
  <2>1. \A e \in Devices : Len(journal[e]) \in Nat
    BY <1>0
  <2>2. JournalGrows
    <3> SUFFICES ASSUME NEW e \in Devices
                 PROVE  /\ DOMAIN journal[e] \subseteq DOMAIN journal'[e]
                        /\ Len(journal[e]) <= Len(journal'[e])
                        /\ \A k \in DOMAIN journal[e] :
                             /\ journal'[e][k].id = journal[e][k].id
                             /\ journal'[e][k].kind = journal[e][k].kind
                             /\ journal'[e][k].ids = journal[e][k].ids
                             /\ journal[e][k].stage = "committed"
                                  => journal'[e][k].stage = "committed"
      BY DEF JournalGrows
    <3>1. CASE e = d
      BY <1>2, <1>3, <3>1
    <3>2. CASE e # d
      BY <1>2, <2>1, <3>2
    <3>3. QED
      BY <3>1, <3>2
  <2>3. \A e \in Devices : DOMAIN journal'[e] = DOMAIN journal[e]
    BY <1>2, <1>3
  <2>4. QED
    BY <2>2, <2>3 DEF JournalKept
<1>5. Waiting(d)' = Waiting(d)
  BY <1>2, <1>3 DEF Waiting
<1>6. QED
  BY <1>1, <1>2, <1>3, <1>4, <1>5

(* A step of a run that changes nothing else but where it is. *)
LEMMA NoteOnIntent ==
  ASSUME IInv, NEW d \in Devices, run[d].i \in DOMAIN journal[d],
         NEW b \in Intents, b.id = Current(d).id, b.kind = Current(d).kind,
         b.ids = Current(d).ids, b.stage = Current(d).stage,
         journal' = [journal EXCEPT ![d][run[d].i] = b],
         NEW r \in Runs, run' = [run EXCEPT ![d] = r],
         log' = log, tree' = tree, tomb' = tomb, row' = row, cursor' = cursor,
         Shown, expiry' = expiry, mishaps' = mishaps,
         RunInv(d)'
  PROVE  IInv'
<1>0. /\ log \in Seq(Ops) /\ TreeInv /\ LogInv /\ JournalInv /\ RowInv /\ PlaceInv
      /\ journal \in [Devices -> Seq(Intents)] /\ tree \in [Ids -> Entries]
      /\ run \in [Devices -> Runs]
  BY DEF IInv, Ranges
<1>1. /\ journal' \in [Devices -> Seq(Intents)] /\ JournalKept /\ JournalGrows
      /\ \A e \in Devices \ {d} : journal'[e] = journal[e]
  BY NotedIs
<1>2. Ranges'
  BY <1>1 DEF IInv, Ranges, Shown
<1>3. TreeInv' /\ TreeMoves /\ LogInv' /\ JournalInv' /\ RowInv' /\ PlaceInv' /\ LogGrows
  <2>1. LogGrows
    BY DEF LogGrows
  <2>2. QED
    BY <1>0, <1>1, <2>1, TreeSame, LogSame, ShapeKept, RowSame
<1>4. \A e \in Devices : RunInv(e)'
  <2>1. tree' \in [Ids -> Entries] /\ \A e \in Devices \ {d} : run'[e] = run[e]
    BY <1>0
  <2>2. \A e \in Devices \ {d} : RunInv(e)'
    BY <1>1, <1>3, <2>1, OtherRuns
  <2>3. QED
    BY <2>2
<1>5. \A e \in Devices : cursor'[e] <= Len(log')
  BY DEF IInv
<1>6. (tomb # None => Named(tomb))'
  BY <1>1 DEF IInv, Named, JournalKept
<1>7. QED
  BY <1>2, <1>3, <1>4, <1>5, <1>6 DEF IInv

\* A poll goes on to the next operation.
Polling(d) ==
  /\ run[d].pc = "poll" /\ run[d].i <= run[d].seen
  /\ run' = [run EXCEPT ![d].i = @ + 1]

(* A poll applies an operation to the index of its device alone. *)
LEMMA RowOnly ==
  ASSUME IInv, NEW d \in Devices, bucket' = bucket, journal' = journal, Polling(d),
         mishaps' = mishaps, Shown, cursor' = cursor,
         row' \in [Devices -> [Ids -> Rows]],
         \A e \in Devices \ {d} : row'[e] = row[e],
         \A id \in Ids :
           /\ row'[d][id].st = "synced" \/ (id = Note /\ row'[d][id].st = "removed")
                => Covered(d, id)'
           /\ row'[d][id].st # "none" => row'[d][id].at # Gone
           /\ row[d][id].st # "none" => row'[d][id].st # "none"
  PROVE  IInv'
<1>0. /\ log' = log /\ tree' = tree /\ tomb' = tomb /\ expiry' = expiry
      /\ log \in Seq(Ops) /\ TreeInv /\ LogInv /\ JournalInv /\ RowInv /\ PlaceInv
      /\ run \in [Devices -> Runs] /\ Len(log) \in Nat
  BY DEF bucket, IInv, Ranges
<1> DEFINE r == [run[d] EXCEPT !.i = @ + 1]
<1>r. /\ r \in Runs /\ r.pc = "poll" /\ r.i = run[d].i + 1 /\ r.upto = run[d].upto
      /\ r.seen = run[d].seen
      /\ run' = [run EXCEPT ![d] = r]
  <2>1. run[d] \in Runs
    BY <1>0
  <2>2. QED
    BY <2>1 DEF Polling, Runs
<1> HIDE DEF r
<1>s. run' \in [Devices -> Runs] /\ run'[d] = r /\ \A e \in Devices \ {d} : run'[e] = run[e]
  BY <1>0, <1>r
<1>1. Ranges'
  BY <1>0, <1>s DEF IInv, Ranges, Shown
<1>2. JournalKept /\ JournalGrows /\ LogGrows
  <2>1. \A e \in Devices : Len(journal[e]) \in Nat
    BY DEF IInv, Ranges
  <2>2. QED
    BY <1>0, <2>1 DEF JournalKept, JournalGrows, LogGrows
<1>3. TreeInv' /\ LogInv' /\ JournalInv'
  BY <1>0, <1>2, TreeSame, LogSame, ShapeKept
<1>4. RowInv'
  <2>1. ASSUME NEW e \in Devices, NEW id \in Ids, Covered(e, id) PROVE Covered(e, id)'
    BY <1>2, <2>1, PendingLess DEF Covered, Shown
  <2>2. QED
    BY <1>0, <2>1 DEF RowInv
<1>5. PlaceInv'
  BY <1>0 DEF PlaceInv
<1>6. \A e \in Devices : RunInv(e)'
  <2> SUFFICES ASSUME NEW e \in Devices PROVE RunInv(e)'
    OBVIOUS
  <2>1. RunInv(e)
    BY DEF IInv
  <2>2. CASE e # d
    BY <1>0, <1>s, <2>1, <2>2 DEF RunInv, OwnOp, NotOlder, Waiting
  <2>3. CASE e = d
    <3>1. /\ r.upto <= Len(journal'[d]) /\ r.seen <= Len(log')
          /\ r.i \in 1 .. r.seen + 1
      <4>1. run[d].i \in Nat /\ run[d].seen \in Nat
        BY <1>0 DEF Runs
      <4>2. QED
        BY <1>0, <1>r, <2>1, <2>3, <4>1 DEF RunInv, Polling
    <3>2. QED
      BY <1>r, <1>s, <2>3, <3>1 DEF RunInv, Acting
  <2>4. QED
    BY <2>2, <2>3
<1>7. \A e \in Devices : cursor'[e] <= Len(log')
  BY <1>0 DEF IInv
<1>8. (tomb # None => Named(tomb))'
  BY <1>0 DEF IInv, Named
<1>9. QED
  BY <1>1, <1>3, <1>4, <1>5, <1>6, <1>7, <1>8 DEF IInv

(* A change of the user: one more intent, and the entries it is about are   *)
(* known as changed.                                                        *)
LEMMA Changed ==
  ASSUME IInv, NEW d \in Devices, NEW c \in Intents, Shape(c), c.stage = "indexed",
         NEW rows \in [Ids -> Rows], Change(d, c, rows),
         \A id \in c.ids : rows[id].st \in {"pending", "deleted"} /\ rows[id].at # Gone,
         \A id \in Ids \ c.ids : rows[id] = row[d][id]
  PROVE  IInv'
<1>0. /\ log' = log /\ tree' = tree /\ tomb' = tomb /\ expiry' = expiry /\ run' = run
      /\ cursor' = cursor /\ mishaps' = mishaps /\ hidden' = hidden
      /\ row' = [row EXCEPT ![d] = rows]
      /\ journal' = [journal EXCEPT ![d] = Append(journal[d], c)]
  BY DEF Change, bucket, Safe, history
<1>1. /\ log \in Seq(Ops) /\ TreeInv /\ LogInv /\ JournalInv /\ RowInv /\ PlaceInv
      /\ journal \in [Devices -> Seq(Intents)] /\ tree \in [Ids -> Entries]
      /\ run \in [Devices -> Runs] /\ row \in [Devices -> [Ids -> Rows]]
  BY DEF IInv, Ranges
<1> DEFINE s == journal[d]
           t == Append(s, c)
<1>2. /\ t \in Seq(Intents) /\ Len(t) = Len(s) + 1 /\ DOMAIN t = 1 .. Len(s) + 1
      /\ DOMAIN s = 1 .. Len(s) /\ Len(s) \in Nat
      /\ t[Len(s) + 1] = c /\ \A j \in DOMAIN s : t[j] = s[j]
  <2>1. s \in Seq(Intents)
    BY <1>1
  <2>2. QED
    BY <2>1, SeqAdd
<1>3. /\ journal' \in [Devices -> Seq(Intents)] /\ journal'[d] = t
      /\ \A e \in Devices \ {d} : journal'[e] = journal[e]
  <2> HIDE DEF t
  <2>1. journal' = [journal EXCEPT ![d] = t]
    BY <1>0 DEF t
  <2>2. QED
    BY <1>1, <1>2, <2>1
<1> HIDE DEF t
<1>4. /\ row' \in [Devices -> [Ids -> Rows]] /\ row'[d] = rows
      /\ \A e \in Devices \ {d} : row'[e] = row[e]
  BY <1>0, <1>1
<1>5. JournalGrows
  <2>1. \A e \in Devices : Len(journal[e]) \in Nat
    BY <1>1
  <2>2. \A e \in Devices : \A k \in DOMAIN journal[e] :
          k \in DOMAIN journal'[e] /\ journal'[e][k] = journal[e][k]
    <3>1. \A k \in DOMAIN s : k \in DOMAIN t /\ t[k] = s[k]
      BY <1>2
    <3>2. QED
      BY <1>3, <3>1
  <2>3. \A e \in Devices : Len(journal[e]) <= Len(journal'[e])
    BY <1>2, <1>3, <2>1
  <2>4. QED
    BY <2>2, <2>3 DEF JournalGrows
<1>6. LogGrows /\ TreeMoves /\ TreeInv' /\ LogInv'
  <2>1. LogGrows
    BY <1>0 DEF LogGrows
  <2>2. QED
    BY <1>0, <1>1, <1>5, <2>1, TreeSame, LogSame
<1>7. Ranges'
  BY <1>0, <1>3, <1>4 DEF IInv, Ranges
<1>8. JournalInv'
  <2>1. \A k \in DOMAIN t : Shape(t[k])
    <3>1. \A k \in DOMAIN s : Shape(s[k])
      BY <1>1 DEF JournalInv
    <3>2. \A k \in DOMAIN t : k \in DOMAIN s \/ k = Len(s) + 1
      BY <1>2
    <3>3. QED
      BY <1>2, <3>1, <3>2
  <2>2. QED
    BY <1>1, <1>3, <2>1 DEF JournalInv
<1>9. PlaceInv'
  <2> SUFFICES ASSUME NEW e \in Devices, NEW id \in Ids
               PROVE  /\ row'[e][id].st # "none" => row'[e][id].at # Gone
                      /\ \A k \in DOMAIN journal'[e] :
                           id \in journal'[e][k].ids => row'[e][id].st # "none"
    BY DEF PlaceInv
  <2>1. CASE e # d
    BY <1>1, <1>3, <1>4, <2>1 DEF PlaceInv
  <2>2. CASE e = d /\ id \in c.ids
    BY <1>4, <2>2
  <2>3. CASE e = d /\ id \notin c.ids
    <3>1. rows[id] = row[d][id]
      BY <2>3
    <3>2. ASSUME NEW k \in DOMAIN journal'[d], id \in journal'[d][k].ids
          PROVE  k \in DOMAIN journal[d] /\ id \in journal[d][k].ids
      BY <1>2, <1>3, <2>3, <3>2
    <3>3. QED
      BY <1>1, <1>4, <2>3, <3>1, <3>2 DEF PlaceInv
  <2>4. QED
    BY <2>1, <2>2, <2>3
<1>10. RowInv'
  <2> SUFFICES ASSUME NEW e \in Devices, NEW id \in Ids,
                      row'[e][id].st = "synced" \/ (id = Note /\ row'[e][id].st = "removed")
               PROVE  Covered(e, id)'
    BY DEF RowInv
  <2>1. CASE e # d
    <3>1. Covered(e, id)
      BY <1>1, <1>4, <2>1 DEF RowInv
    <3>2. QED
      BY <1>0, <1>3, <2>1, <3>1 DEF Covered, Pending
  <2>2. CASE e = d
    <3>1. id \notin c.ids
      BY <1>4, <2>2
    <3>2. Covered(d, id)
      BY <1>1, <1>4, <2>2, <3>1 DEF RowInv
    <3>3. ASSUME NEW k \in DOMAIN t, id \in t[k].ids
          PROVE  k \in DOMAIN s /\ id \in s[k].ids /\ t[k] = s[k]
      BY <1>2, <3>1, <3>3
    <3>4. Pending(d, id)' \subseteq Pending(d, id)
      BY <1>3, <3>3 DEF Pending
    <3>5. QED
      BY <1>0, <2>2, <3>2, <3>4 DEF Covered
  <2>3. QED
    BY <2>1, <2>2
<1>11. \A e \in Devices : RunInv(e)'
  <2> SUFFICES ASSUME NEW e \in Devices PROVE RunInv(e)'
    OBVIOUS
  <2>1. RunInv(e) /\ run'[e] = run[e] /\ tree' \in [Ids -> Entries]
    BY <1>0, <1>1 DEF IInv
  <2>2. /\ DOMAIN journal[e] \subseteq DOMAIN journal'[e] /\ Len(journal[e]) <= Len(journal'[e])
        /\ \A k \in DOMAIN journal[e] : journal'[e][k] = journal[e][k]
    <3>1. \A k \in DOMAIN journal[e] : journal'[e][k] = journal[e][k]
      BY <1>2, <1>3
    <3>2. QED
      BY <1>5, <3>1 DEF JournalGrows
  <2>3. /\ journal[e] \in Seq(Intents) /\ journal'[e] \in Seq(Intents)
        /\ \A j \in Waiting(e)' : j \in Waiting(e) \/ j > Len(journal[e])
    <3>1. journal[e] \in Seq(Intents) /\ journal'[e] \in Seq(Intents)
      BY <1>1, <1>3
    <3>2. \A j \in DOMAIN journal'[e] : j \in DOMAIN journal[e] \/ j > Len(journal[e])
      BY <3>1
    <3>3. QED
      BY <2>2, <3>1, <3>2 DEF Waiting
  <2>4. run[e].pc \in Acting =>
          /\ journal'[e][run[e].i] = journal[e][run[e].i]
          /\ \A n \in DOMAIN log' \ DOMAIN log : ~(log'[n].dev = e /\ log'[n].req = run[e].i)
    BY <1>0, <2>1, <2>2 DEF RunInv
  <2>5. QED
    BY <1>1, <1>6, <2>1, <2>2, <2>3, <2>4, RunKept
<1>12. (tomb # None => Named(tomb))'
  BY <1>0, <1>5 DEF IInv, Named, JournalGrows
<1>13. \A e \in Devices : cursor'[e] <= Len(log')
  BY <1>0 DEF IInv
<1>14. QED
  BY <1>6, <1>7, <1>8, <1>9, <1>10, <1>11, <1>12, <1>13 DEF IInv

-----------------------------------------------------------------------------
(* The user's changes.                                                     *)

(* An intent as a change writes it. *)
LEMMA IntentIs ==
  ASSUME NEW kind \in Kinds, NEW id \in Ids, NEW to \in Places, NEW ids \in SUBSET Ids,
         NEW of \in Nat
  PROVE  LET c == Intent(kind, id, to, ids, of) IN
         /\ c \in Intents /\ c.kind = kind /\ c.id = id /\ c.ids = ids
         /\ c.to = to /\ c.stage = "indexed"
BY DEF Intent, Intents, Records, Stages

(* The index with some entries marked, as a change of a whole folder does. *)
LEMMA MarkedIs ==
  ASSUME IInv, NEW d \in Devices, NEW ids \in SUBSET Ids, NEW st \in States
  PROVE  /\ row[d] \in [Ids -> Rows] /\ Marked(d, ids, st) \in [Ids -> Rows]
         /\ \A id \in ids : /\ Marked(d, ids, st)[id].st = st
                            /\ Marked(d, ids, st)[id].at = row[d][id].at
         /\ \A id \in Ids \ ids : Marked(d, ids, st)[id] = row[d][id]
<1>1. row[d] \in [Ids -> Rows]
  BY DEF IInv, Ranges
<1>2. \A id \in Ids : Known(row[d][id].at, st) \in Rows
  BY <1>1 DEF Rows, Known
<1>3. QED
  BY <1>1, <1>2 DEF Marked, Known

(* What is inside the folder on a device, and has a place there. *)
LEMMA InsideIs ==
  ASSUME IInv, NEW d \in Devices
  PROVE  /\ Inside(d) \in SUBSET Ids /\ Folder \in Inside(d)
         /\ Live(d, Folder) => \A id \in Inside(d) : row[d][id].at # Gone
         /\ \A id \in Ids : Live(d, id) => row[d][id].at # Gone
<1>1. \A id \in Ids : Live(d, id) => row[d][id].at # Gone
  BY DEF IInv, PlaceInv, Live
<1>2. QED
  BY <1>1, Two DEF Inside

(* Creating the folder (create). *)
LEMMA CreateFolderInv ==
  ASSUME IInv, NEW d \in Devices, CreateFolder(d)
  PROVE  IInv'
<1> DEFINE c == Intent("create", Folder, "a", {Folder}, 0)
           rows == [row[d] EXCEPT ![Folder] = Known("a", "pending")]
<1>1. /\ c \in Intents /\ c.kind = "create" /\ c.id = Folder /\ c.ids = {Folder}
      /\ c.stage = "indexed"
  BY Two, IntentIs DEF Kinds
<1>2. row[d] \in [Ids -> Rows] /\ Known("a", "pending") \in Rows
  BY Two DEF IInv, Ranges, Known, Rows, States
<1>3. rows \in [Ids -> Rows] /\ rows[Folder] = Known("a", "pending")
      /\ \A id \in Ids \ {Folder} : rows[id] = row[d][id]
  BY <1>2, Two
<1>4. Change(d, c, rows)
  BY DEF CreateFolder
<1>5. Shape(c) /\ "a" # Gone
  BY <1>1 DEF Shape, Gone
<1> HIDE DEF c, rows
<1>6. \A id \in c.ids : rows[id].st \in {"pending", "deleted"} /\ rows[id].at # Gone
  BY <1>1, <1>3, <1>5 DEF Known
<1>7. \A id \in Ids \ c.ids : rows[id] = row[d][id]
  BY <1>1, <1>3
<1>8. QED
  BY <1>1, <1>3, <1>4, <1>5, <1>6, <1>7, Changed

(* Renaming it, with what is inside (relocate). *)
LEMMA RenameInv ==
  ASSUME IInv, NEW d \in Devices, Rename(d)
  PROVE  IInv'
<1> DEFINE to == CHOOSE n \in {"a", "b"} : n # row[d][Folder].at
           c == Intent("place", Folder, to, Inside(d), 0)
           m == Marked(d, Inside(d), "pending")
           rows == [m EXCEPT ![Folder].at = to]
<1>1. to \in {"a", "b"} /\ to \in Places /\ to # Gone
  <2>1. \E n \in {"a", "b"} : n # row[d][Folder].at
    OBVIOUS
  <2>2. QED
    BY <2>1, Two
<1>2. Live(d, Folder) /\ Change(d, c, rows)
  BY DEF Rename, Here
<1> HIDE DEF to
<1>3. /\ Inside(d) \in SUBSET Ids /\ Folder \in Inside(d)
      /\ \A id \in Inside(d) : row[d][id].at # Gone
  BY <1>2, InsideIs
<1>4. /\ c \in Intents /\ c.kind = "place" /\ c.id = Folder /\ c.ids = Inside(d)
      /\ c.stage = "indexed"
  BY <1>1, <1>3, Two, IntentIs DEF Kinds
<1>5. /\ m \in [Ids -> Rows]
      /\ \A id \in Inside(d) : m[id].st = "pending" /\ m[id].at = row[d][id].at
      /\ \A id \in Ids \ Inside(d) : m[id] = row[d][id]
  BY <1>3, MarkedIs DEF States
<1> HIDE DEF m
<1>6. [m[Folder] EXCEPT !.at = to] \in Rows /\ [m[Folder] EXCEPT !.at = to].st = "pending"
      /\ [m[Folder] EXCEPT !.at = to].at = to
  <2>1. m[Folder] \in Rows /\ m[Folder].st = "pending"
    BY <1>3, <1>5
  <2>2. QED
    BY <1>1, <2>1, Two DEF Rows
<1>7. /\ rows \in [Ids -> Rows]
      /\ \A id \in Ids \ {Folder} : rows[id] = m[id]
      /\ rows[Folder].st = "pending" /\ rows[Folder].at = to
  <2>1. Folder \in Ids
    BY Two
  <2>2. rows = [m EXCEPT ![Folder] = [m[Folder] EXCEPT !.at = to]]
    OBVIOUS
  <2>3. QED
    <3> HIDE DEF rows
    <3> QED BY <1>5, <1>6, <2>1, <2>2
<1>8. Shape(c)
  BY <1>4 DEF Shape
<1> HIDE DEF c, rows
<1>9. \A id \in c.ids : rows[id].st \in {"pending", "deleted"} /\ rows[id].at # Gone
  BY <1>1, <1>3, <1>4, <1>5, <1>7
<1>10. \A id \in Ids \ c.ids : rows[id] = row[d][id]
  BY <1>3, <1>4, <1>5, <1>7
<1>11. QED
  BY <1>2, <1>4, <1>7, <1>8, <1>9, <1>10, Changed

(* Moving the note into the folder or out of it. *)
LEMMA MoveInv ==
  ASSUME IInv, NEW d \in Devices, Move(d)
  PROVE  IInv'
<1> DEFINE to == IF row[d][Note].at = "in" THEN "out" ELSE "in"
           c == Intent("place", Note, to, {Note}, 0)
           rows == [row[d] EXCEPT ![Note] = Known(to, "pending")]
<1>1. to \in Places /\ to # Gone
  BY Two
<1>2. Change(d, c, rows)
  BY DEF Move
<1> HIDE DEF to
<1>3. /\ c \in Intents /\ c.kind = "place" /\ c.id = Note /\ c.ids = {Note}
      /\ c.stage = "indexed"
  BY <1>1, Two, IntentIs DEF Kinds
<1>4. row[d] \in [Ids -> Rows] /\ Known(to, "pending") \in Rows
  BY <1>1, Two DEF IInv, Ranges, Known, Rows, States
<1>5. rows \in [Ids -> Rows] /\ rows[Note] = Known(to, "pending")
      /\ \A id \in Ids \ {Note} : rows[id] = row[d][id]
  BY <1>4, Two
<1>6. Shape(c)
  BY <1>3 DEF Shape
<1> HIDE DEF c, rows
<1>7. \A id \in c.ids : rows[id].st \in {"pending", "deleted"} /\ rows[id].at # Gone
  BY <1>1, <1>3, <1>5 DEF Known
<1>8. \A id \in Ids \ c.ids : rows[id] = row[d][id]
  BY <1>3, <1>5
<1>9. QED
  BY <1>2, <1>3, <1>5, <1>6, <1>7, <1>8, Changed

(* Saving the note. *)
LEMMA SaveInv ==
  ASSUME IInv, NEW d \in Devices, Save(d)
  PROVE  IInv'
<1> DEFINE c == Intent("save", Note, "in", {Note}, 0)
           rows == Marked(d, {Note}, "pending")
<1>1. Live(d, Note) /\ Change(d, c, rows)
  BY DEF Save, Here
<1>2. /\ c \in Intents /\ c.kind = "save" /\ c.id = Note /\ c.ids = {Note}
      /\ c.stage = "indexed"
  BY Two, IntentIs DEF Kinds
<1>3. /\ rows \in [Ids -> Rows]
      /\ \A id \in {Note} : rows[id].st = "pending" /\ rows[id].at = row[d][id].at
      /\ \A id \in Ids \ {Note} : rows[id] = row[d][id]
  <2>1. {Note} \in SUBSET Ids /\ "pending" \in States
    BY Two DEF States
  <2>2. QED
    BY <2>1, MarkedIs
<1>4. Shape(c)
  BY <1>2 DEF Shape
<1> HIDE DEF c, rows
<1>5. row[d][Note].at # Gone
  BY <1>1, InsideIs, Two
<1>6. QED
  BY <1>1, <1>2, <1>3, <1>4, <1>5, Changed

(* Deleting the folder, with what is inside (delete_local). *)
LEMMA DeleteInv ==
  ASSUME IInv, NEW d \in Devices, Delete(d)
  PROVE  IInv'
<1> DEFINE to == row[d][Folder].at
           c == Intent("delete", Folder, to, Inside(d), 0)
           rows == Marked(d, Inside(d), "deleted")
<1>1. Live(d, Folder) /\ Change(d, c, rows)
  BY DEF Delete, Here
<1>2. /\ Inside(d) \in SUBSET Ids /\ Folder \in Inside(d)
      /\ \A id \in Inside(d) : row[d][id].at # Gone
  BY <1>1, InsideIs
<1>3. to \in Places
  <2>1. row[d] \in [Ids -> Rows]
    BY DEF IInv, Ranges
  <2>2. row[d][Folder].at \in Ats
    BY <1>2, <2>1 DEF Rows
  <2>3. QED
    BY <1>2, <2>2 DEF Ats
<1> HIDE DEF to
<1>4. /\ c \in Intents /\ c.kind = "delete" /\ c.id = Folder /\ c.ids = Inside(d)
      /\ c.stage = "indexed"
  BY <1>2, <1>3, Two, IntentIs DEF Kinds
<1>5. /\ rows \in [Ids -> Rows]
      /\ \A id \in Inside(d) : rows[id].st = "deleted" /\ rows[id].at = row[d][id].at
      /\ \A id \in Ids \ Inside(d) : rows[id] = row[d][id]
  BY <1>2, MarkedIs DEF States
<1>6. Shape(c)
  BY <1>4 DEF Shape
<1> HIDE DEF c, rows
<1>7. QED
  BY <1>1, <1>2, <1>4, <1>5, <1>6, Changed

(* Undoing a deletion (restore_local). *)
LEMMA RestoreInv ==
  ASSUME IInv, NEW d \in Devices, Restore(d)
  PROVE  IInv'
<1>1. PICK k \in DOMAIN journal[d] :
        LET del == journal[d][k] IN
        Change(d, Intent("restore", Folder, del.to, del.ids, k),
               [id \in Ids |-> IF id \notin del.ids THEN row[d][id]
                               ELSE Known(IF id = Folder THEN del.to ELSE "in", "pending")])
  BY DEF Restore
<1> DEFINE del == journal[d][k]
           c == Intent("restore", Folder, del.to, del.ids, k)
           rows == [id \in Ids |-> IF id \notin del.ids THEN row[d][id]
                                   ELSE Known(IF id = Folder THEN del.to ELSE "in", "pending")]
<1>2. Change(d, c, rows)
  BY <1>1
<1>3. del.to \in Places /\ del.ids \in SUBSET Ids /\ k \in Nat
  <2>1. journal[d] \in Seq(Intents)
    BY DEF IInv, Ranges
  <2>2. del \in Intents /\ k \in Nat
    BY <2>1
  <2>3. QED
    BY <2>2 DEF Intents
<1> HIDE DEF del
<1>4. /\ c \in Intents /\ c.kind = "restore" /\ c.id = Folder /\ c.ids = del.ids
      /\ c.stage = "indexed"
  BY <1>3, Two, IntentIs DEF Kinds
<1>5. /\ rows \in [Ids -> Rows]
      /\ \A id \in del.ids : rows[id].st = "pending" /\ rows[id].at \in Places
      /\ \A id \in Ids \ del.ids : rows[id] = row[d][id]
  <2>1. row[d] \in [Ids -> Rows]
    BY DEF IInv, Ranges
  <2>2. \A p \in Places : Known(p, "pending") \in Rows /\ Known(p, "pending").st = "pending"
                          /\ Known(p, "pending").at = p
    BY Two DEF Rows, Known, States
  <2>3. \A id \in Ids : (IF id = Folder THEN del.to ELSE "in") \in Places
    BY <1>3, Two
  <2>4. QED
    BY <1>3, <2>1, <2>2, <2>3
<1>6. Shape(c)
  BY <1>4 DEF Shape
<1> HIDE DEF c, rows
<1>7. \A id \in c.ids : rows[id].st \in {"pending", "deleted"} /\ rows[id].at # Gone
  BY <1>4, <1>5, Two
<1>8. QED
  BY <1>2, <1>4, <1>5, <1>6, <1>7, Changed

-----------------------------------------------------------------------------
(* Where a run is.                                                         *)

(* The intent a run is at. *)
LEMMA AtIntent ==
  ASSUME IInv, NEW d \in Devices
  PROVE  /\ run[d] \in Runs /\ RunInv(d) /\ journal[d] \in Seq(Intents)
         /\ Len(journal[d]) \in Nat /\ DOMAIN journal[d] = 1 .. Len(journal[d])
         /\ run[d].pc \in Acting =>
              /\ run[d].i \in DOMAIN journal[d] /\ run[d].i \in Nat \ {0}
              /\ Current(d) = journal[d][run[d].i] /\ Current(d) \in Intents
              /\ Current(d).stage = "indexed" /\ Current(d).kind # "save"
              /\ Shape(Current(d))
<1>1. run[d] \in Runs /\ RunInv(d) /\ journal[d] \in Seq(Intents) /\ JournalInv
  BY DEF IInv, Ranges
<1>2. Len(journal[d]) \in Nat /\ DOMAIN journal[d] = 1 .. Len(journal[d])
  BY <1>1
<1>3. ASSUME run[d].pc \in Acting
      PROVE  /\ run[d].i \in DOMAIN journal[d]
             /\ Current(d).stage = "indexed" /\ Current(d).kind # "save"
  BY <1>1, <1>3 DEF RunInv, Current
<1>4. ASSUME run[d].i \in DOMAIN journal[d]
      PROVE  /\ run[d].i \in Nat \ {0} /\ Current(d) = journal[d][run[d].i]
             /\ Current(d) \in Intents /\ Shape(Current(d))
  BY <1>1, <1>2, <1>4 DEF Current, JournalInv
<1>5. QED
  BY <1>1, <1>2, <1>3, <1>4

(* An error, a stop or the end of the poll puts a run to rest. *)
LEMMA RestIs ==
  ASSUME NEW d \in Devices, run'[d] = Rest, journal'[d] \in Seq(Intents)
  PROVE  Rest \in Runs /\ RunInv(d)'
<1>1. Rest = [pc |-> "rest", i |-> 0, upto |-> 0, seen |-> 0, left |-> <<>>]
      /\ <<>> \in Seq(Ids) /\ Len(journal'[d]) \in Nat
  BY DEF Rest
<1>2. Rest \in Runs
  BY <1>1 DEF Runs, Points
<1>3. Rest.pc = "rest" /\ Rest.i = 0 /\ Rest.upto = 0
  BY <1>1
<1>4. QED
  BY <1>1, <1>2, <1>3 DEF RunInv, Acting

(* A step to a point where only the intent counts. *)
LEMMA PlainRun ==
  ASSUME NEW d \in Devices, RunInv(d), run[d].pc \in Acting,
         run'[d].i = run[d].i, run'[d].upto = run[d].upto,
         run'[d].pc \in {"attempt", "retire", "mark"},
         DOMAIN journal'[d] = DOMAIN journal[d], Len(journal'[d]) = Len(journal[d]),
         journal'[d][run[d].i].stage = journal[d][run[d].i].stage,
         journal'[d][run[d].i].kind = journal[d][run[d].i].kind,
         Waiting(d)' = Waiting(d)
  PROVE  RunInv(d)'
BY DEF RunInv, Acting, Points

(* The first step of the next intent, or the uploads. *)
LEMMA NextRun ==
  ASSUME NEW d \in Devices, journal[d] \in Seq(Intents), NEW W \in SUBSET DOMAIN journal[d],
         NEW n \in Nat, n <= Len(journal[d]), run'[d] = NextOf(d, W, n),
         DOMAIN journal'[d] = DOMAIN journal[d], Len(journal'[d]) = Len(journal[d]),
         \A i \in W : /\ journal'[d][i].stage = "indexed" /\ journal[d][i].kind # "save"
                      /\ journal'[d][i].kind = journal[d][i].kind,
         Waiting(d)' = W
  PROVE  NextOf(d, W, n) \in Runs /\ RunInv(d)'
<1> DEFINE r == NextOf(d, W, n)
<1>2. /\ Len(journal[d]) \in Nat /\ DOMAIN journal[d] = 1 .. Len(journal[d])
      /\ journal[d] \in Seq(Intents) /\ W \in SUBSET DOMAIN journal[d]
      /\ n \in Nat /\ n <= Len(journal[d])
  OBVIOUS
<1>1. /\ r \in Runs /\ r.upto = n
      /\ \/ r.pc = "upload" /\ \A j \in W : n < j
         \/ /\ r.i \in W /\ r.pc = First(journal[d][r.i].kind)
            /\ \A j \in W : r.i <= j
  BY ONLY <1>2, NextOfIs
<1> HIDE DEF r
<1>3. run'[d] = r
  BY DEF r
<1>4. CASE r.pc = "upload" /\ \A j \in W : n < j
  BY <1>1, <1>2, <1>3, <1>4 DEF RunInv, Acting, r
<1>5. CASE /\ r.i \in W /\ r.pc = First(journal[d][r.i].kind)
           /\ \A j \in W : r.i <= j
  <2>1. /\ r.i \in DOMAIN journal'[d] /\ r.i <= Len(journal'[d])
        /\ journal'[d][r.i].stage = "indexed" /\ journal'[d][r.i].kind # "save"
    BY <1>2, <1>5
  <2>2. /\ r.pc \in {"record", "observe", "attempt"}
        /\ r.pc = "record" => journal'[d][r.i].kind = "delete"
    BY <1>5 DEF First
  <2>3. QED
    BY <1>1, <1>3, <1>5, <2>1, <2>2 DEF RunInv, r
<1>6. QED
  BY <1>1, <1>4, <1>5 DEF r

(* Another step of the same run: its record stays in range. *)
LEMMA GotoIs ==
  ASSUME NEW d \in Devices, run \in [Devices -> Runs], NEW pc \in Points, Goto(d, pc)
  PROVE  LET r == [run[d] EXCEPT !.pc = pc] IN
         /\ r \in Runs /\ run' = [run EXCEPT ![d] = r] /\ run'[d] = r
         /\ r.pc = pc /\ r.i = run[d].i /\ r.upto = run[d].upto
BY DEF Goto, Runs

(* The next entry of the projection, or the step after it. *)
LEMMA DoneIs ==
  ASSUME IInv, NEW d \in Devices, run[d].pc \in {"check", "put"}
  PROVE  /\ Done(d) \in Runs /\ Done(d).i = run[d].i /\ Done(d).upto = run[d].upto
         /\ Done(d).pc \in {"check", "retire", "mark"}
         /\ Target(d) = run[d].left[1] /\ Target(d) \in Ids
         /\ Done(d).pc = "check" =>
              /\ Done(d).left # <<>>
              /\ Current(d).kind # "restore" =>
                   \A k \in DOMAIN Done(d).left : Done(d).left[k] = Current(d).id
         /\ Current(d).kind # "restore" => Target(d) = Current(d).id
<1> DEFINE s == run[d].left
           pc == IF Len(s) > 1 THEN "check"
                 ELSE IF Current(d).kind = "restore" THEN "retire" ELSE "mark"
<1>1. run[d] \in Runs /\ s \in Seq(Ids) /\ s # <<>>
      /\ (Current(d).kind # "restore" => \A k \in DOMAIN s : s[k] = Current(d).id)
  <2>1. run[d] \in Runs /\ RunInv(d)
    BY AtIntent
  <2>2. QED
    BY <2>1 DEF Runs, RunInv, Current
<1>2. /\ s[1] \in Ids /\ Head(s) = s[1] /\ Len(s) \in Nat /\ Len(s) >= 1
      /\ Tail(s) \in Seq(Ids) /\ Len(Tail(s)) = Len(s) - 1
      /\ \A k \in DOMAIN Tail(s) : k + 1 \in DOMAIN s /\ Tail(s)[k] = s[k + 1]
      /\ Len(s) > 1 => Tail(s) # <<>>
  BY <1>1, SeqTail
<1>3. 1 \in DOMAIN s
  BY <1>1, <1>2
<1>4. Done(d) = [run[d] EXCEPT !.left = Tail(s), !.pc = pc]
  BY DEF Done
<1>5. pc \in {"check", "retire", "mark"} /\ pc \in Points /\ (pc = "check" => Len(s) > 1)
  BY DEF Points
<1> HIDE DEF pc
<1>6. /\ Done(d) \in Runs /\ Done(d).i = run[d].i /\ Done(d).upto = run[d].upto
      /\ Done(d).pc = pc /\ Done(d).left = Tail(s)
  <2> HIDE DEF s
  <2> QED BY <1>1, <1>2, <1>4, <1>5 DEF Runs
<1>7. Target(d) = s[1]
  BY <1>2 DEF Target
<1>8. QED
  <2>1. Current(d).kind # "restore" => \A k \in DOMAIN Tail(s) : Tail(s)[k] = Current(d).id
    BY <1>1, <1>2
  <2>2. Current(d).kind # "restore" => s[1] = Current(d).id
    BY <1>1, <1>3
  <2> HIDE DEF s
  <2>3. QED
    BY <1>2, <1>5, <1>6, <1>7, <2>1, <2>2 DEF s

(* A run goes on to the next entry when nothing but its place, and the tree, *)
(* has changed.                                                              *)
LEMMA DoneRun ==
  ASSUME IInv, NEW d \in Devices, run[d].pc \in {"check", "put"}, run'[d] = Done(d),
         log' = log, journal' = journal
  PROVE  RunInv(d)'
<1> DEFINE r == Done(d)
<1>1. /\ r.i = run[d].i /\ r.upto = run[d].upto /\ r.pc \in {"check", "retire", "mark"}
      /\ r.pc = "check" =>
           /\ r.left # <<>>
           /\ Current(d).kind # "restore" => \A k \in DOMAIN r.left : r.left[k] = Current(d).id
  BY DoneIs
<1>2. RunInv(d) /\ run[d].pc \in Acting /\ OwnOp(d, run[d].i) # {}
  <2>1. RunInv(d) /\ run[d].pc \in Acting
    BY AtIntent DEF Acting, Points
  <2>2. QED
    BY <2>1 DEF RunInv
<1>3. OwnOp(d, run[d].i)' = OwnOp(d, run'[d].i)
  BY DEF OwnOp
<1> HIDE DEF r
<1>4. run'[d] = r
  BY DEF r
<1>5. OwnOp(d, run'[d].i) # {} /\ Waiting(d)' = Waiting(d)
  BY <1>1, <1>2, <1>4, WaitingSame
<1>6. QED
  BY <1>1, <1>2, <1>3, <1>4, <1>5 DEF RunInv, Current

(* The operation a run has committed for its intent. *)
LEMMA OwnIs ==
  ASSUME IInv, NEW d \in Devices, run[d].pc \in {"check", "put", "drop"}
  PROVE  LET n == CHOOSE n \in OwnOp(d, run[d].i) : TRUE IN
         /\ n \in OwnOp(d, run[d].i) /\ n \in DOMAIN log /\ n \in Nat \ {0}
         /\ \A m \in OwnOp(d, run[d].i) : m = n
         /\ log[n].id = Current(d).id /\ log[n].kind = Current(d).kind
<1> DEFINE n == CHOOSE n \in OwnOp(d, run[d].i) : TRUE
<1>1. /\ run[d].i \in Nat \ {0} /\ Current(d) = journal[d][run[d].i]
      /\ Current(d).kind # "save" /\ RunInv(d)
  BY AtIntent DEF Acting, Points
<1>2. n \in OwnOp(d, run[d].i)
  BY <1>1 DEF RunInv
<1> HIDE DEF n
<1>3. n \in DOMAIN log /\ log[n].dev = d /\ log[n].req = run[d].i
  BY <1>2 DEF OwnOp
<1>4. CarriesOut(n) /\ log \in Seq(Ops)
  BY <1>1, <1>3 DEF IInv, LogInv, Ranges
<1>5. \A m \in OwnOp(d, run[d].i) : m = n
  BY <1>3, <1>4 DEF CarriesOut, OwnOp
<1>6. log[n].id = Current(d).id /\ log[n].kind = Current(d).kind
  BY <1>1, <1>3, <1>4 DEF CarriesOut, KindOf
<1>7. n \in Nat \ {0}
  BY <1>3, <1>4
<1>8. QED
  BY <1>2, <1>3, <1>5, <1>6, <1>7 DEF n

-----------------------------------------------------------------------------
(* The replay.                                                             *)

(* The intents a cycle begins with are those that wait (project_intents). *)
LEMMA BeginInv ==
  ASSUME IInv, NEW d \in Devices, Begin(d)
  PROVE  IInv'
<1> DEFINE W == Waiting(d)
           n == Len(journal[d])
           r == NextOf(d, W, n)
<1>1. /\ run' = [run EXCEPT ![d] = r] /\ Shown /\ journal' = journal
      /\ log' = log /\ tree' = tree /\ tomb' = tomb /\ expiry' = expiry
      /\ row' = row /\ cursor' = cursor /\ mishaps' = mishaps
  BY DEF Begin, bucket, Local, Safe, history, Shown
<1>2. journal[d] \in Seq(Intents) /\ n \in Nat /\ run \in [Devices -> Runs]
  BY AtIntent DEF IInv, Ranges
<1>3. /\ W \in SUBSET DOMAIN journal[d]
      /\ \A i \in W : journal[d][i].stage = "indexed" /\ journal[d][i].kind # "save"
      /\ Waiting(d)' = W
  BY <1>1, WaitingSame DEF Waiting
<1> HIDE DEF W
<1>4. r \in Runs /\ RunInv(d)'
  <2>1. run'[d] = r
    BY <1>1, <1>2
  <2> HIDE DEF n
  <2>2. n <= Len(journal[d])
    BY <1>2 DEF n
  <2>3. QED
    BY <1>1, <1>2, <1>3, <2>1, <2>2, NextRun
<1> HIDE DEF r
<1>5. /\ tomb' \in Records /\ (tomb' # None => Named(tomb'))
      /\ mishaps' \subseteq Mishaps /\ IsFiniteSet(mishaps')
      /\ Cardinality(mishaps') <= MaxMishaps
  BY <1>1 DEF IInv, Ranges
<1>6. QED
  BY <1>1, <1>4, <1>5, RunOnly

(* A deletion is recorded before it is committed (write_tombstone). *)
LEMMA RecordInv ==
  ASSUME IInv, NEW d \in Devices, Record(d)
  PROVE  IInv'
<1> DEFINE me == [dev |-> d, req |-> run[d].i,
                  details |-> <<Current(d).to, Current(d).ids>>]
<1>1. /\ log' = log /\ tree' = tree /\ expiry' = expiry /\ journal' = journal
      /\ row' = row /\ cursor' = cursor /\ mishaps' = mishaps /\ Shown
      /\ run[d].pc = "record" /\ tomb' \in {tomb, me}
      /\ Goto(d, "attempt") \/ Fails(d)
  BY DEF Record, Local, Shows, Shown, Working
<1>2. /\ run[d] \in Runs /\ RunInv(d) /\ run[d].pc \in Acting
      /\ run[d].i \in DOMAIN journal[d] /\ run[d].i \in Nat
      /\ Current(d) \in Intents /\ journal[d] \in Seq(Intents)
  BY <1>1, AtIntent DEF Acting, Points
<1>3. me \in Records /\ Named(me)
  BY <1>2 DEF Intents, Records, Named
<1>4. tomb' \in Records /\ (tomb' # None => Named(tomb'))
  <2> HIDE DEF me
  <2> QED BY <1>1, <1>3 DEF IInv, Ranges
<1>5. run \in [Devices -> Runs]
  BY DEF IInv, Ranges
<1>6. PICK r \in Runs : run' = [run EXCEPT ![d] = r] /\ RunInv(d)'
  <2>1. CASE Goto(d, "attempt")
    <3>1. "attempt" \in Points
      BY DEF Points
    <3>2. LET r == [run[d] EXCEPT !.pc = "attempt"] IN
          /\ r \in Runs /\ run' = [run EXCEPT ![d] = r] /\ run'[d] = r
          /\ r.pc = "attempt" /\ r.i = run[d].i /\ r.upto = run[d].upto
      BY <1>5, <2>1, <3>1, GotoIs
    <3>3. RunInv(d)'
      BY <1>1, <1>2, <3>2, PlainRun, WaitingSame
    <3>4. QED
      BY <3>2, <3>3
  <2>2. CASE Fails(d)
    <3>1. run' = [run EXCEPT ![d] = Rest] /\ run'[d] = Rest
      BY <1>5, <2>2 DEF Fails
    <3>2. QED
      BY <1>1, <1>2, <3>1, RestIs
  <2>3. QED
    BY <1>1, <2>1, <2>2
<1>7. /\ mishaps' \subseteq Mishaps /\ IsFiniteSet(mishaps')
      /\ Cardinality(mishaps') <= MaxMishaps
  BY <1>1 DEF IInv, Ranges
<1>8. QED
  BY <1>1, <1>4, <1>6, <1>7, RunOnly

(* What a restore observes goes into its intent (observe_deletion). *)
LEMMA ObserveInv ==
  ASSUME IInv, NEW d \in Devices, Observe(d)
  PROVE  IInv'
<1> DEFINE b == IF Current(d).seen = None /\ ~Current(d).acked
                THEN [Current(d) EXCEPT !.seen = tomb] ELSE Current(d)
<1>1. /\ log' = log /\ tree' = tree /\ expiry' = expiry /\ tomb' = tomb
      /\ row' = row /\ cursor' = cursor /\ mishaps' = mishaps /\ Shown
      /\ run[d].pc = "observe" /\ Goto(d, "attempt")
      /\ journal' = [journal EXCEPT ![d][run[d].i] = b]
  BY DEF Observe, Local, Shows, Shown, Working, bucket, Update
<1>2. /\ run[d] \in Runs /\ RunInv(d) /\ run[d].pc \in Acting
      /\ run[d].i \in DOMAIN journal[d] /\ run[d].i \in Nat
      /\ Current(d) \in Intents /\ journal[d] \in Seq(Intents)
      /\ Current(d) = journal[d][run[d].i]
  BY <1>1, AtIntent DEF Acting, Points
<1>3. /\ run \in [Devices -> Runs] /\ journal \in [Devices -> Seq(Intents)]
      /\ tomb \in Records
  BY DEF IInv, Ranges
<1>4. /\ b \in Intents /\ b.id = Current(d).id /\ b.kind = Current(d).kind
      /\ b.ids = Current(d).ids /\ b.stage = Current(d).stage
  BY <1>2, <1>3 DEF Intents
<1> HIDE DEF b
<1>5. /\ DOMAIN journal'[d] = DOMAIN journal[d] /\ Len(journal'[d]) = Len(journal[d])
      /\ journal'[d][run[d].i] = b /\ Waiting(d)' = Waiting(d)
  BY <1>1, <1>2, <1>4, NotedIs
<1> DEFINE r == [run[d] EXCEPT !.pc = "attempt"]
<1>6. /\ r \in Runs /\ run' = [run EXCEPT ![d] = r] /\ run'[d] = r
      /\ r.pc = "attempt" /\ r.i = run[d].i /\ r.upto = run[d].upto
  <2>1. "attempt" \in Points
    BY DEF Points
  <2>2. QED
    BY <1>1, <1>3, <2>1, GotoIs
<1> HIDE DEF r
<1>7. RunInv(d)'
  BY <1>2, <1>4, <1>5, <1>6, PlainRun
<1>8. QED
  BY <1>1, <1>2, <1>4, <1>6, <1>7, NoteOnIntent

(* An operation has been committed: the projection begins. *)
LEMMA CommittedIs ==
  ASSUME IInv, NEW d \in Devices, run[d].pc \in Acting, Committed(d)
  PROVE  \E r \in Runs : /\ run' = [run EXCEPT ![d] = r] /\ run'[d] = r
                         /\ r.pc = "check" /\ r.i = run[d].i /\ r.upto = run[d].upto
                         /\ r.left # <<>>
                         /\ Current(d).kind # "restore" =>
                              \A k \in DOMAIN r.left : r.left[k] = Current(d).id
<1> DEFINE p == Projected(d)
           r == [run[d] EXCEPT !.pc = "check", !.left = p]
<1>1. /\ p \in Seq(Ids) /\ p # <<>>
      /\ Current(d).kind # "restore" => \A k \in DOMAIN p : p[k] = Current(d).id
  BY AtIntent, ProjectedIs
<1>2. run' = [run EXCEPT ![d] = r] /\ run[d] \in Runs /\ run \in [Devices -> Runs]
  BY AtIntent DEF Committed, IInv, Ranges
<1> HIDE DEF p
<1>3. /\ r \in Runs /\ r.pc = "check" /\ r.i = run[d].i /\ r.upto = run[d].upto
      /\ r.left = p
  BY <1>1, <1>2 DEF Runs, Points
<1> HIDE DEF r
<1>4. run'[d] = r
  BY <1>2
<1>5. QED
  BY <1>1, <1>2, <1>3, <1>4

(* The projection's invariant, when its operation is there. *)
LEMMA CheckRun ==
  ASSUME NEW d \in Devices, RunInv(d), run[d].pc \in Acting,
         run'[d].pc = "check", run'[d].i = run[d].i, run'[d].upto = run[d].upto,
         run'[d].left # <<>>,
         Current(d).kind # "restore" =>
           \A k \in DOMAIN run'[d].left : run'[d].left[k] = Current(d).id,
         DOMAIN journal'[d] = DOMAIN journal[d], Len(journal'[d]) = Len(journal[d]),
         journal'[d][run[d].i].stage = journal[d][run[d].i].stage,
         journal'[d][run[d].i].kind = journal[d][run[d].i].kind,
         journal'[d][run[d].i].id = journal[d][run[d].i].id,
         Waiting(d)' = Waiting(d), OwnOp(d, run[d].i)' # {}
  PROVE  RunInv(d)'
BY DEF RunInv, Acting, Points, Current

(* A run that gives its intent up, or has nothing to commit. *)
LEMMA LeavesIntent ==
  ASSUME NEW d \in Devices, RunInv(d), run[d].pc \in Acting, run \in [Devices -> Runs],
         journal \in [Devices -> Seq(Intents)], journal' = journal,
         Fails(d) \/ Goto(d, "mark")
  PROVE  \E r \in Runs : run' = [run EXCEPT ![d] = r] /\ RunInv(d)'
<1>1. CASE Fails(d)
  <2>1. run' = [run EXCEPT ![d] = Rest] /\ run'[d] = Rest /\ journal'[d] \in Seq(Intents)
    BY <1>1 DEF Fails
  <2>2. QED
    BY <2>1, RestIs
<1>2. CASE Goto(d, "mark")
  <2>1. "mark" \in Points
    BY DEF Points
  <2>2. LET r == [run[d] EXCEPT !.pc = "mark"] IN
        /\ r \in Runs /\ run' = [run EXCEPT ![d] = r] /\ run'[d] = r
        /\ r.pc = "mark" /\ r.i = run[d].i /\ r.upto = run[d].upto
    BY <1>2, <2>1, GotoIs
  <2>3. RunInv(d)'
    BY <2>2, PlainRun, WaitingSame
  <2>4. QED
    BY <2>2, <2>3
<1>3. QED
  BY <1>1, <1>2

(* A mishap is one more of those that may happen. *)
LEMMA HappensIs ==
  ASSUME IInv, NEW mishap, Happens(mishap)
  PROVE  /\ mishaps' \subseteq Mishaps /\ IsFiniteSet(mishaps')
         /\ Cardinality(mishaps') <= MaxMishaps
<1>1. /\ mishap \in Mishaps \ mishaps /\ Cardinality(mishaps) < MaxMishaps
      /\ mishaps' = mishaps \cup {mishap}
  BY DEF Happens
<1>2. mishaps \subseteq Mishaps /\ IsFiniteSet(mishaps)
  BY DEF IInv, Ranges
<1>3. IsFiniteSet(mishaps') /\ Cardinality(mishaps') = Cardinality(mishaps) + 1
  BY <1>1, <1>2, FS_AddElement
<1>4. Cardinality(mishaps) \in Nat
  BY <1>2, FS_CardinalityType
<1>5. QED
  BY <1>1, <1>2, <1>3, <1>4, BoundsAssumption

(* A folder that is published on the way is synced, and hides its changes    *)
(* (ensure_remote_folder).                                                   *)
LEMMA NowSynced ==
  ASSUME IInv, NEW d \in Devices, Live(d, Folder), journal' = journal,
         row' = [row EXCEPT ![d][Folder].st = "synced"],
         Hides(d, Folder, Pending(d, Folder))
  PROVE  RowInv' /\ PlaceInv' /\ Shown /\ row' \in [Devices -> [Ids -> Rows]]
<1>1. /\ row \in [Devices -> [Ids -> Rows]] /\ journal[d] \in Seq(Intents)
      /\ RowInv /\ PlaceInv
      /\ Folder \in Ids
  BY Two DEF IInv, Ranges
<1> DEFINE f == [row[d][Folder] EXCEPT !.st = "synced"]
<1>2. f \in Rows /\ f.st = "synced" /\ f.at = row[d][Folder].at /\ f.at # Gone
  <2>1. row[d][Folder] \in Rows
    BY <1>1
  <2>2. row[d][Folder].at # Gone
    BY <1>1 DEF PlaceInv, Live
  <2>3. QED
    BY <2>1, <2>2 DEF Rows, States
<1>3. row' = [row EXCEPT ![d] = [row[d] EXCEPT ![Folder] = f]]
  OBVIOUS
<1> HIDE DEF f
<1>4. /\ row' \in [Devices -> [Ids -> Rows]] /\ row'[d][Folder] = f
      /\ \A e \in Devices, id \in Ids : e # d \/ id # Folder => row'[e][id] = row[e][id]
  BY <1>1, <1>2, <1>3
<1>5. Shown /\ \A i \in Pending(d, Folder) : <<d, i, Folder>> \in hidden'
  BY <1>1, HidesIs, PendingIs
<1>6. PlaceInv'
  BY <1>1, <1>2, <1>4 DEF PlaceInv
<1>7. \A e \in Devices, id \in Ids : Pending(e, id)' = Pending(e, id)
  BY DEF Pending
<1>8. RowInv'
  <2> SUFFICES ASSUME NEW e \in Devices, NEW id \in Ids,
                      row'[e][id].st = "synced" \/ (id = Note /\ row'[e][id].st = "removed")
               PROVE  Covered(e, id)'
    BY DEF RowInv
  <2>1. CASE e = d /\ id = Folder
    BY <1>5, <1>7, <2>1 DEF Covered
  <2>2. CASE e # d \/ id # Folder
    <3>1. Covered(e, id)
      BY <1>1, <1>4, <2>2 DEF RowInv
    <3>2. QED
      BY <1>5, <1>7, <3>1 DEF Covered, Shown
  <2>3. QED
    BY <2>1, <2>2
<1>9. QED
  BY <1>4, <1>5, <1>6, <1>8

(* An attempt: what an earlier one did is found, the folder of a moved note  *)
(* is created again, or the receipt is written (prior_commit, save_receipt). *)
LEMMA AttemptInv ==
  ASSUME IInv, NEW d \in Devices, Attempt(d)
  PROVE  IInv'
<1> DEFINE c == Current(d)
           at == row[d][Folder].at
           op == Op(Folder, "create", at, d, 0)
<1>1. /\ tomb' = tomb /\ expiry' = expiry /\ cursor' = cursor /\ mishaps' = mishaps
      /\ run[d].pc = "attempt"
  BY DEF Attempt, Working
<1>2. /\ run[d] \in Runs /\ RunInv(d) /\ run[d].pc \in Acting
      /\ run[d].i \in DOMAIN journal[d] /\ run[d].i \in Nat /\ Len(journal[d]) \in Nat
      /\ c \in Intents /\ journal[d] \in Seq(Intents)
      /\ c = journal[d][run[d].i] /\ c.stage = "indexed" /\ c.kind # "save"
  BY <1>1, AtIntent DEF Acting, Points
<1>3. /\ run \in [Devices -> Runs] /\ journal \in [Devices -> Seq(Intents)]
      /\ tree \in [Ids -> Entries] /\ log \in Seq(Ops) /\ Len(log) \in Nat
      /\ row[d] \in [Ids -> Rows] /\ TreeInv /\ LogInv /\ JournalInv /\ RowInv /\ PlaceInv
      /\ cursor \in [Devices -> Nat]
  BY DEF IInv, Ranges
<1>4. /\ tomb' \in Records /\ (journal' = journal => (tomb' # None => Named(tomb')))
      /\ mishaps' \subseteq Mishaps /\ IsFiniteSet(mishaps')
      /\ Cardinality(mishaps') <= MaxMishaps
  BY <1>1 DEF IInv, Ranges
<1>5. \/ /\ Live(d, Folder) /\ log' = Append(log, op)
         /\ tree' = Written(Folder, at, Len(log) + 1) /\ run' = run /\ journal' = journal
         /\ row' = [row EXCEPT ![d][Folder].st = "synced"]
         /\ Hides(d, Folder, Pending(d, Folder))
      \/ /\ log' = log /\ tree' = tree /\ row' = row /\ Shown /\ journal' = journal
         /\ Fails(d) \/ Goto(d, "mark")
      \/ /\ log' = log /\ tree' = tree /\ row' = row /\ Shown
         /\ Committed(d) /\ OwnOp(d, run[d].i) # {} /\ Update(d, [c EXCEPT !.acked = TRUE])
      \/ /\ log' = log /\ tree' = tree /\ row' = row /\ Shown /\ OwnOp(d, run[d].i) = {}
         /\ Update(d, [c EXCEPT !.base = IF @ < 0 THEN Len(log) ELSE @])
         /\ run' = [run EXCEPT ![d].pc = "commit", ![d].seen = Len(log)]
  BY DEF Attempt, Shown
<1>6. CASE /\ Live(d, Folder) /\ log' = Append(log, op)
           /\ tree' = Written(Folder, at, Len(log) + 1) /\ run' = run /\ journal' = journal
           /\ row' = [row EXCEPT ![d][Folder].st = "synced"]
           /\ Hides(d, Folder, Pending(d, Folder))
  <2>1. at \in Places /\ Folder \in Ids /\ Note \in Ids /\ Note # Folder
    <3>1. at # Gone /\ at \in Ats
      BY <1>3, <1>6, InsideIs, Two DEF Rows
    <3>2. QED
      BY <3>1, Two DEF Ats
  <2>2. op \in Ops /\ op.req = 0 /\ op.id = Folder /\ op.dev = d
    BY <2>1 DEF Op, Ops, OpKinds
  <2> HIDE DEF op
  <2>3. /\ log' \in Seq(Ops) /\ DOMAIN log' = 1 .. Len(log) + 1 /\ DOMAIN log = 1 .. Len(log)
        /\ log'[Len(log) + 1] = op /\ Len(log') = Len(log) + 1
    BY <1>3, <1>6, <2>2, SeqAdd
  <2>4. LogGrows /\ JournalGrows /\ JournalKept
    <3>1. \A e \in Devices : Len(journal[e]) \in Nat
      BY <1>3
    <3>2. QED
      BY <1>6, <2>2, <3>1 DEF LogGrows, JournalGrows, JournalKept
  <2>5. /\ tree' \in [Ids -> Entries]
        /\ tree'[Folder].op = Len(log) + 1 /\ tree'[Folder].ver > tree[Folder].ver
        /\ \A id \in Ids \ {Folder} : tree'[id] = tree[id]
    <3>1. tree' = [tree EXCEPT ![Folder] = [at |-> at, ver |-> tree[Folder].ver + 1,
                                            op |-> Len(log) + 1]]
      BY <1>6 DEF Written
    <3>2. tree[Folder].ver \in Nat
      BY <1>3, <2>1 DEF Entries
    <3>3. [at |-> at, ver |-> tree[Folder].ver + 1, op |-> Len(log) + 1] \in Entries
      BY <1>3, <2>1, <3>2, Two DEF Entries
    <3>4. QED
      BY <1>3, <2>1, <3>1, <3>2, <3>3
  <2>6. TreeInv' /\ TreeMoves
    <3> DEFINE S == {Folder}
               n == Len(log) + 1
    <3>1. S \in SUBSET Ids /\ n \in DOMAIN log'
      BY <1>3, <2>1, <2>3
    <3>2. \A id \in Ids \ S : tree'[id] = tree[id]
      BY <2>5
    <3>3. \A id \in S :
            /\ tree'[id].op = n /\ tree'[id].ver > tree[id].ver
            /\ \/ log'[n].id = id
               \/ id = Note /\ log'[n].id = Folder /\ log'[n].kind \in {"delete", "restore"}
            /\ id = Note /\ tree'[id].at = Gone => log'[n].id = Folder
      BY <2>1, <2>2, <2>3, <2>5
    <3> HIDE DEF S, n
    <3>4. QED
      BY <1>3, <2>4, <2>5, <3>1, <3>2, <3>3, TreeMore
  <2>7. LogInv'
    BY <1>3, <1>6, <2>2, <2>4, LogMore
  <2>8. /\ JournalInv' /\ RowInv' /\ PlaceInv' /\ Shown
        /\ row' \in [Devices -> [Ids -> Rows]]
    BY <1>3, <1>6, <2>4, ShapeKept, NowSynced
  <2>9. Ranges'
    BY <1>1, <1>6, <2>3, <2>5, <2>8 DEF IInv, Ranges, Shown
  <2>10. \A e \in Devices : RunInv(e)'
    <3> SUFFICES ASSUME NEW e \in Devices PROVE RunInv(e)'
      OBVIOUS
    <3>1. /\ RunInv(e) /\ run'[e] = run[e] /\ journal'[e] = journal[e]
          /\ Len(journal[e]) \in Nat
      BY <1>3, <1>6 DEF IInv
    <3>2. run[e].pc \in Acting => run[e].i \in Nat \ {0}
      BY AtIntent
    <3>3. run[e].pc \in Acting =>
            \A n \in DOMAIN log' \ DOMAIN log : ~(log'[n].dev = e /\ log'[n].req = run[e].i)
      BY <2>2, <2>3, <3>2
    <3>4. /\ DOMAIN journal[e] \subseteq DOMAIN journal'[e]
          /\ Len(journal[e]) <= Len(journal'[e])
          /\ journal[e] \in Seq(Intents) /\ journal'[e] \in Seq(Intents)
          /\ \A j \in Waiting(e)' : j \in Waiting(e) \/ j > Len(journal[e])
      BY <1>3, <3>1 DEF Waiting
    <3>5. QED
      BY <1>3, <2>4, <2>5, <2>6, <3>1, <3>3, <3>4, RunKept
  <2>11. \A e \in Devices : cursor'[e] <= Len(log')
    BY <1>1, <1>3, <2>3 DEF IInv
  <2>12. (tomb # None => Named(tomb))'
    BY <1>1, <1>6 DEF IInv, Named
  <2>13. QED
    BY <2>6, <2>7, <2>8, <2>9, <2>10, <2>11, <2>12 DEF IInv
<1>7. CASE /\ log' = log /\ tree' = tree /\ row' = row /\ Shown /\ journal' = journal
           /\ Fails(d) \/ Goto(d, "mark")
  <2>1. PICK r \in Runs : run' = [run EXCEPT ![d] = r] /\ RunInv(d)'
    BY <1>1, <1>2, <1>3, <1>7, LeavesIntent
  <2>2. QED
    BY <1>1, <1>4, <1>7, <2>1, RunOnly
<1>8. CASE /\ log' = log /\ tree' = tree /\ row' = row /\ Shown
           /\ Committed(d) /\ OwnOp(d, run[d].i) # {} /\ Update(d, [c EXCEPT !.acked = TRUE])
  <2>1. PICK r \in Runs :
          /\ run' = [run EXCEPT ![d] = r] /\ run'[d] = r
          /\ r.pc = "check" /\ r.i = run[d].i /\ r.upto = run[d].upto
          /\ r.left # <<>>
          /\ Current(d).kind # "restore" =>
               \A k \in DOMAIN r.left : r.left[k] = Current(d).id
    BY <1>2, <1>8, CommittedIs
  <2>2. OwnOp(d, run[d].i)' # {}
    BY <1>8, <2>1 DEF OwnOp
  <2> DEFINE b == [c EXCEPT !.acked = TRUE]
  <2>3. /\ b \in Intents /\ b.id = c.id /\ b.kind = c.kind
        /\ b.ids = c.ids /\ b.stage = c.stage
    BY <1>2 DEF Intents
  <2>4. journal' = [journal EXCEPT ![d][run[d].i] = b]
    BY <1>8 DEF Update
  <2> HIDE DEF b
  <2>5. /\ DOMAIN journal'[d] = DOMAIN journal[d] /\ Len(journal'[d]) = Len(journal[d])
        /\ journal'[d][run[d].i] = b /\ Waiting(d)' = Waiting(d)
    BY <1>2, <2>3, <2>4, NotedIs
  <2>6. RunInv(d)'
    <3> HIDE DEF c
    <3>1. /\ journal'[d][run[d].i].stage = journal[d][run[d].i].stage
          /\ journal'[d][run[d].i].kind = journal[d][run[d].i].kind
          /\ journal'[d][run[d].i].id = journal[d][run[d].i].id
      BY <1>2, <2>3, <2>5
    <3>2. QED
      BY <1>2, <2>1, <2>2, <2>5, <3>1, CheckRun
  <2>7. QED
    BY <1>1, <1>2, <1>8, <2>1, <2>3, <2>4, <2>6, NoteOnIntent
<1>9. CASE /\ log' = log /\ tree' = tree /\ row' = row /\ Shown /\ OwnOp(d, run[d].i) = {}
           /\ Update(d, [c EXCEPT !.base = IF @ < 0 THEN Len(log) ELSE @])
           /\ run' = [run EXCEPT ![d].pc = "commit", ![d].seen = Len(log)]
  <2> DEFINE b == [c EXCEPT !.base = IF @ < 0 THEN Len(log) ELSE @]
             r == [run[d] EXCEPT !.pc = "commit", !.seen = Len(log)]
  <2>1. /\ b \in Intents /\ b.id = c.id /\ b.kind = c.kind
        /\ b.ids = c.ids /\ b.stage = c.stage
    <3> DEFINE base == IF c.base < 0 THEN Len(log) ELSE c.base
    <3>1. base \in Int
      BY <1>2, <1>3 DEF Intents
    <3>2. b = [c EXCEPT !.base = base]
      OBVIOUS
    <3> HIDE DEF base, b, c
    <3>3. QED
      BY <1>2, <3>1, <3>2 DEF Intents
  <2>2. /\ r \in Runs /\ r.pc = "commit" /\ r.i = run[d].i /\ r.upto = run[d].upto
    BY <1>2, <1>3 DEF Runs, Points
  <2>3. run' = [run EXCEPT ![d] = r] /\ run'[d] = r
    BY <1>3, <1>9
  <2>4. journal' = [journal EXCEPT ![d][run[d].i] = b]
    BY <1>9 DEF Update
  <2> HIDE DEF b, c, r
  <2>5. /\ DOMAIN journal'[d] = DOMAIN journal[d] /\ Len(journal'[d]) = Len(journal[d])
        /\ journal'[d][run[d].i] = b /\ Waiting(d)' = Waiting(d)
    BY <1>2, <2>1, <2>4, NotedIs DEF c
  <2>6. OwnOp(d, run[d].i)' = {}
    BY <1>9, <2>2, <2>3 DEF OwnOp
  <2>7. RunInv(d)'
    BY <1>2, <2>1, <2>2, <2>3, <2>5, <2>6 DEF RunInv
  <2>8. QED
    BY <1>1, <1>2, <1>9, <2>1, <2>2, <2>3, <2>4, <2>7, NoteOnIntent DEF c
<1>10. QED
  BY <1>5, <1>6, <1>7, <1>8, <1>9

(* The head is written: the operation is new, since an attempt looked for    *)
(* one of the intent and nobody else carries it out (commit_head).           *)
LEMMA HeadWrittenInv ==
  ASSUME IInv, NEW d \in Devices, run[d].pc = "commit", HeadWritten(d),
         journal' \in [Devices -> Seq(Intents)], JournalKept,
         \A e \in Devices \ {d} : journal'[e] = journal[e],
         NEW r \in Runs, run' = [run EXCEPT ![d] = r], RunInv(d)',
         mishaps' \subseteq Mishaps, IsFiniteSet(mishaps'),
         Cardinality(mishaps') <= MaxMishaps
  PROVE  IInv'
<1> DEFINE c == Current(d)
           op == Op(c.id, c.kind, c.to, d, run[d].i)
<1>1. /\ tree' = tree /\ tomb' = tomb /\ expiry' = expiry /\ row' = row
      /\ cursor' = cursor /\ Shown /\ log' = Append(log, op)
  BY DEF HeadWritten, Shows, Shown
<1>2. /\ run[d].i \in DOMAIN journal[d] /\ run[d].i \in Nat \ {0}
      /\ c \in Intents /\ c = journal[d][run[d].i] /\ c.kind # "save"
      /\ OwnOp(d, run[d].i) = {}
  <2>1. run[d].pc \in Acting
    BY DEF Acting, Points
  <2>2. OwnOp(d, run[d].i) = {}
    BY AtIntent DEF RunInv
  <2>3. QED
    BY <2>1, <2>2, AtIntent
<1>3. /\ run \in [Devices -> Runs] /\ journal \in [Devices -> Seq(Intents)]
      /\ tree \in [Ids -> Entries] /\ log \in Seq(Ops) /\ Len(log) \in Nat
      /\ TreeInv /\ LogInv /\ JournalInv /\ RowInv /\ PlaceInv
      /\ cursor \in [Devices -> Nat]
  BY DEF IInv, Ranges
<1>4. /\ op \in Ops /\ op.dev = d /\ op.req = run[d].i /\ op.id = c.id /\ op.kind = c.kind
  BY <1>2 DEF Op, Ops, OpKinds, Intents, Kinds
<1> HIDE DEF op
<1>5. /\ log' \in Seq(Ops) /\ DOMAIN log' = 1 .. Len(log) + 1 /\ DOMAIN log = 1 .. Len(log)
      /\ log'[Len(log) + 1] = op /\ Len(log') = Len(log) + 1
  BY <1>1, <1>3, <1>4, SeqAdd
<1>6. LogGrows /\ JournalGrows
  BY <1>1, <1>4 DEF LogGrows, JournalKept
<1>7. TreeInv' /\ TreeMoves /\ JournalInv' /\ RowInv' /\ PlaceInv'
  BY <1>1, <1>3, <1>6, TreeSame, ShapeKept, RowSame
<1>8. LogInv'
  <2>1. /\ op.dev \in Devices /\ op.req \in DOMAIN journal'[op.dev]
        /\ journal'[op.dev][op.req].id = c.id /\ journal'[op.dev][op.req].kind = c.kind
    BY <1>2, <1>4, <1>6 DEF JournalGrows
  <2> HIDE DEF c
  <2>2. /\ op.id = journal'[op.dev][op.req].id
        /\ op.kind = KindOf(journal'[op.dev][op.req])
        /\ journal'[op.dev][op.req].kind = "save"
             => journal'[op.dev][op.req].stage = "committed"
        /\ OwnOp(op.dev, op.req) = {}
    BY <1>2, <1>4, <2>1 DEF KindOf
  <2>3. QED
    BY <1>1, <1>3, <1>4, <1>6, <2>1, <2>2, LogMore
<1>9. Ranges'
  BY <1>1, <1>3, <1>5 DEF IInv, Ranges, Shown
<1>10. \A e \in Devices : RunInv(e)'
  <2>1. tree' \in [Ids -> Entries] /\ \A e \in Devices \ {d} : run'[e] = run[e]
    BY <1>1, <1>3
  <2>2. \A n \in DOMAIN log' \ DOMAIN log : log'[n].dev = d
    BY <1>3, <1>4, <1>5
  <2>3. \A e \in Devices \ {d} : RunInv(e)'
    BY <1>6, <1>7, <2>1, <2>2, OtherRuns
  <2>4. QED
    BY <2>3
<1>11. \A e \in Devices : cursor'[e] <= Len(log')
  BY <1>1, <1>3, <1>5 DEF IInv
<1>12. (tomb # None => Named(tomb))'
  BY <1>1, <1>6 DEF IInv, Named, JournalGrows
<1>13. QED
  BY <1>7, <1>8, <1>9, <1>10, <1>11, <1>12 DEF IInv

(* The commit, with its receipt, or one whose reply was lost (commit_head). *)
LEMMA CommitInv ==
  ASSUME IInv, NEW d \in Devices, Commit(d) \/ CommitUnseen(d)
  PROVE  IInv'
<1> DEFINE c == Current(d)
<1>1. run[d].pc = "commit"
  BY DEF Commit, CommitUnseen, Working
<1>2. /\ run[d] \in Runs /\ RunInv(d) /\ run[d].pc \in Acting
      /\ run[d].i \in DOMAIN journal[d] /\ run[d].i \in Nat \ {0} /\ Len(journal[d]) \in Nat
      /\ c \in Intents /\ journal[d] \in Seq(Intents)
      /\ c = journal[d][run[d].i]
  BY <1>1, AtIntent DEF Acting, Points
<1>3. /\ run \in [Devices -> Runs] /\ journal \in [Devices -> Seq(Intents)]
      /\ log \in Seq(Ops) /\ Len(log) \in Nat
  BY DEF IInv, Ranges
<1>4. \/ /\ log' = log /\ tree' = tree /\ tomb' = tomb /\ expiry' = expiry /\ journal' = journal
         /\ row' = row /\ cursor' = cursor /\ mishaps' = mishaps /\ Shown
         /\ Fails(d) \/ Goto(d, "mark")
      \/ /\ HeadWritten(d) /\ Committed(d) /\ Update(d, [c EXCEPT !.acked = TRUE])
         /\ mishaps' = mishaps
      \/ HeadWritten(d) /\ Fails(d) /\ journal' = journal /\ Happens("stop")
  BY DEF Commit, CommitUnseen, bucket, Shows, Shown
<1>5. CASE /\ log' = log /\ tree' = tree /\ tomb' = tomb /\ expiry' = expiry /\ journal' = journal
           /\ row' = row /\ cursor' = cursor /\ mishaps' = mishaps /\ Shown
           /\ Fails(d) \/ Goto(d, "mark")
  <2>1. PICK r \in Runs : run' = [run EXCEPT ![d] = r] /\ RunInv(d)'
    BY <1>1, <1>2, <1>3, <1>5, LeavesIntent
  <2>2. /\ tomb' \in Records /\ (tomb' # None => Named(tomb'))
        /\ mishaps' \subseteq Mishaps /\ IsFiniteSet(mishaps')
        /\ Cardinality(mishaps') <= MaxMishaps
    BY <1>5 DEF IInv, Ranges
  <2>3. QED
    BY <1>5, <2>1, <2>2, RunOnly
<1>6. CASE /\ HeadWritten(d) /\ Committed(d) /\ Update(d, [c EXCEPT !.acked = TRUE])
           /\ mishaps' = mishaps
  <2>1. PICK r \in Runs :
          /\ run' = [run EXCEPT ![d] = r] /\ run'[d] = r
          /\ r.pc = "check" /\ r.i = run[d].i /\ r.upto = run[d].upto
          /\ r.left # <<>>
          /\ Current(d).kind # "restore" =>
               \A k \in DOMAIN r.left : r.left[k] = Current(d).id
    BY <1>2, <1>6, CommittedIs
  <2> DEFINE b == [c EXCEPT !.acked = TRUE]
  <2>2. /\ b \in Intents /\ b.id = c.id /\ b.kind = c.kind
        /\ b.ids = c.ids /\ b.stage = c.stage
    BY <1>2 DEF Intents
  <2>3. journal' = [journal EXCEPT ![d][run[d].i] = b]
    BY <1>6 DEF Update
  <2> HIDE DEF b
  <2>4. /\ journal' \in [Devices -> Seq(Intents)] /\ JournalKept
        /\ \A e \in Devices \ {d} : journal'[e] = journal[e]
        /\ DOMAIN journal'[d] = DOMAIN journal[d] /\ Len(journal'[d]) = Len(journal[d])
        /\ journal'[d][run[d].i] = b /\ Waiting(d)' = Waiting(d)
    BY <1>2, <2>2, <2>3, NotedIs
  <2>5. OwnOp(d, run[d].i)' # {}
    <3>1. /\ log' = Append(log, Op(c.id, c.kind, c.to, d, run[d].i))
      BY <1>6 DEF HeadWritten
    <3>2. /\ Len(log) + 1 \in DOMAIN log' /\ log'[Len(log) + 1] = Op(c.id, c.kind, c.to, d, run[d].i)
      BY <1>3, <3>1
    <3>3. Len(log) + 1 \in OwnOp(d, run[d].i)'
      BY <2>1, <3>2 DEF OwnOp, Op
    <3>4. QED
      BY <3>3
  <2>6. RunInv(d)'
    <3> HIDE DEF c
    <3>1. /\ journal'[d][run[d].i].stage = journal[d][run[d].i].stage
          /\ journal'[d][run[d].i].kind = journal[d][run[d].i].kind
          /\ journal'[d][run[d].i].id = journal[d][run[d].i].id
      BY <1>2, <2>2, <2>4
    <3>2. QED
      BY <1>2, <2>1, <2>4, <2>5, <3>1, CheckRun
  <2>7. /\ mishaps' \subseteq Mishaps /\ IsFiniteSet(mishaps')
        /\ Cardinality(mishaps') <= MaxMishaps
    BY <1>6 DEF IInv, Ranges
  <2>8. QED
    BY <1>1, <1>6, <2>1, <2>4, <2>6, <2>7, HeadWrittenInv
<1>7. CASE HeadWritten(d) /\ Fails(d) /\ journal' = journal /\ Happens("stop")
  <2>1. run' = [run EXCEPT ![d] = Rest] /\ run'[d] = Rest
    BY <1>3, <1>7 DEF Fails
  <2>2. journal' \in [Devices -> Seq(Intents)] /\ JournalKept
    <3>1. \A e \in Devices : Len(journal[e]) \in Nat
      BY <1>3
    <3>2. QED
      BY <1>3, <1>7, <3>1 DEF JournalKept, JournalGrows
  <2>3. Rest \in Runs /\ RunInv(d)'
    BY <2>1, <2>2, RestIs
  <2>4. /\ mishaps' \subseteq Mishaps /\ IsFiniteSet(mishaps')
        /\ Cardinality(mishaps') <= MaxMishaps
    BY <1>7, HappensIs
  <2>5. QED
    BY <1>1, <1>7, <2>1, <2>2, <2>3, <2>4, HeadWrittenInv
<1>8. QED
  BY <1>4, <1>5, <1>6, <1>7

(* An entry that no newer operation on the target overtook is no newer than  *)
(* the run's own operation, or is the note's, written by a later one of the  *)
(* folder (project).                                                         *)
LEMMA ReadIsNotNewer ==
  ASSUME IInv, NEW d \in Devices, run[d].pc = "check", ~Superseded(d, run[d].i), ~Filled(d),
         NEW n \in OwnOp(d, run[d].i)
  PROVE  NotOlder(Target(d), n)
<1> DEFINE c == Current(d)
           t == Target(d)
           o == tree[t].op
<1>1. /\ c = journal[d][run[d].i] /\ c \in Intents /\ Shape(c)
      /\ t \in Ids /\ (c.kind # "restore" => t = c.id)
  <2>1. run[d].pc \in Acting
    BY DEF Acting, Points
  <2>2. QED
    BY <2>1, AtIntent, DoneIs
<1>2. n \in DOMAIN log /\ n \in Nat /\ log[n].id = c.id
  BY OwnIs
<1>3. \A m \in OnTarget(c.id) : m <= n
  <2>1. \A m \in OnTarget(c.id) : ~(m > n)
    BY <1>1 DEF Superseded
  <2>2. log \in Seq(Ops) /\ \A m \in OnTarget(c.id) : m \in Nat
    BY DEF OnTarget, IInv, Ranges
  <2>3. QED
    BY <1>2, <2>1, <2>2
<1>4. /\ WrittenBy(t, o) /\ log \in Seq(Ops) /\ \A m \in DOMAIN log : m \in Nat
      /\ tree[Note].at = Gone => tree[Note].op = 0 \/ log[tree[Note].op].id = Folder
  BY <1>1 DEF IInv, TreeInv, Ranges
<1>5. c.id \in Ids
  BY <1>1 DEF Intents
<1> HIDE DEF c, t
<1>6. CASE o = 0
  BY <1>2, <1>6 DEF NotOlder, t
<1>7. CASE o \in DOMAIN log /\ log[o].id = c.id
  <2>1. o \in OnTarget(c.id)
    BY <1>7 DEF OnTarget
  <2>2. QED
    BY <1>3, <2>1 DEF NotOlder, t
<1>8. CASE o \in DOMAIN log /\ log[o].id # c.id
  <2>1. CASE t = c.id
    BY <1>8, <2>1 DEF NotOlder, t
  <2>2. CASE t # c.id
    <3>1. c.kind = "restore" /\ c.id = Folder /\ t = Note
      BY <1>1, <1>5, <2>2, Two DEF Shape
    <3>2. tree[Note].at = Gone
      BY <2>2, <3>1 DEF Filled, c, t
    <3>3. o = tree[Note].op
      BY <3>1
    <3>4. o # 0
      BY <1>4, <1>8
    <3>5. QED
      BY <1>4, <1>8, <3>1, <3>2, <3>3, <3>4
  <2>3. QED
    BY <2>1, <2>2
<1>9. QED
  BY <1>4, <1>6, <1>7, <1>8 DEF WrittenBy

(* Newer operations are looked for, and the entry's version is read. *)
LEMMA CheckNewerInv ==
  ASSUME IInv, NEW d \in Devices, CheckNewer(d)
  PROVE  IInv'
<1>1. /\ tree' = tree /\ tomb' = tomb /\ expiry' = expiry /\ journal' = journal /\ log' = log
      /\ row' = row /\ cursor' = cursor /\ mishaps' = mishaps /\ Shown
      /\ run[d].pc = "check"
  BY DEF CheckNewer, Local, Shows, Shown, Working, bucket
<1>2. /\ run[d] \in Runs /\ RunInv(d) /\ run[d].pc \in Acting
      /\ Current(d) = journal[d][run[d].i]
      /\ run \in [Devices -> Runs] /\ tree \in [Ids -> Entries]
  <2>1. run[d].pc \in Acting
    BY <1>1 DEF Acting, Points
  <2>2. QED
    BY <2>1, AtIntent DEF IInv, Ranges
<1>3. Target(d) = run[d].left[1] /\ Target(d) \in Ids
  BY <1>1, DoneIs
<1> DEFINE drop == [run[d] EXCEPT !.pc = "drop"]
           put == [run[d] EXCEPT !.pc = "put", !.seen = tree[Target(d)].ver]
<1>4. \/ run' = [run EXCEPT ![d] = Done(d)]
      \/ run' = [run EXCEPT ![d] = drop] /\ Current(d).kind = "delete"
      \/ run' = [run EXCEPT ![d] = put] /\ ~Superseded(d, run[d].i) /\ ~Filled(d)
  BY DEF CheckNewer
<1>5. PICK r \in Runs : run' = [run EXCEPT ![d] = r] /\ RunInv(d)'
  <2>1. CASE run' = [run EXCEPT ![d] = Done(d)]
    <3>1. Done(d) \in Runs /\ run'[d] = Done(d)
      BY <1>1, <1>2, <2>1, DoneIs
    <3>2. QED
      BY <1>1, <2>1, <3>1, DoneRun
  <2>2. CASE run' = [run EXCEPT ![d] = drop] /\ Current(d).kind = "delete"
    <3>1. /\ drop \in Runs /\ drop.pc = "drop" /\ drop.i = run[d].i /\ drop.upto = run[d].upto
      BY <1>2 DEF Runs, Points
    <3> HIDE DEF drop
    <3>2. run'[d] = drop
      BY <1>2, <2>2
    <3>3. OwnOp(d, run[d].i)' = OwnOp(d, run[d].i)
      BY <1>1, <3>1, <3>2 DEF OwnOp
    <3>4. RunInv(d)'
      BY <1>1, <1>2, <2>2, <3>1, <3>2, <3>3, WaitingSame DEF RunInv
    <3>5. QED
      BY <2>2, <3>1, <3>4
  <2>3. CASE run' = [run EXCEPT ![d] = put] /\ ~Superseded(d, run[d].i) /\ ~Filled(d)
    <3>1. tree[Target(d)].ver \in Nat
      BY <1>2, <1>3 DEF Entries
    <3>2. PICK p \in Runs : p = put
      BY <1>2, <3>1 DEF Runs, Points
    <3>3. /\ p.pc = "put" /\ p.i = run[d].i /\ p.upto = run[d].upto
          /\ p.left = run[d].left /\ p.seen = tree[Target(d)].ver
      BY <1>2, <3>2 DEF Runs
    <3>4. run' = [run EXCEPT ![d] = p] /\ run'[d] = p
      BY <1>2, <2>3, <3>2
    <3> HIDE DEF put
    <3>5. OwnOp(d, run[d].i)' = OwnOp(d, run[d].i)
      BY <1>1, <3>3, <3>4 DEF OwnOp
    <3>6. \A n \in OwnOp(d, run[d].i) : NotOlder(p.left[1], n)'
      <4>1. \A n \in OwnOp(d, run[d].i) : NotOlder(p.left[1], n)
        BY <1>1, <1>3, <2>3, <3>3, ReadIsNotNewer
      <4>2. QED
        BY <1>1, <4>1 DEF NotOlder
    <3>7. tree'[p.left[1]].ver = p.seen /\ p.seen \in Nat
      BY <1>1, <1>3, <3>1, <3>3
    <3>8. /\ run[d].left # <<>> /\ OwnOp(d, run[d].i) # {}
          /\ Current(d).kind # "restore" =>
               \A k \in DOMAIN run[d].left : run[d].left[k] = Current(d).id
      BY <1>1, <1>2 DEF RunInv
    <3>9. RunInv(d)'
      <4>1. p.upto <= Len(journal'[d]) /\ \A j \in Waiting(d)' : p.i <= j
        BY <1>1, <1>2, <3>3, WaitingSame DEF RunInv
      <4>2. /\ p.i \in DOMAIN journal'[d] /\ journal'[d][p.i].stage = "indexed"
            /\ journal'[d][p.i].kind # "save" /\ journal'[d][p.i] = Current(d)
        BY <1>1, <1>2, <3>3 DEF RunInv
      <4>3. QED
        BY <3>3, <3>4, <3>5, <3>6, <3>7, <3>8, <4>1, <4>2 DEF RunInv
    <3>10. QED
      BY <3>4, <3>9
  <2>4. QED
    BY <1>4, <2>1, <2>2, <2>3
<1>6. /\ tomb' \in Records /\ (tomb' # None => Named(tomb'))
      /\ mishaps' \subseteq Mishaps /\ IsFiniteSet(mishaps')
      /\ Cardinality(mishaps') <= MaxMishaps
  BY <1>1 DEF IInv, Ranges
<1>7. QED
  BY <1>1, <1>5, <1>6, RunOnly

(* A step that writes entries of the tree, with the operation of the run's   *)
(* own intent.                                                               *)
LEMMA Projects ==
  ASSUME IInv, NEW d \in Devices, NEW r \in Runs, run' = [run EXCEPT ![d] = r], RunInv(d)',
         log' = log, tomb' = tomb, expiry' = expiry, journal' = journal, row' = row,
         cursor' = cursor, mishaps' = mishaps, Shown,
         tree' \in [Ids -> Entries], NEW S \in SUBSET Ids, NEW n \in DOMAIN log,
         \A id \in Ids \ S : tree'[id] = tree[id],
         \A id \in S :
           /\ tree'[id].op = n /\ tree'[id].ver > tree[id].ver
           /\ \/ log[n].id = id
              \/ id = Note /\ log[n].id = Folder /\ log[n].kind \in {"delete", "restore"}
           /\ id = Note /\ tree'[id].at = Gone => log[n].id = Folder
  PROVE  IInv'
<1>1. /\ log \in Seq(Ops) /\ TreeInv /\ LogInv /\ JournalInv /\ RowInv /\ PlaceInv
      /\ run \in [Devices -> Runs] /\ tree \in [Ids -> Entries]
      /\ journal \in [Devices -> Seq(Intents)] /\ n \in DOMAIN log'
  BY DEF IInv, Ranges
<1>2. JournalKept /\ JournalGrows /\ LogGrows
  <2>1. \A e \in Devices : Len(journal[e]) \in Nat
    BY <1>1
  <2>2. QED
    BY <2>1 DEF JournalKept, JournalGrows, LogGrows
<1>3. TreeInv' /\ TreeMoves
  <2>1. \A id \in S :
           /\ tree'[id].op = n /\ tree'[id].ver > tree[id].ver
           /\ \/ log'[n].id = id
              \/ id = Note /\ log'[n].id = Folder /\ log'[n].kind \in {"delete", "restore"}
           /\ id = Note /\ tree'[id].at = Gone => log'[n].id = Folder
    OBVIOUS
  <2>2. QED
    BY <1>1, <1>2, <2>1, TreeMore
<1>4. LogInv' /\ JournalInv' /\ RowInv' /\ PlaceInv'
  BY <1>1, <1>2, LogSame, ShapeKept, RowSame
<1>5. Ranges'
  BY <1>1 DEF IInv, Ranges, Shown
<1>6. \A e \in Devices : RunInv(e)'
  <2>1. /\ journal' \in [Devices -> Seq(Intents)]
        /\ \A e \in Devices \ {d} : run'[e] = run[e] /\ journal'[e] = journal[e]
    BY <1>1
  <2>2. \A e \in Devices \ {d} : RunInv(e)'
    BY <1>2, <1>3, <2>1, OtherRuns
  <2>3. QED
    BY <2>2
<1>7. (tomb # None => Named(tomb))' /\ \A e \in Devices : cursor'[e] <= Len(log')
  BY DEF IInv, Named
<1>8. QED
  BY <1>3, <1>4, <1>5, <1>6, <1>7 DEF IInv

(* The conditional write of an entry. *)
LEMMA PutEntryInv ==
  ASSUME IInv, NEW d \in Devices, PutEntry(d)
  PROVE  IInv'
<1> DEFINE n == CHOOSE n \in OwnOp(d, run[d].i) : TRUE
           id == Target(d)
           at == IF id = Current(d).id THEN Current(d).to ELSE "in"
<1>1. /\ log' = log /\ tomb' = tomb /\ expiry' = expiry /\ journal' = journal
      /\ row' = row /\ cursor' = cursor /\ mishaps' = mishaps /\ Shown
      /\ run[d].pc = "put"
      /\ \/ tree' = Written(id, at, n) /\ run' = [run EXCEPT ![d] = Done(d)]
         \/ tree' = tree /\ Goto(d, "check")
  BY DEF PutEntry, Local, Shows, Shown, Working
<1>2. /\ run[d] \in Runs /\ RunInv(d) /\ run[d].pc \in Acting
      /\ Current(d) = journal[d][run[d].i] /\ Current(d) \in Intents /\ Shape(Current(d))
      /\ run \in [Devices -> Runs] /\ tree \in [Ids -> Entries]
      /\ log \in Seq(Ops)
  <2>1. run[d].pc \in Acting
    BY <1>1 DEF Acting, Points
  <2>2. QED
    BY <2>1, AtIntent DEF IInv, Ranges
<1>3. id \in Ids /\ (Current(d).kind # "restore" => id = Current(d).id)
  BY <1>1, DoneIs
<1>4. /\ n \in OwnOp(d, run[d].i) /\ n \in DOMAIN log /\ n \in Nat
      /\ log[n].id = Current(d).id /\ log[n].kind = Current(d).kind
  BY <1>1, OwnIs
<1>5. at \in Places
  BY <1>2, Two DEF Intents
<1> HIDE DEF n, id, at
<1>6. CASE tree' = Written(id, at, n) /\ run' = [run EXCEPT ![d] = Done(d)]
  <2>1. /\ Done(d) \in Runs /\ run'[d] = Done(d) /\ RunInv(d)'
    <3>1. Done(d) \in Runs /\ run'[d] = Done(d)
      BY <1>1, <1>2, <1>6, DoneIs
    <3>2. QED
      BY <1>1, <3>1, DoneRun
  <2>2. /\ tree' \in [Ids -> Entries]
        /\ tree'[id].op = n /\ tree'[id].ver > tree[id].ver /\ tree'[id].at = at
        /\ \A j \in Ids \ {id} : tree'[j] = tree[j]
    <3>1. tree' = [tree EXCEPT ![id] = [at |-> at, ver |-> tree[id].ver + 1, op |-> n]]
      BY <1>6 DEF Written
    <3>2. tree[id].ver \in Nat
      BY <1>2, <1>3 DEF Entries
    <3>3. [at |-> at, ver |-> tree[id].ver + 1, op |-> n] \in Entries
      BY <1>4, <1>5, <3>2, Two DEF Entries
    <3>4. QED
      BY <1>2, <1>3, <3>1, <3>2, <3>3
  <2>3. \/ log[n].id = id
        \/ id = Note /\ log[n].id = Folder /\ log[n].kind \in {"delete", "restore"}
    <3>1. Current(d).id \in Ids
      BY <1>2 DEF Intents
    <3>2. QED
      BY <1>2, <1>3, <1>4, <3>1, Two DEF Shape
  <2> DEFINE S == {id}
  <2>4. /\ S \in SUBSET Ids
        /\ \A j \in Ids \ S : tree'[j] = tree[j]
        /\ \A j \in S :
             /\ tree'[j].op = n /\ tree'[j].ver > tree[j].ver
             /\ \/ log[n].id = j
                \/ j = Note /\ log[n].id = Folder /\ log[n].kind \in {"delete", "restore"}
             /\ j = Note /\ tree'[j].at = Gone => log[n].id = Folder
    BY <1>3, <1>5, <2>2, <2>3, Two
  <2> HIDE DEF S
  <2>5. QED
    BY <1>1, <1>4, <1>6, <2>1, <2>2, <2>4, Projects
<1>7. CASE tree' = tree /\ Goto(d, "check")
  <2> DEFINE r == [run[d] EXCEPT !.pc = "check"]
  <2>1. /\ r \in Runs /\ run' = [run EXCEPT ![d] = r] /\ run'[d] = r
        /\ r.pc = "check" /\ r.i = run[d].i /\ r.upto = run[d].upto /\ r.left = run[d].left
    <3>1. "check" \in Points
      BY DEF Points
    <3>2. QED
      BY <1>2, <1>7, <3>1, GotoIs
  <2> HIDE DEF r
  <2>2. OwnOp(d, run[d].i)' = OwnOp(d, run[d].i)
    BY <1>1, <2>1 DEF OwnOp
  <2>3. /\ run[d].left # <<>> /\ OwnOp(d, run[d].i) # {}
        /\ Current(d).kind # "restore" =>
             \A k \in DOMAIN run[d].left : run[d].left[k] = Current(d).id
    BY <1>1, <1>2 DEF RunInv
  <2>4. RunInv(d)'
    BY <1>1, <1>2, <2>1, <2>2, <2>3, CheckRun, WaitingSame
  <2>5. /\ tomb' \in Records /\ (tomb' # None => Named(tomb'))
        /\ mishaps' \subseteq Mishaps /\ IsFiniteSet(mishaps')
        /\ Cardinality(mishaps') <= MaxMishaps
    BY <1>1 DEF IInv, Ranges
  <2>6. QED
    BY <1>1, <1>7, <2>1, <2>4, <2>5, RunOnly
<1>8. QED
  BY <1>1, <1>6, <1>7

(* The entries a deletion drops. *)
LEMMA DropEntriesInv ==
  ASSUME IInv, NEW d \in Devices, DropEntries(d)
  PROVE  IInv'
<1> DEFINE n == CHOOSE n \in OwnOp(d, run[d].i) : TRUE
           ids == Current(d).ids
<1>1. /\ log' = log /\ tomb' = tomb /\ expiry' = expiry /\ journal' = journal
      /\ row' = row /\ cursor' = cursor /\ mishaps' = mishaps /\ Shown
      /\ run[d].pc = "drop" /\ Goto(d, "mark")
      /\ tree' = [id \in Ids |-> IF id \in ids
                                 THEN [at |-> Gone, ver |-> tree[id].ver + 1, op |-> n]
                                 ELSE tree[id]]
  BY DEF DropEntries, Local, Shows, Shown, Working
<1>2. /\ run[d] \in Runs /\ RunInv(d) /\ run[d].pc \in Acting
      /\ Current(d) = journal[d][run[d].i] /\ Current(d) \in Intents /\ Shape(Current(d))
      /\ run \in [Devices -> Runs] /\ tree \in [Ids -> Entries]
  <2>1. run[d].pc \in Acting
    BY <1>1 DEF Acting, Points
  <2>2. QED
    BY <2>1, AtIntent DEF IInv, Ranges
<1>3. /\ n \in OwnOp(d, run[d].i) /\ n \in DOMAIN log /\ n \in Nat
      /\ log[n].id = Current(d).id /\ log[n].kind = Current(d).kind
  BY <1>1, OwnIs
<1>4. Current(d).kind = "delete" /\ Current(d).id = Folder /\ ids \in SUBSET Ids
  <2>1. Current(d).kind = "delete"
    BY <1>1, <1>2 DEF RunInv
  <2>2. QED
    BY <1>2, <2>1 DEF Shape, Intents
<1> HIDE DEF n, ids
<1> DEFINE r == [run[d] EXCEPT !.pc = "mark"]
<1>5. /\ r \in Runs /\ run' = [run EXCEPT ![d] = r] /\ run'[d] = r
      /\ r.pc = "mark" /\ r.i = run[d].i /\ r.upto = run[d].upto
  <2>1. "mark" \in Points
    BY DEF Points
  <2>2. QED
    BY <1>1, <1>2, <2>1, GotoIs
<1> HIDE DEF r
<1>6. RunInv(d)'
  BY <1>1, <1>2, <1>5, PlainRun, WaitingSame
<1>7. tree' \in [Ids -> Entries]
  <2>1. \A id \in Ids : [at |-> Gone, ver |-> tree[id].ver + 1, op |-> n] \in Entries
    BY <1>2, <1>3, Two DEF Entries
  <2>2. QED
    BY <1>1, <1>2, <2>1
<1>8. /\ \A id \in Ids \ ids : tree'[id] = tree[id]
      /\ \A id \in ids :
           /\ tree'[id].op = n /\ tree'[id].ver > tree[id].ver
           /\ \/ log[n].id = id
              \/ id = Note /\ log[n].id = Folder /\ log[n].kind \in {"delete", "restore"}
           /\ id = Note /\ tree'[id].at = Gone => log[n].id = Folder
  <2>1. \A id \in ids : tree[id].ver \in Nat
    BY <1>2, <1>4 DEF Entries
  <2>2. \A id \in ids : id = Folder \/ id = Note
    BY <1>4, Two
  <2>3. QED
    BY <1>1, <1>3, <1>4, <2>1, <2>2
<1>9. QED
  BY <1>1, <1>3, <1>4, <1>5, <1>6, <1>7, <1>8, Projects

(* The record a restore observed is removed, or stays (retire_deletion). *)
LEMMA RetireInv ==
  ASSUME IInv, NEW d \in Devices, Retire(d) \/ KeepRecord(d)
  PROVE  IInv'
<1>1. /\ log' = log /\ tree' = tree /\ expiry' = expiry /\ journal' = journal
      /\ row' = row /\ cursor' = cursor /\ Shown
      /\ run[d].pc = "retire" /\ Goto(d, "mark") /\ tomb' \in {tomb, None}
      /\ mishaps' = mishaps \/ Happens("keep")
  BY DEF Retire, KeepRecord, Local, Safe, history, Shown, Working, bucket
<1>2. /\ run[d] \in Runs /\ RunInv(d) /\ run[d].pc \in Acting /\ run \in [Devices -> Runs]
  BY <1>1, AtIntent DEF Acting, Points, IInv, Ranges
<1> DEFINE r == [run[d] EXCEPT !.pc = "mark"]
<1>3. /\ r \in Runs /\ run' = [run EXCEPT ![d] = r] /\ run'[d] = r
      /\ r.pc = "mark" /\ r.i = run[d].i /\ r.upto = run[d].upto
  <2>1. "mark" \in Points
    BY DEF Points
  <2>2. QED
    BY <1>1, <1>2, <2>1, GotoIs
<1> HIDE DEF r
<1>4. RunInv(d)'
  BY <1>1, <1>2, <1>3, PlainRun, WaitingSame
<1>5. tomb' \in Records /\ (tomb' # None => Named(tomb'))
  BY <1>1 DEF IInv, Ranges, Records
<1>6. /\ mishaps' \subseteq Mishaps /\ IsFiniteSet(mishaps')
      /\ Cardinality(mishaps') <= MaxMishaps
  <2>1. CASE mishaps' = mishaps
    BY <2>1 DEF IInv, Ranges
  <2>2. CASE Happens("keep")
    BY <2>2, HappensIs
  <2>3. QED
    BY <1>1, <2>1, <2>2
<1>7. QED
  BY <1>1, <1>3, <1>4, <1>5, <1>6, RunOnly

(* A stop loses the run; the poll ends when all is applied. *)
LEMMA EndInv ==
  ASSUME IInv, NEW d \in Devices, EndPoll(d) \/ Stop(d)
  PROVE  IInv'
<1>1. /\ log' = log /\ tree' = tree /\ expiry' = expiry /\ journal' = journal
      /\ row' = row /\ Shown /\ tomb' = tomb
      /\ \/ cursor' = cursor
         \/ run[d].pc = "poll" /\ cursor' = [cursor EXCEPT ![d] = run[d].seen]
      /\ run' = [run EXCEPT ![d] = Rest]
      /\ mishaps' = mishaps \/ Happens("stop")
  BY DEF EndPoll, Stop, Safe, history, Shown, Working, bucket
<1>2. /\ run \in [Devices -> Runs] /\ journal \in [Devices -> Seq(Intents)]
  BY DEF IInv, Ranges
<1>3. Rest \in Runs /\ RunInv(d)'
  BY <1>1, <1>2, RestIs
<1>4. tomb' \in Records /\ (tomb' # None => Named(tomb'))
  BY <1>1 DEF IInv, Ranges
<1>5. /\ mishaps' \subseteq Mishaps /\ IsFiniteSet(mishaps')
      /\ Cardinality(mishaps') <= MaxMishaps
  <2>1. CASE mishaps' = mishaps
    BY <2>1 DEF IInv, Ranges
  <2>2. CASE Happens("stop")
    BY <2>2, HappensIs
  <2>3. QED
    BY <1>1, <2>1, <2>2
<1>6. QED
  BY <1>1, <1>3, <1>4, <1>5, RunOnly

(* An acknowledgement: the intent is committed, and its entries are synced   *)
(* but for those that changed again among the intents read (synced_by,       *)
(* latest_pending_sequences).                                                *)
LEMMA MarkInv ==
  ASSUME IInv, NEW d \in Devices, Mark(d)
  PROVE  IInv'
<1> DEFINE c == Current(d)
           b == [c EXCEPT !.stage = "committed"]
           i == run[d].i
           ids == {id \in SyncedBy(c) : ~LaterPending(d, id, i)}
           W == Waiting(d) \ {i}
           n == run[d].upto
           r == NextOf(d, W, n)
           t == [journal[d] EXCEPT ![i] = b]
           rows == [id \in Ids |-> IF id \in ids THEN [row[d][id] EXCEPT !.st = "synced"]
                                   ELSE row[d][id]]
<1>1. /\ log' = log /\ tree' = tree /\ tomb' = tomb /\ expiry' = expiry
      /\ cursor' = cursor /\ mishaps' = mishaps /\ Shown
      /\ run[d].pc = "mark" /\ journal' = [journal EXCEPT ![d][i] = b]
      /\ run' = [run EXCEPT ![d] = r] /\ row' = [row EXCEPT ![d] = rows]
      /\ \A id \in ids : \A k \in Overlooked(d, id, i) : <<d, k, id>> \in hidden'
  <2>1. /\ log' = log /\ tree' = tree /\ tomb' = tomb /\ expiry' = expiry
        /\ cursor' = cursor /\ mishaps' = mishaps
        /\ run[d].pc = "mark" /\ journal' = [journal EXCEPT ![d][i] = b]
        /\ run' = [run EXCEPT ![d] = r] /\ row' = [row EXCEPT ![d] = rows]
        /\ hidden' = hidden \cup UNION {HiddenChanges(d, id, Overlooked(d, id, i)) : id \in ids}
    BY DEF Mark, Working, bucket, Update
  <2>2. ids \subseteq Ids
    <3>1. run[d].pc \in Acting
      BY <2>1 DEF Acting, Points
    <3>2. c \in Intents
      BY <3>1, AtIntent
    <3>3. QED
      BY <3>2 DEF SyncedBy, Intents
  <2>3. \A id \in ids : Overlooked(d, id, i) \in SUBSET Nat
    BY AtIntent, PendingIs DEF Overlooked
  <2> HIDE DEF ids, i, b, c, r, rows
  <2>4. \A id \in ids : /\ \A k \in Overlooked(d, id, i) : <<d, k, id>> \in hidden'
                        /\ HiddenChanges(d, id, Overlooked(d, id, i))
                             \subseteq Devices \X Nat \X Ids
    BY <2>1, <2>2, <2>3 DEF HiddenChanges
  <2>5. Shown
    BY <2>1, <2>4 DEF Shown
  <2>6. QED
    BY <2>1, <2>4, <2>5
<1>2. /\ run[d] \in Runs /\ RunInv(d) /\ run[d].pc \in Acting
      /\ i \in DOMAIN journal[d] /\ i \in Nat \ {0} /\ Len(journal[d]) \in Nat
      /\ DOMAIN journal[d] = 1 .. Len(journal[d])
      /\ c \in Intents /\ journal[d] \in Seq(Intents)
      /\ c = journal[d][i] /\ c.stage = "indexed" /\ c.kind # "save"
  BY <1>1, AtIntent DEF Acting, Points
<1>3. /\ run \in [Devices -> Runs] /\ journal \in [Devices -> Seq(Intents)]
      /\ row \in [Devices -> [Ids -> Rows]] /\ log \in Seq(Ops)
      /\ TreeInv /\ LogInv /\ JournalInv /\ RowInv /\ PlaceInv
      /\ tree \in [Ids -> Entries]
  BY DEF IInv, Ranges
<1>4. ids \subseteq c.ids /\ c.ids \in SUBSET Ids /\ n \in Nat /\ n <= Len(journal[d])
  BY <1>2 DEF SyncedBy, Intents, Runs, RunInv
<1>5. /\ b \in Intents /\ b.id = c.id /\ b.kind = c.kind /\ b.ids = c.ids
      /\ b.stage = "committed"
  BY <1>2 DEF Intents, Stages
<1> HIDE DEF b, c
<1>6. /\ t \in Seq(Intents) /\ Len(t) = Len(journal[d]) /\ DOMAIN t = DOMAIN journal[d]
      /\ t[i] = b /\ \A j \in DOMAIN journal[d] : j # i => t[j] = journal[d][j]
  BY <1>2, <1>5, SeqPut
<1>7. /\ journal' \in [Devices -> Seq(Intents)] /\ journal'[d] = t
      /\ \A e \in Devices \ {d} : journal'[e] = journal[e]
  <2> HIDE DEF t
  <2>1. journal' = [journal EXCEPT ![d] = t]
    BY <1>1 DEF t
  <2>2. QED
    BY <1>3, <1>6, <2>1
<1> HIDE DEF t
<1>8. JournalGrows /\ JournalKept /\ LogGrows
  <2>1. \A e \in Devices : Len(journal[e]) \in Nat
    BY <1>3
  <2>2. \A e \in Devices : /\ DOMAIN journal'[e] = DOMAIN journal[e]
                           /\ Len(journal'[e]) = Len(journal[e])
    BY <1>6, <1>7
  <2>3. \A e \in Devices : \A k \in DOMAIN journal[e] :
          /\ journal'[e][k].id = journal[e][k].id /\ journal'[e][k].kind = journal[e][k].kind
          /\ journal'[e][k].ids = journal[e][k].ids
          /\ journal[e][k].stage = "committed" => journal'[e][k].stage = "committed"
    BY <1>2, <1>5, <1>6, <1>7
  <2>4. JournalGrows
    BY <2>1, <2>2, <2>3 DEF JournalGrows
  <2>5. QED
    BY <1>1, <2>2, <2>4 DEF JournalKept, LogGrows
<1>9. TreeInv' /\ TreeMoves /\ LogInv' /\ JournalInv'
  BY <1>1, <1>3, <1>8, TreeSame, LogSame, ShapeKept
<1>10. /\ rows \in [Ids -> Rows] /\ \A id \in ids : rows[id].st = "synced"
       /\ \A id \in ids : rows[id].at = row[d][id].at
       /\ \A id \in Ids \ ids : rows[id] = row[d][id]
  <2>1. row[d] \in [Ids -> Rows]
    BY <1>3
  <2>2. \A id \in Ids : [row[d][id] EXCEPT !.st = "synced"] \in Rows
    BY <2>1 DEF Rows, States
  <2> HIDE DEF ids
  <2>3. ids \subseteq Ids
    BY <1>4
  <2>4. \A id \in Ids : [row[d][id] EXCEPT !.st = "synced"].st = "synced"
                        /\ [row[d][id] EXCEPT !.st = "synced"].at = row[d][id].at
    BY <2>1 DEF Rows
  <2>5. QED
    BY <2>1, <2>2, <2>3, <2>4
<1> HIDE DEF rows
<1>11. /\ row' \in [Devices -> [Ids -> Rows]] /\ row'[d] = rows
       /\ \A e \in Devices \ {d} : row'[e] = row[e]
  BY <1>1, <1>3, <1>10
<1>12. r \in Runs /\ RunInv(d)'
  <2>1. /\ W \in SUBSET DOMAIN journal[d]
        /\ \A k \in W : /\ journal[d][k].stage = "indexed" /\ journal[d][k].kind # "save"
                        /\ k # i
    BY DEF Waiting
  <2>2. run'[d] = r
    BY <1>1, <1>3
  <2>4. Waiting(d)' = W
    <3> HIDE DEF i
    <3> QED BY <1>2, <1>5, <1>6, <1>7 DEF Waiting
  <2> HIDE DEF W, n
  <2>3. /\ DOMAIN journal'[d] = DOMAIN journal[d] /\ Len(journal'[d]) = Len(journal[d])
        /\ \A k \in W : /\ journal'[d][k].stage = "indexed" /\ journal[d][k].kind # "save"
                        /\ journal'[d][k].kind = journal[d][k].kind
    <3> HIDE DEF i
    <3> QED BY <1>6, <1>7, <2>1
  <2>5. QED
    BY <1>2, <1>4, <2>1, <2>2, <2>3, <2>4, NextRun
<1> HIDE DEF r
<1>13. Ranges'
  BY <1>1, <1>3, <1>7, <1>11, <1>12 DEF IInv, Ranges, Shown
<1>14. PlaceInv'
  <2> SUFFICES ASSUME NEW e \in Devices, NEW id \in Ids
               PROVE  /\ row'[e][id].st # "none" => row'[e][id].at # Gone
                      /\ \A k \in DOMAIN journal'[e] :
                           id \in journal'[e][k].ids => row'[e][id].st # "none"
    BY DEF PlaceInv
  <2>1. \A k \in DOMAIN journal'[e] :
          k \in DOMAIN journal[e] /\ journal'[e][k].ids = journal[e][k].ids
    BY <1>8 DEF JournalKept, JournalGrows
  <2>2. /\ row[e][id].st # "none" => row[e][id].at # Gone
        /\ \A k \in DOMAIN journal[e] : id \in journal[e][k].ids => row[e][id].st # "none"
    BY <1>3 DEF PlaceInv
  <2>3. CASE e = d /\ id \in ids
    <3>1. i \in DOMAIN journal[d] /\ id \in journal[d][i].ids
      BY <1>2, <1>4, <2>3
    <3> HIDE DEF ids, i
    <3>2. row[d][id].st # "none"
      BY <2>2, <2>3, <3>1
    <3>3. QED
      BY <1>10, <1>11, <2>2, <2>3, <3>2
  <2>4. CASE ~(e = d /\ id \in ids)
    <3> HIDE DEF ids
    <3>1. row'[e][id] = row[e][id]
      BY <1>10, <1>11, <2>4
    <3>2. QED
      BY <2>1, <2>2, <3>1
  <2>5. QED
    BY <2>3, <2>4
<1>15. RowInv'
  <2> SUFFICES ASSUME NEW e \in Devices, NEW id \in Ids,
                      row'[e][id].st = "synced" \/ (id = Note /\ row'[e][id].st = "removed")
               PROVE  Covered(e, id)'
    BY DEF RowInv
  <2>1. CASE e = d /\ id \in ids
    <3> SUFFICES ASSUME NEW k \in Pending(d, id)' PROVE <<d, k, id>> \in hidden'
      BY <2>1 DEF Covered
    <3>1. /\ k # i /\ k \in DOMAIN journal[d] /\ k \in Pending(d, id)
          /\ journal[d][k].stage # "committed"
      <4> HIDE DEF i
      <4> QED BY <1>5, <1>6, <1>7 DEF Pending
    <3>2. k \in Nat /\ i \in Nat /\ n \in Nat
      BY <1>2, <1>4, <3>1
    <3>3. ~(k > i /\ k <= n)
      BY <2>1, <3>1 DEF LaterPending
    <3>4. k < i => journal[d][k].kind = "save"
      <4>1. journal[d][k] \in Intents
        BY <1>2, <3>1
      <4>2. journal[d][k].kind # "save" => k \in Waiting(d)
        BY <3>1, <4>1 DEF Waiting, Intents, Stages
      <4>3. \A j \in Waiting(d) : i <= j
        BY <1>2 DEF RunInv
      <4> HIDE DEF i
      <4>4. QED
        BY <3>2, <4>2, <4>3
    <3>5. k > n \/ k < i
      <4> HIDE DEF i, n
      <4> QED BY <3>1, <3>2, <3>3
    <3>6. k \in Overlooked(d, id, i)
      BY <3>1, <3>4, <3>5 DEF Overlooked
    <3>7. QED
      BY <1>1, <2>1, <3>6
  <2>2. CASE ~(e = d /\ id \in ids)
    <3>1. row'[e][id] = row[e][id]
      <4> HIDE DEF ids
      <4> QED BY <1>10, <1>11, <2>2
    <3>2. Covered(e, id)
      BY <1>3, <3>1 DEF RowInv
    <3>3. QED
      BY <1>1, <1>8, <3>2, PendingLess DEF Covered, Shown
  <2>3. QED
    BY <2>1, <2>2
<1>16. \A e \in Devices : RunInv(e)'
  <2>1. /\ tree' \in [Ids -> Entries]
        /\ \A e \in Devices \ {d} : run'[e] = run[e] /\ journal'[e] = journal[e]
        /\ \A m \in DOMAIN log' \ DOMAIN log : log'[m].dev = d
    BY <1>1, <1>3, <1>7
  <2>2. \A e \in Devices \ {d} : RunInv(e)'
    BY <1>7, <1>8, <1>9, <2>1, OtherRuns
  <2>3. QED
    BY <1>12, <2>2
<1>17. (tomb # None => Named(tomb))'
  BY <1>1, <1>8 DEF IInv, Named, JournalKept
<1>18. \A e \in Devices : cursor'[e] <= Len(log')
  BY <1>1 DEF IInv
<1>19. QED
  BY <1>9, <1>13, <1>14, <1>15, <1>16, <1>17, <1>18 DEF IInv

(* The upload of the saved note, for the newest save and those before it. *)
LEMMA UploadInv ==
  ASSUME IInv, NEW d \in Devices, Upload(d)
  PROVE  IInv'
<1> DEFINE S == Saves(d)
           last == LastOf(S)
           at == tree[Note].at
           op == Op(Note, "write", at, d, last)
           s == journal[d]
           t == [k \in DOMAIN s |-> IF k \in S THEN [s[k] EXCEPT !.stage = "committed"] ELSE s[k]]
           note == [row[d][Note] EXCEPT !.st = "synced"]
<1>1. /\ log' = Append(log, op) /\ tree' = Written(Note, at, Len(log) + 1)
      /\ journal' = [journal EXCEPT ![d] = t] /\ row' = [row EXCEPT ![d][Note] = note]
      /\ tomb' = tomb /\ expiry' = expiry /\ run' = run /\ cursor' = cursor
      /\ mishaps' = mishaps
      /\ run[d].pc = "upload" /\ S # {} /\ Live(d, Note) /\ at # Gone
      /\ Hides(d, Note, Unread(d, Note))
  BY DEF Upload, Working, Here
<1>2. /\ run \in [Devices -> Runs] /\ journal \in [Devices -> Seq(Intents)]
      /\ row \in [Devices -> [Ids -> Rows]] /\ log \in Seq(Ops) /\ Len(log) \in Nat
      /\ TreeInv /\ LogInv /\ JournalInv /\ RowInv /\ PlaceInv
      /\ tree \in [Ids -> Entries] /\ cursor \in [Devices -> Nat]
      /\ s \in Seq(Intents) /\ Len(s) \in Nat /\ DOMAIN s = 1 .. Len(s)
  BY AtIntent DEF IInv, Ranges
<1>3. Note \in Ids /\ Folder \in Ids /\ Note # Folder
  BY Two
<1>h. Shown /\ \A k \in Unread(d, Note) : <<d, k, Note>> \in hidden'
  <2>1. Unread(d, Note) \in SUBSET Nat
    BY <1>2, PendingIs DEF Unread
  <2>2. QED
    BY <1>1, <1>3, <2>1, HidesIs
<1>4. at \in Places
  BY <1>1, <1>2, <1>3 DEF Entries, Ats
<1>5. last \in S /\ last \in DOMAIN s /\ last \in Nat \ {0}
  <2>1. S \in SUBSET Nat /\ \A k \in S : k <= Len(s)
    BY <1>2 DEF Saves
  <2>2. last \in S
    <3> HIDE DEF S
    <3> QED BY <1>1, <1>2, <2>1, LastOfIs
  <2>3. last \in DOMAIN s
    BY <2>2 DEF Saves
  <2>4. QED
    <3> HIDE DEF last
    <3> QED BY <1>2, <2>2, <2>3
<1>6. \A k \in S : k \in DOMAIN s /\ s[k].kind = "save" /\ s[k].stage = "indexed"
  BY DEF Saves
<1> HIDE DEF S, last
<1>7. op \in Ops /\ op.id = Note /\ op.kind = "write" /\ op.dev = d /\ op.req = last
  <2> HIDE DEF at
  <2> QED BY <1>3, <1>4, <1>5 DEF Op, Ops, OpKinds
<1> HIDE DEF op
<1>8. /\ log' \in Seq(Ops) /\ DOMAIN log' = 1 .. Len(log) + 1 /\ DOMAIN log = 1 .. Len(log)
      /\ log'[Len(log) + 1] = op /\ Len(log') = Len(log) + 1 /\ LogGrows
  <2>1. log' = Append(log, op) /\ op \in Ops /\ log \in Seq(Ops)
    BY <1>1, <1>2, <1>7
  <2>2. LogGrows
    BY <2>1 DEF LogGrows
  <2>3. /\ log' \in Seq(Ops) /\ DOMAIN log' = 1 .. Len(log) + 1 /\ DOMAIN log = 1 .. Len(log)
        /\ log'[Len(log) + 1] = op /\ Len(log') = Len(log) + 1
    BY <2>1, SeqAdd
  <2>4. QED
    BY <2>2, <2>3
<1>9. /\ t \in Seq(Intents) /\ Len(t) = Len(s) /\ DOMAIN t = DOMAIN s
      /\ \A k \in DOMAIN s :
           /\ t[k].id = s[k].id /\ t[k].kind = s[k].kind /\ t[k].ids = s[k].ids
           /\ t[k].stage = IF k \in S THEN "committed" ELSE s[k].stage
  <2>1. \A k \in DOMAIN s : s[k] \in Intents
    BY <1>2
  <2>2. \A k \in DOMAIN s : [s[k] EXCEPT !.stage = "committed"] \in Intents
    BY <2>1 DEF Intents, Stages
  <2>3. \A k \in DOMAIN s : t[k] \in Intents
    BY <2>1, <2>2
  <2>4. t \in [1 .. Len(s) -> Intents]
    BY <1>2, <2>3
  <2>5. t \in Seq(Intents)
    <3>1. \A m \in Nat : \A f \in [1 .. m -> Intents] : f \in Seq(Intents)
      BY SeqDef
    <3> HIDE DEF t
    <3>2. QED
      BY <1>2, <2>4, <3>1
  <2>6. DOMAIN t = 1 .. Len(s) /\ Len(t) = Len(s)
    <3> HIDE DEF t
    <3> QED BY <1>2, <2>4, <2>5
  <2>7. \A k \in DOMAIN s :
           /\ t[k].id = s[k].id /\ t[k].kind = s[k].kind /\ t[k].ids = s[k].ids
           /\ t[k].stage = IF k \in S THEN "committed" ELSE s[k].stage
    BY <2>1 DEF Intents
  <2>8. QED
    BY <1>2, <2>5, <2>6, <2>7
<1> HIDE DEF t
<1>10. /\ journal' \in [Devices -> Seq(Intents)] /\ journal'[d] = t
       /\ \A e \in Devices \ {d} : journal'[e] = journal[e]
  BY <1>1, <1>2, <1>9
<1>11. JournalGrows /\ JournalKept
  <2>1. \A e \in Devices : Len(journal[e]) \in Nat
    BY <1>2
  <2>2. \A e \in Devices : /\ DOMAIN journal'[e] = DOMAIN journal[e]
                           /\ Len(journal'[e]) = Len(journal[e])
    BY <1>9, <1>10
  <2>3. \A e \in Devices : \A k \in DOMAIN journal[e] :
          /\ journal'[e][k].id = journal[e][k].id /\ journal'[e][k].kind = journal[e][k].kind
          /\ journal'[e][k].ids = journal[e][k].ids
          /\ journal[e][k].stage = "committed" => journal'[e][k].stage = "committed"
    BY <1>9, <1>10
  <2>4. QED
    BY <2>1, <2>2, <2>3 DEF JournalGrows, JournalKept
<1>12. JournalInv'
  BY <1>2, <1>11, ShapeKept
<1>13. LogInv'
  <2>1. OwnOp(d, last) = {}
    <3> SUFFICES ASSUME NEW n \in OwnOp(d, last) PROVE FALSE
      OBVIOUS
    <3>1. n \in DOMAIN log /\ log[n].dev = d /\ log[n].req = last
      BY DEF OwnOp
    <3>2. CarriesOut(n)
      BY <1>2, <1>5, <3>1 DEF LogInv
    <3>3. s[last].kind = "save" => s[last].stage = "committed"
      BY <3>1, <3>2 DEF CarriesOut
    <3>4. QED
      BY <1>5, <1>6, <3>3
  <2>2. /\ s[last] \in Intents /\ s[last].kind = "save" /\ JournalInv
    BY <1>2, <1>5, <1>6
  <2>3. s[last].id = Note
    BY <1>5, <2>2 DEF JournalInv, Shape
  <2>4. /\ op.dev \in Devices /\ op.req \in DOMAIN journal'[op.dev]
        /\ journal'[op.dev][op.req] = t[last]
        /\ t[last].id = Note /\ t[last].kind = "save" /\ t[last].stage = "committed"
    BY <1>5, <1>7, <1>9, <1>10, <2>2, <2>3
  <2>5. /\ op.id = journal'[op.dev][op.req].id
        /\ op.kind = KindOf(journal'[op.dev][op.req])
        /\ journal'[op.dev][op.req].kind = "save"
             => journal'[op.dev][op.req].stage = "committed"
        /\ OwnOp(op.dev, op.req) = {}
    BY <1>7, <2>1, <2>4 DEF KindOf
  <2>6. QED
    BY <1>1, <1>2, <1>7, <1>11, <2>4, <2>5, LogMore
<1>14. /\ tree' \in [Ids -> Entries]
       /\ tree'[Note].op = Len(log) + 1 /\ tree'[Note].ver > tree[Note].ver
       /\ tree'[Note].at = at /\ \A id \in Ids \ {Note} : tree'[id] = tree[id]
  <2>1. tree' = [tree EXCEPT ![Note] = [at |-> at, ver |-> tree[Note].ver + 1,
                                        op |-> Len(log) + 1]]
    BY <1>1 DEF Written
  <2>2. tree[Note].ver \in Nat
    BY <1>2, <1>3 DEF Entries
  <2>3. [at |-> at, ver |-> tree[Note].ver + 1, op |-> Len(log) + 1] \in Entries
    BY <1>2, <1>4, <2>2, Two DEF Entries
  <2> HIDE DEF at
  <2>4. QED
    BY <1>2, <1>3, <2>1, <2>2, <2>3
<1>15. TreeInv' /\ TreeMoves
  <2> DEFINE N == {Note}
             n == Len(log) + 1
  <2>1. N \in SUBSET Ids /\ n \in DOMAIN log'
    BY <1>2, <1>3, <1>8
  <2>2. \A id \in Ids \ N : tree'[id] = tree[id]
    BY <1>14
  <2>3. \A id \in N :
          /\ tree'[id].op = n /\ tree'[id].ver > tree[id].ver
          /\ \/ log'[n].id = id
             \/ id = Note /\ log'[n].id = Folder /\ log'[n].kind \in {"delete", "restore"}
          /\ id = Note /\ tree'[id].at = Gone => log'[n].id = Folder
    BY <1>1, <1>7, <1>8, <1>14
  <2> HIDE DEF N, n
  <2>4. QED
    BY <1>2, <1>8, <1>14, <2>1, <2>2, <2>3, TreeMore
<1>16. /\ row' \in [Devices -> [Ids -> Rows]]
       /\ row'[d][Note].st = "synced" /\ row'[d][Note].at = row[d][Note].at
       /\ \A e \in Devices, id \in Ids : e # d \/ id # Note => row'[e][id] = row[e][id]
  <2>1. row[d] \in [Ids -> Rows] /\ row[d][Note] \in Rows
    BY <1>2, <1>3
  <2>2. note \in Rows /\ note.st = "synced" /\ note.at = row[d][Note].at
    BY <2>1 DEF Rows, States
  <2> HIDE DEF note
  <2>3. QED
    BY <1>1, <1>2, <1>3, <2>2
<1>17. PlaceInv'
  <2>1. \A e \in Devices : \A k \in DOMAIN journal'[e] :
          k \in DOMAIN journal[e] /\ journal'[e][k].ids = journal[e][k].ids
    BY <1>11 DEF JournalKept, JournalGrows
  <2>2. row'[d][Note].at # Gone
    BY <1>1, <1>3, <1>16, InsideIs
  <2>3. ASSUME NEW e \in Devices, NEW id \in Ids
        PROVE  /\ row'[e][id].st # "none" => row'[e][id].at # Gone
               /\ \A k \in DOMAIN journal'[e] :
                    id \in journal'[e][k].ids => row'[e][id].st # "none"
    <3>1. CASE e = d /\ id = Note
      BY <1>16, <2>2, <3>1
    <3>2. CASE e # d \/ id # Note
      <4>1. row'[e][id] = row[e][id]
        BY <1>16, <3>2
      <4>2. QED
        BY <1>2, <2>1, <4>1 DEF PlaceInv
    <3>3. QED
      BY <3>1, <3>2
  <2>4. QED
    BY <2>3 DEF PlaceInv
<1>18. RowInv'
  <2> SUFFICES ASSUME NEW e \in Devices, NEW id \in Ids,
                      row'[e][id].st = "synced" \/ (id = Note /\ row'[e][id].st = "removed")
               PROVE  Covered(e, id)'
    BY DEF RowInv
  <2>1. CASE e = d /\ id = Note
    <3> SUFFICES ASSUME NEW k \in Pending(d, Note)' PROVE <<d, k, Note>> \in hidden'
      BY <2>1 DEF Covered
    <3>1. /\ k \in DOMAIN s /\ k \notin S /\ k \in Pending(d, Note)
          /\ s[k].stage # "committed"
      BY <1>9, <1>10 DEF Pending
    <3>2. s[k] \in Intents /\ k \in Nat
      BY <1>2, <3>1
    <3>3. s[k].stage = "indexed" /\ s[k].kind # "save"
      BY <3>1, <3>2 DEF Intents, Stages, Saves, S
    <3>4. k \in Waiting(d)
      BY <3>1, <3>3 DEF Waiting
    <3>5. run[d].upto < k /\ run[d].upto \in Nat
      BY <1>1, <3>4, AtIntent DEF RunInv, Runs
    <3>6. k \in Unread(d, Note)
      BY <3>1, <3>2, <3>3, <3>5 DEF Unread
    <3>7. QED
      BY <1>h, <3>6
  <2>2. CASE ~(e = d /\ id = Note)
    <3>1. row'[e][id] = row[e][id]
      BY <1>16, <2>2
    <3>2. Covered(e, id)
      BY <1>2, <3>1 DEF RowInv
    <3>3. QED
      BY <1>h, <1>11, <3>2, PendingLess DEF Covered, Shown
  <2>3. QED
    BY <2>1, <2>2
<1>19. Ranges'
  BY <1>1, <1>2, <1>h, <1>8, <1>10, <1>14, <1>16 DEF IInv, Ranges, Shown
<1>20. \A e \in Devices : RunInv(e)'
  <2>1. \A e \in Devices \ {d} : run'[e] = run[e] /\ journal'[e] = journal[e]
    BY <1>1, <1>10
  <2>2. \A n \in DOMAIN log' \ DOMAIN log : log'[n].dev = d
    BY <1>2, <1>7, <1>8
  <2>3. \A e \in Devices \ {d} : RunInv(e)'
    BY <1>8, <1>10, <1>11, <1>14, <1>15, <2>1, <2>2, OtherRuns
  <2>4. RunInv(d)'
    <3>1. RunInv(d) /\ run'[d] = run[d] /\ run[d].pc \notin Acting
      BY <1>1 DEF IInv, Acting
    <3>2. /\ DOMAIN journal[d] \subseteq DOMAIN journal'[d]
          /\ Len(journal[d]) <= Len(journal'[d])
          /\ journal[d] \in Seq(Intents) /\ journal'[d] \in Seq(Intents)
      BY <1>2, <1>9, <1>10
    <3>w. \A j \in Waiting(d)' : j \in Waiting(d) \/ j > Len(journal[d])
      <4>1. \A j \in DOMAIN s : s[j] \in Intents
        BY <1>2
      <4>2. \A j \in DOMAIN s : t[j].stage = "indexed" => s[j].stage = "indexed"
        BY <1>9
      <4>3. QED
        BY <1>9, <1>10, <4>2 DEF Waiting
    <3>3. QED
      BY <1>2, <1>8, <1>14, <1>15, <3>1, <3>2, <3>w, RunKept
  <2>5. QED
    BY <2>3, <2>4
<1>21. (tomb # None => Named(tomb))'
  BY <1>1, <1>11 DEF IInv, Named, JournalKept
<1>22. \A e \in Devices : cursor'[e] <= Len(log')
  <2>1. cursor' = cursor /\ Len(log') = Len(log) + 1
    BY <1>1, <1>8
  <2>2. QED
    BY <1>2, <2>1 DEF IInv
<1>23. QED
  BY <1>12, <1>13, <1>15, <1>17, <1>18, <1>19, <1>20, <1>21, <1>22 DEF IInv

-----------------------------------------------------------------------------
(* The poll.                                                               *)

(* The poll begins at the checkpoint, if anything is new (poll_changes). *)
LEMMA BeginPollInv ==
  ASSUME IInv, NEW d \in Devices, BeginPoll(d)
  PROVE  IInv'
<1> DEFINE r == IF cursor[d] = Len(log) THEN Rest
                ELSE [Rest EXCEPT !.pc = "poll", !.i = cursor[d] + 1, !.seen = Len(log)]
<1>1. /\ run' = [run EXCEPT ![d] = r] /\ Shown /\ journal' = journal
      /\ log' = log /\ tree' = tree /\ tomb' = tomb /\ expiry' = expiry
      /\ row' = row /\ cursor' = cursor /\ mishaps' = mishaps
  BY DEF BeginPoll, bucket, Local, Safe, history, Shown
<1>2. /\ run \in [Devices -> Runs] /\ journal \in [Devices -> Seq(Intents)]
      /\ cursor[d] \in Nat /\ cursor[d] <= Len(log) /\ Len(log) \in Nat
  BY DEF IInv, Ranges
<1>3. r \in Runs /\ RunInv(d)'
  <2>1. CASE r = Rest
    <3>1. run'[d] = Rest /\ journal'[d] \in Seq(Intents)
      BY <1>1, <1>2, <2>1
    <3>2. QED
      BY <2>1, <3>1, RestIs
  <2>2. CASE r # Rest
    <3>1. r = [pc |-> "poll", i |-> cursor[d] + 1, upto |-> 0, seen |-> Len(log), left |-> <<>>]
      BY <2>2 DEF Rest
    <3>2. <<>> \in Seq(Ids) /\ Len(journal'[d]) \in Nat
      BY <1>1, <1>2
    <3> HIDE DEF r
    <3>3. r \in Runs
      BY <1>2, <3>1, <3>2 DEF Runs, Points
    <3>4. run'[d] = r
      BY <1>1, <1>2
    <3>5. /\ r.pc = "poll" /\ r.upto = 0 /\ r.seen = Len(log) /\ r.i = cursor[d] + 1
      BY <3>1
    <3>6. QED
      BY <1>1, <1>2, <3>2, <3>3, <3>4, <3>5 DEF RunInv, Acting
  <2>3. QED
    BY <2>1, <2>2
<1> HIDE DEF r
<1>4. /\ tomb' \in Records /\ (tomb' # None => Named(tomb'))
      /\ mishaps' \subseteq Mishaps /\ IsFiniteSet(mishaps')
      /\ Cardinality(mishaps') <= MaxMishaps
  BY <1>1 DEF IInv, Ranges
<1>5. QED
  BY <1>1, <1>3, <1>4, RunOnly

(* The operation a poll is at, and what the device knows of the entries. *)
LEMMA PolledIs ==
  ASSUME IInv, NEW d \in Devices, Polling(d)
  PROVE  /\ Polled(d) \in Ops /\ row[d] \in [Ids -> Rows] /\ tree \in [Ids -> Entries]
         /\ row \in [Devices -> [Ids -> Rows]]
         /\ \A id \in Ids : row[d][id].st # "none" => row[d][id].at # Gone
<1>1. /\ log \in Seq(Ops) /\ run[d] \in Runs /\ RunInv(d) /\ Len(log) \in Nat
      /\ row \in [Devices -> [Ids -> Rows]] /\ tree \in [Ids -> Entries] /\ PlaceInv
  BY DEF IInv, Ranges
<1>2. run[d].i \in DOMAIN log
  BY <1>1 DEF RunInv, Runs, Polling
<1>3. Polled(d) \in Ops
  BY <1>1, <1>2 DEF Polled
<1>4. QED
  BY <1>1, <1>3 DEF PlaceInv

(* What is covered stays so when no journal changes. *)
LEMMA CoveredStays ==
  ASSUME NEW d, NEW id, Covered(d, id), journal' = journal, Shown
  PROVE  Covered(d, id)'
BY DEF Covered, Pending, Shown

(* A folder an operation brings back hides the changes made to it here. *)
LEMMA BackIs ==
  ASSUME IInv, NEW d \in Devices, journal' = journal, BackAgain(d)
  PROVE  Shown /\ (row'[d][Folder].st = "synced" => Covered(d, Folder)')
<1> DEFINE back == row'[d][Folder].st = "synced" /\ row[d][Folder].st # "synced"
           S == IF back THEN Pending(d, Folder) ELSE {}
<1>1. Folder \in Ids /\ S \in SUBSET Nat
  BY Two, AtIntent, PendingIs
<1>2. Hides(d, Folder, S)
  BY DEF BackAgain
<1> HIDE DEF S
<1>3. Shown /\ \A i \in S : <<d, i, Folder>> \in hidden'
  BY <1>1, <1>2, HidesIs
<1>4. CASE back
  <2>1. Pending(d, Folder)' = Pending(d, Folder)
    BY DEF Pending
  <2>2. QED
    BY <1>3, <1>4, <2>1 DEF Covered, S
<1>5. CASE ~back
  <2>1. row'[d][Folder].st = "synced" => Covered(d, Folder)
    BY <1>1, <1>5 DEF IInv, RowInv
  <2>2. QED
    BY <1>3, <2>1, CoveredStays
<1>6. QED
  BY <1>4, <1>5

(* The rows a poll leaves as they are. *)
LEMMA RowStays ==
  ASSUME IInv, NEW d \in Devices, NEW id \in Ids, journal' = journal, Shown,
         row'[d][id].st = row[d][id].st
  PROVE  row'[d][id].st = "synced" \/ (id = Note /\ row'[d][id].st = "removed")
           => Covered(d, id)'
<1> SUFFICES ASSUME row[d][id].st = "synced" \/ (id = Note /\ row[d][id].st = "removed")
             PROVE  Covered(d, id)'
  OBVIOUS
<1>1. Covered(d, id)
  BY DEF IInv, RowInv
<1>2. QED
  BY <1>1, CoveredStays

(* A placement, with the folder if it is needed and not there. *)
LEMMA PollPlaceInv ==
  ASSUME IInv, NEW d \in Devices, PollPlace(d)
  PROVE  IInv'
<1> DEFINE op == Polled(d)
           was == row[d][op.id]
           claimed == op.to = "in" /\ ~Live(d, Folder)
           moved == [was EXCEPT !.at = op.to, !.here = Live(d, op.id)]
           placed == [row[d] EXCEPT ![op.id] = moved]
           folder == Known(tree[Folder].at, "synced")
           both == [placed EXCEPT ![Folder] = folder]
<1>1. /\ bucket' = bucket /\ journal' = journal /\ mishaps' = mishaps
      /\ Polling(d) /\ cursor' = cursor /\ BackAgain(d)
  BY DEF PollPlace, Polls, Polling, Working
<1>2. Shown /\ (row'[d][Folder].st = "synced" => Covered(d, Folder)')
  BY <1>1, BackIs
<1>3. \/ row' = row
      \/ row' = [row EXCEPT ![d] = placed] /\ was.st # "none"
      \/ /\ row' = [row EXCEPT ![d] = both] /\ was.st # "none" /\ claimed
         /\ tree[Folder].at # Gone
  BY DEF PollPlace
<1>4. /\ op \in Ops /\ row[d] \in [Ids -> Rows] /\ tree \in [Ids -> Entries]
      /\ row \in [Devices -> [Ids -> Rows]]
      /\ \A id \in Ids : row[d][id].st # "none" => row[d][id].at # Gone
  BY <1>1, PolledIs
<1>5. op.id \in Ids /\ op.to \in Places /\ op.to # Gone /\ Folder \in Ids /\ op.to \in Ats
  BY <1>4, Two DEF Ops
<1>6. moved \in Rows /\ moved.st = was.st /\ moved.at = op.to
  <2>1. was \in Rows /\ Live(d, op.id) \in BOOLEAN
    BY <1>4, <1>5 DEF Live
  <2>2. QED
    BY <1>5, <2>1 DEF Rows
<1> HIDE DEF op, was, claimed, moved
<1>7. CASE row' = row
  BY <1>1, <1>2, <1>4, <1>7, RowStays, RowOnly
<1>8. CASE row' = [row EXCEPT ![d] = placed] /\ was.st # "none"
  <2>1. /\ placed \in [Ids -> Rows] /\ placed[op.id] = moved
        /\ \A id \in Ids \ {op.id} : placed[id] = row[d][id]
    BY <1>4, <1>5, <1>6
  <2> HIDE DEF placed
  <2>2. /\ row' \in [Devices -> [Ids -> Rows]] /\ row'[d] = placed
        /\ \A e \in Devices \ {d} : row'[e] = row[e]
    BY <1>4, <1>8, <2>1
  <2>3. \A id \in Ids : row'[d][id].st = row[d][id].st
    BY <1>6, <2>1, <2>2 DEF was
  <2>4. \A id \in Ids : row'[d][id].st # "none" => row'[d][id].at # Gone
    BY <1>4, <1>5, <1>6, <2>1, <2>2
  <2>5. QED
    BY <1>1, <1>2, <2>2, <2>3, <2>4, RowStays, RowOnly
<1>9. CASE /\ row' = [row EXCEPT ![d] = both] /\ was.st # "none" /\ claimed
           /\ tree[Folder].at # Gone
  <2>1. /\ placed \in [Ids -> Rows] /\ placed[op.id] = moved
        /\ \A id \in Ids \ {op.id} : placed[id] = row[d][id]
    BY <1>4, <1>5, <1>6
  <2> HIDE DEF placed
  <2>2. folder \in Rows /\ folder.st = "synced" /\ folder.at # Gone
    BY <1>4, <1>5, <1>9 DEF Known, Rows, Entries, States
  <2> HIDE DEF folder
  <2>3. /\ both \in [Ids -> Rows] /\ both[Folder] = folder
        /\ \A id \in Ids \ {Folder} : both[id] = placed[id]
    BY <1>5, <2>1, <2>2
  <2> HIDE DEF both
  <2>4. /\ row' \in [Devices -> [Ids -> Rows]] /\ row'[d] = both
        /\ \A e \in Devices \ {d} : row'[e] = row[e]
    BY <1>4, <1>9, <2>3
  <2>5. \A id \in Ids \ {Folder} : row'[d][id].st = row[d][id].st
    BY <1>6, <2>1, <2>3, <2>4 DEF was
  <2>6. \A id \in Ids : row'[d][id].st # "none" => row'[d][id].at # Gone
    BY <1>4, <1>5, <1>6, <2>1, <2>2, <2>3, <2>4
  <2>7. Covered(d, Folder)'
    BY <1>2, <1>5, <2>2, <2>3, <2>4
  <2>8. \A id \in Ids :
           row'[d][id].st = "synced" \/ (id = Note /\ row'[d][id].st = "removed")
             => Covered(d, id)'
    <3>1. ASSUME NEW id \in Ids \ {Folder}
          PROVE  row'[d][id].st = "synced" \/ (id = Note /\ row'[d][id].st = "removed")
                   => Covered(d, id)'
      BY <1>1, <1>2, <2>5, RowStays
    <3>2. QED
      BY <2>7, <3>1
  <2>9. \A id \in Ids : row[d][id].st # "none" => row'[d][id].st # "none"
    BY <2>2, <2>3, <2>4, <2>5
  <2>10. QED
    BY <1>1, <1>2, <2>4, <2>6, <2>8, <2>9, RowOnly
<1>10. QED
  BY <1>3, <1>7, <1>8, <1>9

(* A step of the poll that makes the folder synced, and the note too if it   *)
(* was removed as the bucket had it.                                         *)
LEMMA Appears ==
  ASSUME IInv, NEW d \in Devices, bucket' = bucket, journal' = journal, Polling(d),
         mishaps' = mishaps, Shown, cursor' = cursor,
         row'[d][Folder].st = "synced" => Covered(d, Folder)',
         NEW rows \in [Ids -> Rows], row' = [row EXCEPT ![d] = rows],
         rows[Folder].st # "none" /\ rows[Folder].at # Gone,
         \/ rows[Note] = row[d][Note]
         \/ /\ row[d][Note].st = "removed"
            /\ rows[Note].st = "synced" /\ rows[Note].at # Gone
  PROVE  IInv'
<1>1. /\ row \in [Devices -> [Ids -> Rows]]
      /\ \A id \in Ids : row[d][id].st # "none" => row[d][id].at # Gone
  BY PolledIs
<1>2. /\ row' \in [Devices -> [Ids -> Rows]] /\ row'[d] = rows
      /\ \A e \in Devices \ {d} : row'[e] = row[e]
  BY <1>1
<1>3. row'[d][Folder].st = "synced" => Covered(d, Folder)'
  OBVIOUS
<1>4. row'[d][Note].st = "synced" \/ row'[d][Note].st = "removed" => Covered(d, Note)'
  <2>1. CASE rows[Note] = row[d][Note]
    <3>1. Note \in Ids /\ row'[d][Note].st = row[d][Note].st
      BY <1>2, <2>1, Two
    <3>2. QED
      BY <3>1, RowStays
  <2>2. CASE row[d][Note].st = "removed"
    <3>1. Covered(d, Note)
      BY <2>2, Two DEF IInv, RowInv
    <3>2. QED
      BY <3>1, CoveredStays
  <2>3. QED
    BY <2>1, <2>2
<1>5. Folder # Note /\ \A id \in Ids : id = Folder \/ id = Note
  BY Two
<1>6. \A id \in Ids :
        /\ row'[d][id].st = "synced" \/ (id = Note /\ row'[d][id].st = "removed")
             => Covered(d, id)'
        /\ row'[d][id].st # "none" => row'[d][id].at # Gone
        /\ row[d][id].st # "none" => row'[d][id].st # "none"
  BY <1>1, <1>2, <1>3, <1>4, <1>5
<1>7. QED
  BY <1>2, <1>6, RowOnly

(* A folder another device created. *)
LEMMA PollCreateInv ==
  ASSUME IInv, NEW d \in Devices, PollCreate(d)
  PROVE  IInv'
<1> DEFINE f == IF Live(d, Folder) THEN [row[d][Folder] EXCEPT !.at = Polled(d).to, !.here = TRUE]
                ELSE Known(Polled(d).to, "synced")
           rows == [row[d] EXCEPT ![Folder] = f]
<1>1. /\ bucket' = bucket /\ journal' = journal /\ mishaps' = mishaps
      /\ Polling(d) /\ cursor' = cursor
      /\ Shown /\ (row'[d][Folder].st = "synced" => Covered(d, Folder)')
      /\ row' = row \/ row' = [row EXCEPT ![d] = rows]
  <2>1. /\ bucket' = bucket /\ journal' = journal /\ mishaps' = mishaps
        /\ Polling(d) /\ cursor' = cursor /\ BackAgain(d)
        /\ row' = row \/ row' = [row EXCEPT ![d] = rows]
    BY DEF PollCreate, Polls, Polling, Working
  <2> HIDE DEF rows
  <2>2. QED
    BY <2>1, BackIs
<1>2. /\ Polled(d) \in Ops /\ row[d] \in [Ids -> Rows]
      /\ row \in [Devices -> [Ids -> Rows]]
      /\ \A id \in Ids : row[d][id].st # "none" => row[d][id].at # Gone
  BY <1>1, PolledIs
<1>3. CASE row' = row
  BY <1>1, <1>2, <1>3, RowStays, RowOnly
<1>4. CASE row' = [row EXCEPT ![d] = rows]
  <2>1. f \in Rows /\ f.st # "none" /\ f.at # Gone
    <3>1. /\ Polled(d).to \in Ats /\ Polled(d).to # Gone
          /\ row[d][Folder] \in Rows
      BY <1>2, Two DEF Ops
    <3>2. CASE Live(d, Folder)
      BY <3>1, <3>2 DEF Live, Rows
    <3>3. CASE ~Live(d, Folder)
      BY <3>1, <3>3 DEF Known, Rows, States
    <3>4. QED
      BY <3>2, <3>3
  <2> HIDE DEF f
  <2>2. rows \in [Ids -> Rows] /\ rows[Folder] = f /\ rows[Note] = row[d][Note]
    BY <1>2, <2>1, Two
  <2> HIDE DEF rows
  <2>3. QED
    BY <1>1, <1>4, <2>1, <2>2, Appears
<1>5. QED
  BY <1>1, <1>3, <1>4

(* A folder another device brought back, with what was removed with it. *)
LEMMA PollRestoreInv ==
  ASSUME IInv, NEW d \in Devices, PollRestore(d)
  PROVE  IInv'
<1> DEFINE back == /\ row[d][Note].st = "removed" /\ row[d][Note].at = "in"
                   /\ tree[Note].at # Gone
           f == Known(Polled(d).to, "synced")
           rows == [id \in Ids |-> IF id = Folder THEN f
                                   ELSE IF back THEN Known("in", "synced") ELSE row[d][id]]
<1>1. /\ bucket' = bucket /\ journal' = journal /\ mishaps' = mishaps
      /\ Polling(d) /\ cursor' = cursor /\ BackAgain(d)
      /\ row' = row \/ row' = [row EXCEPT ![d] = rows]
  BY DEF PollRestore, Polls, Polling, Working
<1>2. Shown /\ (row'[d][Folder].st = "synced" => Covered(d, Folder)')
  BY <1>1, BackIs
<1>3. /\ Polled(d) \in Ops /\ row[d] \in [Ids -> Rows]
      /\ row \in [Devices -> [Ids -> Rows]]
      /\ \A id \in Ids : row[d][id].st # "none" => row[d][id].at # Gone
  BY <1>1, PolledIs
<1>4. CASE row' = row
  BY <1>1, <1>2, <1>3, <1>4, RowStays, RowOnly
<1>5. CASE row' = [row EXCEPT ![d] = rows]
  <2>1. \A p \in Places : /\ Known(p, "synced") \in Rows /\ Known(p, "synced").st = "synced"
                          /\ Known(p, "synced").at = p /\ p # Gone
    BY Two DEF Known, Rows, States
  <2>2. f \in Rows /\ f.st = "synced" /\ f.at # Gone
    BY <1>3, <2>1 DEF Ops
  <2>3. /\ Known("in", "synced") \in Rows /\ Known("in", "synced").st = "synced"
        /\ Known("in", "synced").at # Gone
    BY <2>1, Two
  <2> HIDE DEF f
  <2>4. /\ rows \in [Ids -> Rows] /\ rows[Folder] = f
        /\ rows[Note] = IF back THEN Known("in", "synced") ELSE row[d][Note]
    BY <1>3, <2>2, <2>3, Two
  <2> HIDE DEF rows
  <2>5. QED
    BY <1>1, <1>2, <1>5, <2>2, <2>3, <2>4, Appears
<1>6. QED
  BY <1>1, <1>4, <1>5

(* A folder another device deleted: a note inside is removed only as the     *)
(* bucket had it.                                                            *)
LEMMA PollDeleteInv ==
  ASSUME IInv, NEW d \in Devices, PollDelete(d)
  PROVE  IInv'
<1> DEFINE changed == Inside(d) # {Folder} /\ row[d][Note].st # "synced"
           ids == IF changed THEN {Folder} ELSE Inside(d)
           rows == Marked(d, ids, "removed")
<1>1. /\ bucket' = bucket /\ journal' = journal /\ mishaps' = mishaps
      /\ Polling(d) /\ cursor' = cursor /\ Shown
      /\ row' = row \/ (row' = [row EXCEPT ![d] = rows] /\ Live(d, Folder))
  BY DEF PollDelete, Polls, Polling, Working, Safe, history, Shown
<1>2. /\ row[d] \in [Ids -> Rows] /\ row \in [Devices -> [Ids -> Rows]]
      /\ \A id \in Ids : row[d][id].st # "none" => row[d][id].at # Gone
  BY <1>1, PolledIs
<1>3. CASE row' = row
  BY <1>1, <1>2, <1>3, RowStays, RowOnly
<1>4. CASE row' = [row EXCEPT ![d] = rows] /\ Live(d, Folder)
  <2>1. ids \in SUBSET Ids /\ \A id \in ids : row[d][id].at # Gone
    BY <1>4, InsideIs
  <2>2. Note \in ids => row[d][Note].st = "synced"
    BY Two DEF Inside
  <2> HIDE DEF ids
  <2>3. /\ rows \in [Ids -> Rows]
        /\ \A id \in ids : rows[id].st = "removed" /\ rows[id].at = row[d][id].at
        /\ \A id \in Ids \ ids : rows[id] = row[d][id]
    BY <2>1, MarkedIs DEF States
  <2> HIDE DEF rows
  <2>4. /\ row' \in [Devices -> [Ids -> Rows]] /\ row'[d] = rows
        /\ \A e \in Devices \ {d} : row'[e] = row[e]
    BY <1>2, <1>4, <2>3
  <2>5. ASSUME NEW id \in Ids
        PROVE  row'[d][id].st = "synced" \/ (id = Note /\ row'[d][id].st = "removed")
                 => Covered(d, id)'
    <3>1. CASE id \notin ids
      <4>1. row'[d][id].st = row[d][id].st
        BY <2>3, <2>4, <3>1
      <4>2. QED
        BY <1>1, <4>1, RowStays
    <3>2. CASE id \in ids /\ id = Note
      <4>1. Covered(d, Note)
        BY <2>2, <3>2 DEF IInv, RowInv
      <4>2. QED
        BY <1>1, <3>2, <4>1, CoveredStays
    <3>3. CASE id \in ids /\ id # Note
      BY <2>3, <2>4, <3>3
    <3>4. QED
      BY <3>1, <3>2, <3>3
  <2>6. \A id \in Ids : /\ row'[d][id].st # "none" => row'[d][id].at # Gone
                        /\ row[d][id].st # "none" => row'[d][id].st # "none"
    BY <1>2, <2>1, <2>3, <2>4
  <2>7. QED
    BY <1>1, <2>4, <2>5, <2>6, RowOnly
<1>5. QED
  BY <1>1, <1>3, <1>4

(* A revision of the note changes nothing here. *)
LEMMA PollWriteInv ==
  ASSUME IInv, NEW d \in Devices, PollWrite(d)
  PROVE  IInv'
<1>1. /\ bucket' = bucket /\ journal' = journal /\ mishaps' = mishaps
      /\ Polling(d) /\ cursor' = cursor /\ Shown /\ row' = row
  BY DEF PollWrite, Polls, Polling, Working, Safe, history, Shown
<1>2. /\ row \in [Devices -> [Ids -> Rows]]
      /\ \A id \in Ids : row[d][id].st # "none" => row[d][id].at # Gone
  BY <1>1, PolledIs
<1>3. QED
  BY <1>1, <1>2, RowStays, RowOnly

-----------------------------------------------------------------------------
(* Expired records.                                                        *)

(* What neither writes the log, the tree, a journal or an index, nor moves a *)
(* run, keeps all that is said of them (notes_intake.rs).                    *)
LEMMA Framed ==
  ASSUME IInv, log' = log, tree' = tree, journal' = journal, row' = row, run' = run,
         cursor' = cursor, Shown, Ranges', (tomb # None => Named(tomb))'
  PROVE  IInv'
<1>0. log \in Seq(Ops) /\ TreeInv /\ LogInv /\ JournalInv /\ RowInv /\ PlaceInv
  BY DEF IInv, Ranges
<1>1. JournalKept /\ JournalGrows /\ LogGrows
  <2>1. \A e \in Devices : Len(journal[e]) \in Nat
    BY DEF IInv, Ranges
  <2>2. QED
    BY <2>1 DEF JournalKept, JournalGrows, LogGrows
<1>2. TreeInv' /\ LogInv' /\ JournalInv' /\ RowInv' /\ PlaceInv'
  BY <1>0, <1>1, TreeSame, LogSame, ShapeKept, RowSame
<1>3. \A e \in Devices : RunInv(e)' /\ cursor'[e] <= Len(log')
  <2> SUFFICES ASSUME NEW e \in Devices PROVE RunInv(e)' /\ cursor'[e] <= Len(log')
    OBVIOUS
  <2>1. RunInv(e) /\ cursor[e] <= Len(log)
    BY DEF IInv
  <2>2. QED
    BY <2>1 DEF RunInv, OwnOp, NotOlder, Waiting
<1>4. QED
  BY <1>2, <1>3 DEF IInv

(* The record of a deletion expires, is found and is removed (maintenance). *)
LEMMA ExpiryInv ==
  ASSUME IInv, Age \/ FindExpired \/ CollectRecord
  PROVE  IInv'
<1>1. /\ log' = log /\ tree' = tree /\ journal' = journal /\ run' = run
      /\ row' = row /\ cursor' = cursor /\ Shown /\ tomb' \in {tomb, None}
      /\ mishaps' = mishaps \/ Happens("age")
      /\ \/ tomb # None /\ expiry' = [expiry EXCEPT !.over = @ \cup {<<tomb.dev, tomb.req>>}]
         \/ expiry' = [expiry EXCEPT !.found = tomb]
         \/ expiry' = [expiry EXCEPT !.found = None]
  BY DEF Age, FindExpired, CollectRecord, Safe, history, Shown
<1>2. /\ tomb \in Records /\ expiry \in [over : SUBSET (Devices \X Nat), found : Records]
      /\ log \in Seq(Ops) /\ TreeInv /\ LogInv /\ JournalInv /\ RowInv /\ PlaceInv
  BY DEF IInv, Ranges
<1>3. None \in Records
  BY DEF Records
<1>4. expiry' \in [over : SUBSET (Devices \X Nat), found : Records]
  <2>1. CASE tomb # None /\ expiry' = [expiry EXCEPT !.over = @ \cup {<<tomb.dev, tomb.req>>}]
    <3>1. <<tomb.dev, tomb.req>> \in Devices \X Nat
      BY <1>2, <2>1 DEF Records
    <3>2. expiry.over \cup {<<tomb.dev, tomb.req>>} \in SUBSET (Devices \X Nat)
      BY <1>2, <3>1
    <3>3. QED
      BY <1>2, <2>1, <3>2
  <2>2. CASE expiry' = [expiry EXCEPT !.found = tomb] \/ expiry' = [expiry EXCEPT !.found = None]
    BY <1>2, <1>3, <2>2
  <2>3. QED
    BY <1>1, <2>1, <2>2
<1>5. /\ mishaps' \subseteq Mishaps /\ IsFiniteSet(mishaps')
      /\ Cardinality(mishaps') <= MaxMishaps
  <2>1. CASE mishaps' = mishaps
    BY <2>1 DEF IInv, Ranges
  <2>2. CASE Happens("age")
    BY <2>2, HappensIs
  <2>3. QED
    BY <1>1, <2>1, <2>2
<1>6. Ranges'
  BY <1>1, <1>2, <1>3, <1>4, <1>5 DEF IInv, Ranges, Shown
<1>7. (tomb # None => Named(tomb))'
  BY <1>1 DEF IInv, Named
<1>8. QED
  BY <1>1, <1>6, <1>7, Framed

-----------------------------------------------------------------------------
(* The invariant, and what follows from it.                                *)

(* Every device begins with what is known everywhere. *)
LEMMA InitIInv == Init => IInv
<1> SUFFICES ASSUME Init PROVE IInv
  OBVIOUS
<1>1. PICK shared \in BOOLEAN :
        LET at == [id \in Ids |-> IF id = Note THEN IF shared THEN "in" ELSE "out"
                                  ELSE IF shared THEN "a" ELSE Gone]
            created(id) == Op(id, "create", at[id], "earlier", 0)
        IN
        /\ log = IF shared THEN <<created(Folder), created(Note)>> ELSE <<created(Note)>>
        /\ tree = [id \in Ids |-> [at |-> at[id], ver |-> 0, op |-> 0]]
        /\ row = [d \in Devices |-> [id \in Ids |->
                    Known(at[id], IF at[id] = Gone THEN "none" ELSE "synced")]]
        /\ tomb = None /\ expiry = [over |-> {}, found |-> None]
        /\ journal = [d \in Devices |-> <<>>]
        /\ run = [d \in Devices |-> Rest]
        /\ cursor = [d \in Devices |-> Len(log)]
        /\ mishaps = {} /\ exposed = {} /\ hidden = {}
  BY DEF Init
<1> DEFINE at == [id \in Ids |-> IF id = Note THEN IF shared THEN "in" ELSE "out"
                                 ELSE IF shared THEN "a" ELSE Gone]
           created(id) == Op(id, "create", at[id], "earlier", 0)
<1>2. /\ at \in [Ids -> Ats] /\ at[Note] \in Places /\ at[Note] # Gone
      /\ shared => at[Folder] \in Places
      /\ Folder \in Ids /\ Note \in Ids /\ Folder # Note
  <2>1. /\ Folder \in Ids /\ Note \in Ids /\ Folder # Note
        /\ "in" \in Places /\ "out" \in Places /\ "a" \in Places /\ Gone \notin Places
        /\ Gone \in Ats /\ Places \subseteq Ats
    BY Two
  <2>2. QED
    BY <2>1
<1> HIDE DEF at
<1>3. log \in Seq(Ops) /\ \A n \in DOMAIN log : log[n].req = 0
  <2>1. created(Note) \in Ops /\ created(Note).req = 0
    BY <1>2 DEF Op, Ops, OpKinds
  <2>2. shared => created(Folder) \in Ops /\ created(Folder).req = 0
    BY <1>2 DEF Op, Ops, OpKinds
  <2>3. log = IF shared THEN <<created(Folder), created(Note)>> ELSE <<created(Note)>>
    BY <1>1 DEF at
  <2> HIDE DEF created
  <2>4. CASE shared
    BY <2>1, <2>2, <2>3, <2>4
  <2>5. CASE ~shared
    BY <2>1, <2>3, <2>5
  <2>6. QED
    BY <2>4, <2>5
<1>4. /\ tree = [id \in Ids |-> [at |-> at[id], ver |-> 0, op |-> 0]]
      /\ row = [d \in Devices |-> [id \in Ids |->
                  Known(at[id], IF at[id] = Gone THEN "none" ELSE "synced")]]
  BY <1>1 DEF at
<1>5. tree \in [Ids -> Entries] /\ \A id \in Ids : tree[id].op = 0
  BY <1>2, <1>4 DEF Entries
<1>6. /\ row \in [Devices -> [Ids -> Rows]]
      /\ \A d \in Devices, id \in Ids : row[d][id].st # "none" => row[d][id].at # Gone
  <2>1. \A p \in Ats : /\ Known(p, IF p = Gone THEN "none" ELSE "synced") \in Rows
                       /\ Known(p, IF p = Gone THEN "none" ELSE "synced").at = p
                       /\ p = Gone => Known(p, IF p = Gone THEN "none" ELSE "synced").st = "none"
    BY DEF Known, Rows, States
  <2>2. QED
    BY <1>2, <1>4, <2>1
<1>7. /\ journal \in [Devices -> Seq(Intents)]
      /\ \A d \in Devices : DOMAIN journal[d] = {} /\ Len(journal[d]) = 0
  BY <1>1
<1>8. /\ run \in [Devices -> Runs]
      /\ \A d \in Devices : run[d].pc = "rest" /\ run[d].i = 0 /\ run[d].upto = 0
  <2>1. Rest = [pc |-> "rest", i |-> 0, upto |-> 0, seen |-> 0, left |-> <<>>]
        /\ <<>> \in Seq(Ids)
    BY DEF Rest
  <2>2. Rest \in Runs /\ Rest.pc = "rest" /\ Rest.i = 0 /\ Rest.upto = 0
    BY <2>1 DEF Runs, Points
  <2>3. QED
    BY <1>1, <2>2
<1>9. mishaps \subseteq Mishaps /\ IsFiniteSet(mishaps) /\ Cardinality(mishaps) <= MaxMishaps
  BY <1>1, FS_EmptySet, BoundsAssumption
<1>10. /\ cursor \in [Devices -> Nat] /\ \A d \in Devices : cursor[d] <= Len(log)
  <2>1. Len(log) \in Nat
    BY <1>3
  <2>2. cursor = [d \in Devices |-> Len(log)]
    BY <1>1
  <2>3. QED
    BY <2>1, <2>2
<1>11. tomb = None /\ expiry = [over |-> {}, found |-> None] /\ None \in Records
  BY <1>1 DEF Records
<1>12. Ranges
  <2>1. expiry \in [over : SUBSET (Devices \X Nat), found : Records]
    BY <1>11
  <2>2. QED
    BY <1>1, <1>3, <1>5, <1>6, <1>7, <1>8, <1>9, <1>10, <1>11, <2>1 DEF Ranges
<1>13. JournalInv /\ LogInv /\ TreeInv
  BY <1>3, <1>5, <1>7, Two DEF JournalInv, LogInv, TreeInv, WrittenBy
<1>14. PlaceInv /\ RowInv
  BY <1>6, <1>7 DEF PlaceInv, RowInv, Covered, Pending
<1>15. \A d \in Devices : RunInv(d)
  BY <1>7, <1>8 DEF RunInv, Acting
<1>16. QED
  BY <1>10, <1>11, <1>12, <1>13, <1>14, <1>15 DEF IInv

(* Every step of the notes' replay keeps the invariant. *)
LEMMA NextIInv == IInv /\ [Next]_vars => IInv'
<1> SUFFICES ASSUME IInv, [Next]_vars PROVE IInv'
  OBVIOUS
<1>1. CASE UNCHANGED vars
  <2>1. /\ log' = log /\ tree' = tree /\ tomb' = tomb /\ expiry' = expiry /\ journal' = journal
        /\ row' = row /\ run' = run /\ cursor' = cursor /\ mishaps' = mishaps
        /\ Shown
    BY <1>1 DEF vars, bucket, history, Shown
  <2>2. Ranges'
    BY <1>1, <2>1 DEF IInv, Ranges, vars, history
  <2>3. (tomb # None => Named(tomb))'
    BY <2>1 DEF IInv, Named
  <2>4. QED
    BY <2>1, <2>2, <2>3, Framed
<1>2. ASSUME NEW d \in Devices, User(d) PROVE IInv'
  BY <1>2, CreateFolderInv, RenameInv, MoveInv, SaveInv, DeleteInv, RestoreInv DEF User
<1>3. ASSUME NEW d \in Devices, Publish(d) PROVE IInv'
  BY <1>3, BeginInv, RecordInv, ObserveInv, AttemptInv, CommitInv, CheckNewerInv,
     PutEntryInv,
     DropEntriesInv, RetireInv, MarkInv, UploadInv DEF Publish
<1>4. ASSUME NEW d \in Devices, Poll(d) PROVE IInv'
  BY <1>4, BeginPollInv, PollPlaceInv, PollCreateInv, PollDeleteInv, PollRestoreInv,
     PollWriteInv, EndInv
     DEF Poll
<1>5. ASSUME NEW d \in Devices, KeepRecord(d) \/ Stop(d) PROVE IInv'
  BY <1>5, RetireInv, EndInv
<1>6. CASE Age \/ FindExpired \/ CollectRecord
  BY <1>6, ExpiryInv
<1>7. QED
  BY <1>1, <1>2, <1>3, <1>4, <1>5, <1>6 DEF Next

(* The invariant holds in every state the specification reaches. *)
LEMMA Invariant == Spec => []IInv
<1>1. QED
  BY InitIInv, NextIInv, PTL DEF Spec

(* Every variable stays in its range, an operation and a deletion record     *)
(* name an intent, a run is at an intent not committed, and an intent is     *)
(* committed by one operation at most, also when it is tried again after a   *)
(* stop or beside the other devices (notes_intake.rs prior_commit).          *)
THEOREM TypeCorrect == Spec => []TypeOK
<1>1. IInv => TypeOK
  <2> SUFFICES ASSUME IInv PROVE TypeOK
    OBVIOUS
  <2>1. Ranges /\ (tomb # None => Named(tomb)) /\ LogInv /\ TreeInv
    BY DEF IInv
  <2>2. ASSUME NEW n \in DOMAIN log
        PROVE  /\ log[n] \in [id : Ids, kind : OpKinds, to : Places \cup {Gone},
                              dev : Devices \cup {"earlier"}, req : Nat]
               /\ log[n].req # 0 => /\ Named(log[n])
                                    /\ OwnOp(log[n].dev, log[n].req) = {n}
    <3>1. log[n] \in Ops
      BY <2>1 DEF Ranges
    <3>2. ASSUME log[n].req # 0 PROVE Named(log[n]) /\ OwnOp(log[n].dev, log[n].req) = {n}
      <4>1. CarriesOut(n)
        BY <2>1, <3>2 DEF LogInv
      <4>2. QED
        BY <4>1 DEF CarriesOut, OwnOp
    <3>3. QED
      BY <3>1, <3>2 DEF Ops
  <2>3. tree \in [Ids -> [at : Places \cup {Gone}, ver : Nat, op : 0..Len(log)]]
    <3>1. tree \in [Ids -> Entries] /\ log \in Seq(Ops)
      BY <2>1 DEF Ranges
    <3>2. \A id \in Ids : tree[id].op \in 0..Len(log)
      <4>1. \A n \in DOMAIN log : n \in 0..Len(log)
        BY <3>1
      <4>2. 0 \in 0..Len(log)
        BY <3>1
      <4>3. QED
        BY <2>1, <4>1, <4>2 DEF TreeInv, WrittenBy
    <3>3. \A id \in Ids : tree[id] \in [at : Places \cup {Gone}, ver : Nat, op : 0..Len(log)]
      BY <3>1, <3>2 DEF Entries, Ats
    <3>4. QED
      BY <3>1, <3>3
  <2>4. /\ tomb \in Records
        /\ expiry \in [over : SUBSET (Devices \X Nat), found : Records]
        /\ row \in [Devices -> [Ids -> Rows]]
        /\ hidden \subseteq Devices \X Nat \X Ids
        /\ mishaps \subseteq Mishaps /\ Cardinality(mishaps) <= MaxMishaps
    BY <2>1 DEF Ranges
  <2>5. ASSUME NEW d \in Devices
        PROVE  /\ \A i \in DOMAIN journal[d] : journal[d][i].seen \in Records
               /\ run[d].pc \in Points
               /\ run[d].upto <= Len(journal[d])
               /\ run[d].pc \in Acting =>
                    run[d].i \in DOMAIN journal[d] /\ journal[d][run[d].i].stage = "indexed"
               /\ run[d].pc = "poll" =>
                    run[d].seen <= Len(log) /\ run[d].i \in 1 .. run[d].seen + 1
               /\ cursor[d] <= Len(log)
    <3>1. run[d] \in Runs /\ RunInv(d) /\ journal[d] \in Seq(Intents) /\ cursor[d] <= Len(log)
      BY AtIntent DEF IInv
    <3>2. \A i \in DOMAIN journal[d] : journal[d][i] \in Intents
      BY <3>1
    <3>3. QED
      BY <3>1, <3>2 DEF Runs, Intents, RunInv
  <2>6. QED
    BY <2>1, <2>2, <2>3, <2>4, <2>5
       DEF TypeOK, Named, Records, Rows, Ats, States, OpKinds, Points, Acting, Working
<1>2. QED
  BY <1>1, Invariant, PTL

(* What the index calls synced has no change waiting for the bucket but      *)
(* those `hidden` names, each added by the acknowledgement, the published    *)
(* parent or the returning folder that covers it (synced_by,                 *)
(* latest_pending_sequences and ensure_remote_folder in notes_intake.rs).    *)
THEOREM SyncedHolds == Spec => []SyncedIsCommitted
<1>1. IInv => SyncedIsCommitted
  BY DEF IInv, RowInv, Covered, SyncedIsCommitted
<1>2. QED
  BY <1>1, Invariant, PTL

(* Of a step: an entry is dropped, or written by an operation after the one  *)
(* on it that wrote it before (notes_intake.rs project).                     *)
LEMMA NeverOlderStep ==
  IInv /\ [Next]_vars =>
     [\A id \in Ids : \/ tree'[id].at = Gone \/ tree'[id].op >= tree[id].op
                      \/ log[tree[id].op].id # id]_vars
<1> DEFINE Step == \A id \in Ids : \/ tree'[id].at = Gone \/ tree'[id].op >= tree[id].op
                                   \/ log[tree[id].op].id # id
<1>1. ASSUME IInv, Next PROVE Step
  <2>0. /\ log \in Seq(Ops) /\ Len(log) \in Nat /\ tree \in [Ids -> Entries]
        /\ \A n \in DOMAIN log : n \in Nat /\ n <= Len(log)
    BY <1>1 DEF IInv, Ranges
  <2>1. \A id \in Ids : tree[id].op \in Nat /\ tree[id].op <= Len(log)
    BY <1>1, <2>0 DEF IInv, TreeInv, WrittenBy, Entries
  <2>2. ASSUME tree' = tree PROVE Step
    BY <2>1, <2>2
  <2>3. ASSUME NEW i \in Ids, NEW at, tree' = Written(i, at, Len(log) + 1) PROVE Step
    <3>1. tree' = [tree EXCEPT ![i] = [at |-> at, ver |-> tree[i].ver + 1, op |-> Len(log) + 1]]
      BY <2>3 DEF Written
    <3>2. \A id \in Ids : tree'[id].op = IF id = i THEN Len(log) + 1 ELSE tree[id].op
      BY <2>0, <3>1
    <3>3. QED
      BY <2>0, <2>1, <3>2
  <2>4. ASSUME NEW d \in Devices, PutEntry(d) PROVE Step
    <3> DEFINE n == CHOOSE n \in OwnOp(d, run[d].i) : TRUE
               t == Target(d)
               at == IF t = Current(d).id THEN Current(d).to ELSE "in"
    <3>1. /\ run[d].pc = "put"
          /\ \/ tree' = Written(t, at, n) /\ tree[t].ver = run[d].seen
             \/ tree' = tree
      BY <2>4 DEF PutEntry, Working
    <3>2. n \in OwnOp(d, run[d].i) /\ n \in Nat
      BY <1>1, <3>1, OwnIs
    <3>3. t \in Ids /\ t = run[d].left[1]
      BY <1>1, <3>1, DoneIs
    <3>4. RunInv(d)
      BY <1>1 DEF IInv
    <3> HIDE DEF n, t, at
    <3>5. CASE tree' = Written(t, at, n) /\ tree[t].ver = run[d].seen
      <4>1. NotOlder(t, n)
        BY <3>1, <3>2, <3>3, <3>4, <3>5 DEF RunInv
      <4>2. tree' = [tree EXCEPT ![t] = [at |-> at, ver |-> tree[t].ver + 1, op |-> n]]
        BY <3>5 DEF Written
      <4>3. \A id \in Ids : tree'[id].op = IF id = t THEN n ELSE tree[id].op
        BY <2>0, <3>3, <4>2
      <4>4. QED
        BY <2>1, <3>2, <3>3, <4>1, <4>3 DEF NotOlder
    <3>6. QED
      BY <2>2, <3>1, <3>5
  <2>5. ASSUME NEW d \in Devices, DropEntries(d) PROVE Step
    <3> DEFINE n == CHOOSE n \in OwnOp(d, run[d].i) : TRUE
               ids == Current(d).ids
    <3>1. tree' = [id \in Ids |-> IF id \in ids
                                  THEN [at |-> Gone, ver |-> tree[id].ver + 1, op |-> n]
                                  ELSE tree[id]]
      BY <2>5 DEF DropEntries
    <3> HIDE DEF n, ids
    <3>2. \A id \in Ids : IF id \in ids THEN tree'[id].at = Gone ELSE tree'[id] = tree[id]
      BY <3>1
    <3>3. QED
      BY <2>1, <3>2
  <2>6. ASSUME NEW d \in Devices, Attempt(d) PROVE Step
    <3>1. tree' = tree \/ tree' = Written(Folder, row[d][Folder].at, Len(log) + 1)
      BY <2>6 DEF Attempt
    <3>2. QED
      BY <2>2, <2>3, <3>1, Two
  <2>7. ASSUME NEW d \in Devices, Upload(d) PROVE Step
    <3>1. tree' = Written(Note, tree[Note].at, Len(log) + 1)
      BY <2>7 DEF Upload
    <3>2. QED
      BY <2>3, <3>1, Two
  <2>8. ASSUME NEW d \in Devices,
               \/ User(d) \/ Poll(d) \/ KeepRecord(d) \/ Stop(d)
               \/ Begin(d) \/ Record(d) \/ Observe(d) \/ Commit(d) \/ CommitUnseen(d)
               \/ CheckNewer(d) \/ Retire(d) \/ Mark(d)
        PROVE  tree' = tree
    BY <2>8
       DEF User, Poll, KeepRecord, Stop, Begin, Record, Observe, Commit, CommitUnseen,
           HeadWritten, CheckNewer, Retire, Mark, CreateFolder, Rename, Move, Save, Delete,
           Restore, Change, BeginPoll, PollPlace, PollCreate, PollDelete, PollRestore,
           PollWrite, EndPoll, Polls, bucket
  <2>9. Age \/ FindExpired \/ CollectRecord => tree' = tree
    BY DEF Age, FindExpired, CollectRecord
  <2> HIDE DEF Step
  <2>10. QED
    BY <1>1, <2>2, <2>4, <2>5, <2>6, <2>7, <2>8, <2>9 DEF Next, Publish
<1>2. QED
  BY <1>1

(* A delayed projection never writes over the entry of a newer operation on  *)
(* it, on whatever device it ran and however often it stopped                *)
(* (notes_intake.rs project); only a deletion drops one unconditionally.     *)
THEOREM NeverOlderHolds == Spec => NeverOlder
<1>1. QED
  BY NeverOlderStep, Invariant, PTL DEF Spec, NeverOlder
=============================================================================
