------------------------ MODULE CompactionKeepProofs ------------------------
(***************************************************************************)
(* Machine-checked proof of what compaction promises to the two readers of *)
(* the log, for any number of devices, files and operations, any interval, *)
(* batch and number of snapshots kept, and any stops: restore-bucket finds *)
(* every operation after the snapshot it chooses, and a device that is     *)
(* heard of every operation it has not applied.                            *)
(*                                                                         *)
(* Deletions, made or recorded in the cursor, stay below what a snapshot   *)
(* covered (MostInv) and below the checkpoint of every device that did not *)
(* fall silent (HeardOf): a pass that begins to delete finds the watermark *)
(* of each at its snapshot or a later one, and watermarks are ordered as   *)
(* the snapshots and what they cover are (OrderInv).                       *)
(***************************************************************************)
EXTENDS CompactionProofs

-----------------------------------------------------------------------------
(* What is deleted, and what the snapshots hold.                           *)

\* With operations 1..m, those of k still there, the cursor c and the tasks ts,
\* nothing after operation n was deleted, or is going to be.
Under(c, n) == c.next <= n /\ \A i \in c.pending : i <= n
Low(k, m, c, ts, n) ==
  /\ \A i \in 1..m : i > n => i \in k
  /\ Under(c, n)
  /\ \A e \in Dev : Under(ts[e].cur, n) /\ \A i \in ts[e].todo : i <= n
Spares(n) == Low(kept, Tip, cursor, task, n)

\* Deletions stay below what some snapshot covered, and so does what anyone
\* read of a snapshot.
MostInv ==
  /\ most \in 0..Tip /\ Spares(most)
  /\ \A s \in Seqs : snap[s].cov <= most /\ (~snap[s].meta => snap[s].cov = 0)
  /\ \A e \in Dev : task[e].cov <= most

\* A snapshot is written for a head, under a number there is, and a batch is
\* deleted while something is left of it.
Writing == {"tree", "meta", "latest"}
WritingInv ==
  \A e \in Dev : /\ task[e].pc \in Writing => task[e].seq \in Seqs /\ task[e].head # 0
                 /\ task[e].pc = "delete" => task[e].todo # {}

\* A tree listed with no put outstanding is the tree after some operation that
\* is not before the head its snapshot is or will be for.
ListedInv ==
  \A s \in Seqs \ thin : snap[s].listed =>
     \E t \in 0..Tip :
        /\ \A f \in File : snap[s].tree[f] = LiveOf(log, t, f)
        /\ snap[s].cov <= t
        /\ \A e \in Dev : task[e].pc = "meta" /\ task[e].seq = s => task[e].head <= t

\* The newest snapshot covers most, no other number is past the next one, and
\* what is described is complete.
OrderInv ==
  /\ Described = {} => most = 0
  /\ Described # {} => snap[Newest].cov = most
  /\ \A s \in Stored : s <= Newest + 1
  /\ \A s \in Described : snap[s].listed
  /\ \A s, t \in Described : s <= t => snap[s].cov <= snap[t].cov
  /\ \A e \in Dev : /\ task[e].seq <= Newest + 1
                    /\ task[e].pc \in {"latest", "mark", "check"} => task[e].seq <= Newest
                    /\ task[e].pc = "meta" => snap[task[e].seq].listed \/ task[e].seq <= Newest
                    /\ task[e].pc = "check" =>
                         \A s \in Described : task[e].seq <= s => task[e].cov <= snap[s].cov

\* A device that never fell silent is heard of by every pass, and has applied
\* what the snapshot it names covers, and all that was or will be deleted.
HeardOf(d) ==
  /\ reg[d] = "fresh" /\ mark[d].age \in {"none", "fresh"}
  /\ Spares(ckpt[d])
  /\ mark[d].seq <= Newest
  /\ \A s \in Described : s <= mark[d].seq => snap[s].cov <= ckpt[d]
  /\ \A e \in Dev : task[e].pc = "check" /\ task[e].seq <= mark[d].seq => task[e].cov <= ckpt[d]

Begun == {"snap", "tree", "meta", "latest", "mark"}
HeardInv ==
  /\ \A d \in Dev : /\ task[d].pc \in Begun => reg[d] = "fresh"
                    /\ task[d].pc = "check" => task[d].seq # 0
                    /\ task[d].pc = "scan" => ckpt[d] <= task[d].head
                    /\ mark[d].age = "none" => mark[d].seq = 0
  /\ torn = {} => \A d \in Dev \ lapsed : HeardOf(d)

KeepInv == MostInv /\ WritingInv /\ ListedInv /\ (torn = {} => OrderInv) /\ HeardInv

-----------------------------------------------------------------------------
(* Lemmas.                                                                 *)

(* What is below n is below a later operation. *)
LEMMA LowMore ==
  ASSUME NEW k, NEW m \in Nat, NEW c \in CursorType, NEW ts \in [Dev -> TaskType],
         NEW n \in Nat, NEW l \in Nat, n <= l, Low(k, m, c, ts, n)
  PROVE  Low(k, m, c, ts, l)
<1> USE Bounds
<1>1. ASSUME NEW x \in CursorType, Under(x, n) PROVE Under(x, l)
  BY <1>1 DEF Under, CursorType, Op
<1>2. \A e \in Dev : ts[e].cur \in CursorType /\ ts[e].todo \in SUBSET Op
  BY DEF TaskType
<1>3. \A i \in 1..m : i > l => i \in k
  BY DEF Low
<1>4. \A e \in Dev : Under(ts[e].cur, l) /\ \A i \in ts[e].todo : i <= l
  BY <1>1, <1>2 DEF Low, Op
<1>5. QED
  BY <1>1, <1>3, <1>4 DEF Low

(* A device goes on to a task that deletes nothing else. *)
LEMMA LowTask ==
  ASSUME NEW k, NEW m, NEW c, NEW ts \in [Dev -> TaskType], NEW n, Low(k, m, c, ts, n),
         NEW d \in Dev, NEW t, Under(t.cur, n), \A i \in t.todo : i <= n
  PROVE  Low(k, m, c, [ts EXCEPT ![d] = t], n)
BY DEF Low

(* No task deletes nothing. *)
LEMMA LowRest ==
  ASSUME NEW k, NEW m, NEW c, NEW ts \in [Dev -> TaskType], NEW n \in Nat,
         Low(k, m, c, ts, n), NEW d \in Dev, NEW t, t.cur = NoCursor, t.todo = {}
  PROVE  Low(k, m, c, [ts EXCEPT ![d] = t], n)
<1>1. Under(NoCursor, n)
  BY DEF Under, NoCursor
<1>2. QED
  BY <1>1, LowTask

(* The newest snapshot that is described, 0 when none is. *)
LEMMA NewestIs ==
  ASSUME ShotInv
  PROVE  /\ Newest \in 0..MaxSeq /\ Described \subseteq Seqs
         /\ Described = {} => Newest = 0
         /\ Described # {} => Newest \in Described
         /\ \A s \in Described : s <= Newest
<1> USE Bounds
<1>1. Described \in SUBSET Nat /\ \A s \in Described : s <= MaxSeq
  BY DEF Described, Seqs
<1>2. Described # {} => Max(Described) \in Described /\ \A s \in Described : s <= Max(Described)
  BY <1>1, MaxOf
<1>3. QED
  BY <1>2, NewestType DEF Newest, Described

(* The newest of other snapshots, with what they have in common. *)
LEMMA NewestWhen ==
  ASSUME NEW D \in SUBSET Seqs, NEW m \in D, \A s \in D : s <= m
  PROVE  Max(D) = m
<1> USE Bounds
<1>1. D \in SUBSET Nat /\ D # {} /\ MaxSeq \in Nat /\ \A s \in D : s <= MaxSeq
  BY DEF Seqs
<1>2. Max(D) \in D /\ \A s \in D : s <= Max(D)
  BY <1>1, MaxOf
<1>3. m \in Nat /\ Max(D) \in Nat
  BY <1>1, <1>2
<1>4. QED
  BY <1>1, <1>2, <1>3

(* The parts of a task. *)
LEMMA TaskIs ==
  ASSUME Typed, NEW e \in Dev
  PROVE  /\ task[e].head \in Nat /\ task[e].seq \in Nat /\ task[e].cov \in Nat
         /\ task[e].head <= Tip /\ Tip \in Nat /\ task \in [Dev -> TaskType]
         /\ task[e] \in TaskType /\ task[e].cur \in CursorType /\ task[e].todo \in SUBSET Op
         /\ ckpt[e] \in 0..Tip /\ mark[e].seq \in Nat
BY TaskParts, Bounds DEF Typed, TaskInv, CopyInv, MarkInv, TaskType

(* No snapshot is there, and nothing was deleted, in the beginning. *)
LEMMA InitKeep == Init => KeepInv
<1> USE Bounds
<1> SUFFICES ASSUME Init PROVE KeepInv
  OBVIOUS
<1>1. /\ Tip = 0 /\ most = 0 /\ cursor = NoCursor /\ task = [e \in Dev |-> NoTask]
      /\ snap = [s \in Seqs |-> NoSnap] /\ ckpt = [d \in Dev |-> 0]
      /\ reg = [d \in Dev |-> "fresh"] /\ mark = [d \in Dev |-> NoMark]
  BY DEF Init, Tip
<1>2. /\ NoTask.pc = "idle" /\ NoTask.cur = NoCursor /\ NoTask.todo = {} /\ NoTask.seq = 0
      /\ NoTask.cov = 0 /\ NoCursor.next = 0 /\ NoCursor.pending = {}
      /\ NoMark.age = "none" /\ NoMark.seq = 0
      /\ ~NoSnap.listed /\ ~NoSnap.meta /\ NoSnap.cov = 0
  BY DEF NoTask, NoCursor, NoMark, NoSnap
<1>3. Described = {} /\ Stored = {} /\ Newest = 0
  BY <1>1, <1>2 DEF Described, Stored, Newest
<1>4. Low(kept, Tip, cursor, task, 0)
  BY <1>1, <1>2 DEF Low, Under
<1>5. MostInv /\ WritingInv /\ ListedInv
  BY <1>1, <1>2, <1>4 DEF MostInv, WritingInv, ListedInv, Spares, Writing
<1>6. OrderInv
  BY <1>1, <1>2, <1>3 DEF OrderInv
<1>7. HeardInv
  BY <1>1, <1>2, <1>3, <1>4 DEF HeardInv, HeardOf, Spares, Begun
<1>8. QED
  BY <1>5, <1>6, <1>7 DEF KeepInv

-----------------------------------------------------------------------------
(* Steps that leave the snapshots alone.                                   *)

\* What a device may go on to without reading the watermarks of the others.
Onward(d, t) ==
  \/ t = task[d]
  \/ /\ t.pc \notin {"meta", "latest", "check"} /\ t.cov <= most
     /\ t.pc = "tree" => t.seq \in Seqs /\ t.head # 0
     /\ t.pc = "delete" => t.todo # {}
     /\ t.pc = "scan" => ckpt'[d] <= t.head
     /\ torn = {} => t.seq <= Newest + 1 /\ (t.pc = "mark" => t.seq <= Newest)

(* An operation that is only appended, a device that goes on, one that falls *)
(* silent, and what the devices apply, leave the snapshots in order.         *)
LEMMA Goes ==
  ASSUME Typed, KeepInv, Typed', NEW d \in Dev, NEW t \in TaskType, Do(d, t), Onward(d, t),
         UNCHANGED <<snap, most, thin>>, torn \subseteq torn', lapsed \subseteq lapsed',
         Tip <= Tip', \A i \in 1..Tip : log'[i] = log[i],
         \A e \in Dev : ckpt[e] <= ckpt'[e],
         ckpt'[d] = ckpt[d] \/ t.pc # "scan",
         \A e \in Dev \ {d} : reg'[e] = reg[e] /\ ckpt'[e] = ckpt[e],
         t.pc \in Begun => reg'[d] = "fresh",
         \A e \in Dev : mark'[e].age = "none" => mark'[e].seq = 0,
         \A e \in Dev \ lapsed' : mark'[e] = mark[e] /\ (reg[e] = "fresh" => reg'[e] = "fresh"),
         Low(kept', Tip', cursor', task', most),
         torn = {} => \A e \in Dev \ lapsed : Low(kept', Tip', cursor', task', ckpt[e])
  PROVE  KeepInv'
<1> USE Bounds
<1>1. /\ MostInv /\ WritingInv /\ ListedInv /\ HeardInv /\ (torn = {} => OrderInv)
      /\ ShotInv /\ Tip \in Nat /\ Tip' \in Nat /\ task \in [Dev -> TaskType]
      /\ most \in 0..Tip
  BY DEF KeepInv, Typed, ShotInv, LogInv, TaskInv, Tip, MostInv
<1>2. /\ task'[d] = t /\ \A e \in Dev \ {d} : task'[e] = task[e]
      /\ snap' = snap /\ most' = most /\ thin' = thin
  BY <1>1 DEF Do
<1>3. Described' = Described /\ Stored' = Stored /\ Newest' = Newest /\ Newest \in Nat
  BY <1>1, <1>2, NewestIs DEF Described, Stored, Newest
<1>4. MostInv'
  <2>1. \A e \in Dev : task'[e].cov <= most
    BY <1>1, <1>2 DEF MostInv, Onward
  <2>2. QED
    BY <1>1, <1>2, <2>1 DEF MostInv, Spares
<1>5. WritingInv'
  BY <1>1, <1>2 DEF WritingInv, Onward, Writing
<1>6. ListedInv'
  <2> SUFFICES ASSUME NEW s \in Seqs \ thin, snap[s].listed
               PROVE  \E n \in 0..Tip' :
                        /\ \A f \in File : snap[s].tree[f] = LiveOf(log', n, f)
                        /\ snap[s].cov <= n
                        /\ \A e \in Dev : task'[e].pc = "meta" /\ task'[e].seq = s
                                            => task'[e].head <= n
    BY <1>2 DEF ListedInv
  <2>1. PICK n \in 0..Tip :
                        /\ \A f \in File : snap[s].tree[f] = LiveOf(log, n, f)
                        /\ snap[s].cov <= n
                        /\ \A e \in Dev : task[e].pc = "meta" /\ task[e].seq = s
                                            => task[e].head <= n
    BY <1>1 DEF ListedInv
  <2>2. \A f \in File : LiveOf(log', n, f) = LiveOf(log, n, f)
    <3>1. n \in Nat /\ \A i \in 1..n : log'[i] = log[i]
      BY <1>1
    <3>2. QED
      BY <3>1, SamePrefix
  <2>3. \A e \in Dev : task'[e].pc = "meta" => task'[e] = task[e]
    BY <1>2 DEF Onward
  <2>4. n \in 0..Tip'
    BY <1>1
  <2>5. QED
    BY <2>1, <2>2, <2>3, <2>4
<1>7. torn' = {} => torn = {} /\ OrderInv'
  <2> SUFFICES ASSUME torn' = {} PROVE OrderInv'
    BY DEF OrderInv
  <2>1. OrderInv /\ torn = {}
    BY <1>1
  <2>2. ASSUME NEW e \in Dev, task'[e] # task[e]
        PROVE  /\ e = d /\ task'[e].seq <= Newest + 1
               /\ task'[e].pc \notin {"meta", "latest", "check"}
               /\ (task'[e].pc = "mark" => task'[e].seq <= Newest)
    BY <1>2, <2>1, <2>2 DEF Onward
  <2>3. ASSUME NEW e \in Dev
        PROVE  /\ task'[e].seq <= Newest + 1
               /\ task'[e].pc \in {"latest", "mark", "check"} => task'[e].seq <= Newest
               /\ task'[e].pc = "meta" => snap[task'[e].seq].listed \/ task'[e].seq <= Newest
               /\ task'[e].pc = "check" =>
                    \A s \in Described : task'[e].seq <= s => task'[e].cov <= snap[s].cov
    <3>1. CASE task'[e] = task[e]
      BY <2>1, <3>1 DEF OrderInv
    <3>2. CASE task'[e] # task[e]
      BY <2>2, <3>2
    <3>3. QED
      BY <3>1, <3>2
  <2>4. QED
    BY <1>2, <1>3, <2>1, <2>3 DEF OrderInv
<1>8. HeardInv'
  <2>1. ASSUME NEW e \in Dev
        PROVE  /\ task'[e].pc \in Begun => reg'[e] = "fresh"
               /\ task'[e].pc = "check" => task'[e].seq # 0
               /\ task'[e].pc = "scan" => ckpt'[e] <= task'[e].head
    <3>1. CASE e # d
      BY <1>1, <1>2, <3>1 DEF HeardInv
    <3>2. CASE e = d
      BY <1>1, <1>2, <3>2 DEF HeardInv, Onward
    <3>3. QED
      BY <3>1, <3>2
  <2>2. ASSUME torn' = {}, NEW e \in Dev \ lapsed' PROVE HeardOf(e)'
    <3>1. torn = {} /\ e \in Dev \ lapsed /\ HeardOf(e)
      BY <1>1, <2>2 DEF HeardInv
    <3>2. /\ reg'[e] = "fresh" /\ mark'[e] = mark[e] /\ ckpt[e] <= ckpt'[e]
          /\ ckpt[e] \in Nat /\ ckpt'[e] \in Nat
      BY <1>1, <2>2, <3>1 DEF HeardOf, Typed, CopyInv
    <3>3. Low(kept', Tip', cursor', task', ckpt'[e])
      <4>1. cursor' \in CursorType /\ task' \in [Dev -> TaskType]
        BY DEF Typed, TaskInv
      <4>2. Low(kept', Tip', cursor', task', ckpt[e])
        BY <3>1
      <4>3. QED
        BY <1>1, <3>2, <4>1, <4>2, LowMore
    <3>4. \A s \in Described : s <= mark[e].seq => snap[s].cov <= ckpt'[e]
      <4>1. \A s \in Described : snap[s].cov \in Nat
        BY <1>1 DEF Described, ShotInv, SnapType
      <4>2. QED
        BY <3>1, <3>2, <4>1 DEF HeardOf
    <3>5. ASSUME NEW a \in Dev, task'[a].pc = "check", task'[a].seq <= mark[e].seq
          PROVE  task'[a].cov <= ckpt'[e]
      <4>1. task'[a] = task[a]
        BY <1>2, <3>5 DEF Onward
      <4>2. task[a].cov \in Nat
        BY TaskIs
      <4>3. QED
        BY <3>1, <3>2, <3>5, <4>1, <4>2 DEF HeardOf
    <3>6. QED
      BY <1>2, <1>3, <3>1, <3>2, <3>3, <3>4, <3>5 DEF HeardOf, Spares
  <2>3. QED
    BY <2>1, <2>2 DEF HeardInv
<1>9. QED
  BY <1>4, <1>5, <1>6, <1>7, <1>8 DEF KeepInv

(* A step that deletes nothing and takes up no deletion. *)
LEMMA KeepsLow ==
  ASSUME Typed, NEW d \in Dev, NEW t, Do(d, t), cursor' = cursor,
         \A i \in 1..Tip' : i \in kept' \/ (i \in 1..Tip /\ i \notin kept),
         \/ t.cur = NoCursor /\ t.todo = {}
         \/ t.cur = task[d].cur /\ t.todo \subseteq task[d].todo,
         NEW n \in Nat, Low(kept, Tip, cursor, task, n)
  PROVE  Low(kept', Tip', cursor', task', n)
<1>1. task \in [Dev -> TaskType] /\ task' = [task EXCEPT ![d] = t]
  BY DEF Typed, TaskInv, Do
<1>2. Under(t.cur, n) /\ \A i \in t.todo : i <= n
  <2>1. Under(task[d].cur, n) /\ \A i \in task[d].todo : i <= n
    BY DEF Low
  <2>2. Under(NoCursor, n)
    BY DEF Under, NoCursor
  <2>3. QED
    BY <2>1, <2>2
<1>3. Low(kept, Tip, cursor, task', n)
  BY <1>1, <1>2, LowTask
<1>4. QED
  BY <1>3 DEF Low

(* The steps that leave the snapshots alone and delete nothing. *)
LEMMA GoesQuietly ==
  ASSUME Typed, KeepInv, Typed', NEW d \in Dev, NEW t, Do(d, t), Onward(d, t),
         \/ t.cur = NoCursor /\ t.todo = {}
         \/ t.cur = task[d].cur /\ t.todo \subseteq task[d].todo,
         cursor' = cursor, UNCHANGED <<snap, most, thin>>,
         torn \subseteq torn', lapsed \subseteq lapsed',
         Tip <= Tip', \A i \in 1..Tip : log'[i] = log[i],
         \A i \in 1..Tip' : i \in kept' \/ (i \in 1..Tip /\ i \notin kept),
         \A e \in Dev : ckpt[e] <= ckpt'[e],
         ckpt'[d] = ckpt[d] \/ t.pc # "scan",
         \A e \in Dev \ {d} : reg'[e] = reg[e] /\ ckpt'[e] = ckpt[e],
         t.pc \in Begun => reg'[d] = "fresh",
         \A e \in Dev : mark'[e].age = "none" => mark'[e].seq = 0,
         \A e \in Dev \ lapsed' : mark'[e] = mark[e] /\ (reg[e] = "fresh" => reg'[e] = "fresh")
  PROVE  KeepInv'
<1>1. t \in TaskType
  <2>1. task' = [task EXCEPT ![d] = t] /\ task \in [Dev -> TaskType] /\ task' \in [Dev -> TaskType]
    BY DEF Typed, TaskInv, Do
  <2>2. task'[d] = t
    BY <2>1
  <2>3. QED
    BY <2>1, <2>2
<1>2. \A n \in Nat : Low(kept, Tip, cursor, task, n) => Low(kept', Tip', cursor', task', n)
  BY KeepsLow
<1>3. Low(kept', Tip', cursor', task', most)
  <2>1. most \in Nat /\ Low(kept, Tip, cursor, task, most)
    BY DEF KeepInv, MostInv, Spares, Typed, LogInv, Tip
  <2>2. QED
    BY <1>2, <2>1
<1>4. torn = {} => \A e \in Dev \ lapsed : Low(kept', Tip', cursor', task', ckpt[e])
  <2> SUFFICES ASSUME torn = {}, NEW e \in Dev \ lapsed
               PROVE  Low(kept', Tip', cursor', task', ckpt[e])
    OBVIOUS
  <2>1. ckpt[e] \in Nat /\ Low(kept, Tip, cursor, task, ckpt[e])
    BY TaskIs DEF KeepInv, HeardInv, HeardOf, Spares
  <2>2. QED
    BY <1>2, <2>1
<1>5. QED
  BY <1>1, <1>3, <1>4, Goes

(* What of the state a step of a device may leave. *)
LEMMA Begins ==
  ASSUME Typed, KeepInv
  PROVE  /\ Tip \in Nat /\ most \in Nat /\ Newest \in Nat /\ ShotInv /\ MostInv /\ WritingInv
         /\ HeardInv /\ (torn = {} => OrderInv)
         /\ \A e \in Dev : ckpt[e] <= ckpt[e] /\ (mark[e].age = "none" => mark[e].seq = 0)
         /\ \A i \in 1..Tip : i \in kept \/ (i \in 1..Tip /\ i \notin kept)
         /\ NoTask.pc = "idle" /\ NoTask.cur = NoCursor /\ NoTask.todo = {}
         /\ NoTask.seq = 0 /\ NoTask.cov = 0
BY NewestIs, Bounds
   DEF Typed, KeepInv, LogInv, CopyInv, HeardInv, Tip, MostInv, NoTask

(* Registration, the decision to write a snapshot, and LATEST. *)
LEMMA SnapGoes ==
  ASSUME Typed, KeepInv, Typed', NEW d \in Dev, MRegister(d) \/ MSnap(d) \/ MPutLatest(d)
  PROVE  KeepInv'
<1> USE Begins, TaskIs
<1>0. task[d] \in TaskType /\ task' \in [Dev -> TaskType]
  BY DEF Typed, TaskInv
<1>1. CASE MRegister(d)
  <2> DEFINE t == [NoTask EXCEPT !.pc = "snap", !.head = Tip]
  <2>1. t.pc = "snap" /\ t.cur = NoCursor /\ t.todo = {} /\ t.seq = 0 /\ t.cov = 0
    BY DEF NoTask
  <2>2. /\ Do(d, t) /\ reg' = [reg EXCEPT ![d] = "fresh"]
        /\ UNCHANGED <<log, kept, snap, most, thin, torn, cursor, mark, ckpt, lapsed>>
    BY <1>1 DEF MRegister, bucket, shots, copy
  <2> HIDE DEF t
  <2>3. reg'[d] = "fresh" /\ \A e \in Dev \ {d} : reg'[e] = reg[e]
    BY <2>2 DEF Typed, MarkInv
  <2>4. Onward(d, t)
    BY <2>1 DEF Onward
  <2>5. QED
    BY <2>1, <2>2, <2>3, <2>4, GoesQuietly DEF Tip
<1>2. CASE MSnap(d)
  <2>1. UNCHANGED <<log, kept, snap, most, thin, torn, cursor, reg, mark, ckpt, lapsed>>
    BY <1>2 DEF MSnap, bucket, shots, marks, copy
  <2>2. reg[d] = "fresh"
    BY <1>2 DEF MSnap, At, HeardInv, Begun
  <2>3. CASE Do(d, [task[d] EXCEPT !.pc = "tree", !.seq = Newest + 1])
             /\ task[d].head # 0 /\ Newest < MaxSeq
    <3> DEFINE t == [task[d] EXCEPT !.pc = "tree", !.seq = Newest + 1]
    <3>1. /\ t.pc = "tree" /\ t.cur = task[d].cur /\ t.todo = task[d].todo /\ t.seq = Newest + 1
          /\ t.cov = task[d].cov /\ t.head = task[d].head
      BY <1>0 DEF TaskType
    <3>2. Newest + 1 \in Seqs
      BY <2>3, Bounds DEF Seqs
    <3> HIDE DEF t
    <3>3. Onward(d, t)
      BY <2>3, <3>1, <3>2 DEF Onward, MostInv
    <3>4. Do(d, t)
      BY <2>3 DEF t
    <3>5. QED
      BY <2>1, <2>2, <3>1, <3>3, <3>4, GoesQuietly DEF Tip
  <2>4. CASE Do(d, [NoTask EXCEPT !.pc = "mark", !.seq = Newest])
    <3> DEFINE t == [NoTask EXCEPT !.pc = "mark", !.seq = Newest]
    <3>1. t.pc = "mark" /\ t.cur = NoCursor /\ t.todo = {} /\ t.seq = Newest /\ t.cov = 0
      BY DEF NoTask
    <3> HIDE DEF t
    <3>2. Onward(d, t)
      BY <3>1 DEF Onward
    <3>3. Do(d, t)
      BY <2>4 DEF t
    <3>4. QED
      BY <2>1, <2>2, <3>1, <3>2, <3>3, GoesQuietly DEF Tip
  <2>5. QED
    BY <1>2, <2>3, <2>4 DEF MSnap
<1>3. CASE MPutLatest(d)
  <2> DEFINE t == [NoTask EXCEPT !.pc = "mark", !.seq = task[d].seq]
  <2>1. t.pc = "mark" /\ t.cur = NoCursor /\ t.todo = {} /\ t.seq = task[d].seq /\ t.cov = 0
    BY DEF NoTask
  <2>2. /\ UNCHANGED <<log, kept, snap, most, thin, torn, cursor, reg, mark, ckpt, lapsed>>
        /\ Do(d, t) /\ task[d].pc = "latest"
    BY <1>3 DEF MPutLatest, bucket, marks, copy, At
  <2> HIDE DEF t
  <2>3. reg[d] = "fresh"
    BY <2>2 DEF HeardInv, Begun
  <2>4. torn = {} => t.seq <= Newest
    BY <2>1, <2>2 DEF OrderInv
  <2>5. Onward(d, t)
    BY <2>1, <2>4 DEF Onward
  <2>6. QED
    BY <2>1, <2>2, <2>3, <2>5, GoesQuietly DEF Tip
<1>4. QED
  BY <1>1, <1>2, <1>3

(* A stop, silence and retirement. *)
LEMMA OthersGo ==
  ASSUME Typed, KeepInv, Typed', NEW d \in Dev, Stop(d) \/ Lapse(d) \/ Retire(d)
  PROVE  KeepInv'
<1> USE Begins, TaskIs
<1>1. CASE Stop(d)
  <2>1. /\ UNCHANGED <<log, kept, snap, most, thin, cursor, reg, mark, ckpt, lapsed>>
        /\ Do(d, NoTask) /\ torn \subseteq torn'
    BY <1>1 DEF Stop, bucket, marks, copy
  <2>2. Onward(d, NoTask) /\ NoTask.pc \notin Begun
    BY DEF Onward, Begun
  <2>3. QED
    BY <2>1, <2>2, GoesQuietly DEF Tip
<1>2. CASE Lapse(d) \/ Retire(d)
  <2>1. /\ UNCHANGED <<log, kept, snap, most, thin, torn, cursor, ckpt, task>>
        /\ lapsed' = lapsed \cup {d}
        /\ \E m : mark' = [mark EXCEPT ![d] = m] /\ m.seq = mark[d].seq
                  /\ (m.age = "none" => mark[d].age = "none")
        /\ \/ reg' = reg
           \/ reg' = [reg EXCEPT ![d] = "stale"] /\ task[d].pc = "idle"
    <3>1. mark[d] \in [age : {"none", "fresh", "stale", "retired"}, seq : 0..MaxSeq]
      BY DEF Typed, MarkInv
    <3>2. CASE Lapse(d)
      <4> DEFINE m == [mark[d] EXCEPT !.age = IF @ = "fresh" THEN "stale" ELSE @]
      <4>1. mark' = [mark EXCEPT ![d] = m]
        BY <3>2 DEF Lapse
      <4>2. m.seq = mark[d].seq /\ (m.age = "none" => mark[d].age = "none")
        BY <3>1
      <4>3. QED
        BY <3>2, <4>1, <4>2 DEF Lapse, bucket, shots, copy, At
    <3>3. CASE Retire(d)
      <4> DEFINE m == [mark[d] EXCEPT !.age = "retired"]
      <4>1. mark' = [mark EXCEPT ![d] = m]
        BY <3>3 DEF Retire
      <4>2. m.seq = mark[d].seq /\ m.age = "retired"
        BY <3>1
      <4>3. QED
        BY <3>3, <4>1, <4>2 DEF Retire, bucket, shots, copy
    <3>4. QED
      BY <1>2, <3>2, <3>3
  <2>2. Do(d, task[d]) /\ Onward(d, task[d])
    <3>1. task = [task EXCEPT ![d] = task[d]]
      BY DEF Typed, TaskInv
    <3>2. QED
      BY <2>1, <3>1 DEF Do, Onward
  <2>3. \A e \in Dev : mark'[e].age = "none" => mark'[e].seq = 0
    BY <2>1 DEF Typed, MarkInv, HeardInv
  <2>4. /\ \A e \in Dev \ {d} : reg'[e] = reg[e] /\ mark'[e] = mark[e]
        /\ task[d].pc \in Begun => reg'[d] = "fresh"
    BY <2>1 DEF Typed, MarkInv, HeardInv, Begun
  <2>5. QED
    BY <2>1, <2>2, <2>3, <2>4, GoesQuietly DEF Tip
<1>3. QED
  BY <1>1, <1>2

(* The commit, the tree's entry, the poll and the scan. *)
LEMMA SyncGoes ==
  ASSUME Typed, KeepInv, Typed', NEW d \in Dev,
         Sync(d) \/ \E f \in File, kind \in {"write", "delete"} : Commit(d, f, kind)
  PROVE  KeepInv'
<1> USE Begins, TaskIs
<1>0. task[d] \in TaskType /\ task' \in [Dev -> TaskType]
  BY DEF Typed, TaskInv
<1>1. ASSUME NEW f \in File, NEW kind \in {"write", "delete"}, Commit(d, f, kind) PROVE KeepInv'
  <2> DEFINE t == [NoTask EXCEPT !.pc = "put", !.head = Tip + 1]
             op == [file |-> f, kind |-> kind]
  <2>1. t.pc = "put" /\ t.cur = NoCursor /\ t.todo = {} /\ t.seq = 0 /\ t.cov = 0
    BY DEF NoTask
  <2>2. /\ UNCHANGED <<snap, most, thin, torn, cursor, reg, mark, ckpt, lapsed>>
        /\ Do(d, t) /\ kept' = kept \cup {Tip + 1} /\ log' = Append(log, op)
    BY <1>1 DEF Commit, shots, marks
  <2> HIDE DEF t
  <2>3. log \in Seq(Operations) /\ op \in Operations
    BY DEF Typed, LogInv, Operations
  <2>4. Tip' = Tip + 1 /\ Tip <= Tip' /\ \A i \in 1..Tip : log'[i] = log[i]
    BY <2>2, <2>3 DEF Tip
  <2>5. \A i \in 1..Tip' : i \in kept' \/ (i \in 1..Tip /\ i \notin kept)
    BY <2>2, <2>4
  <2>6. Onward(d, t) /\ t.pc \notin Begun
    BY <2>1 DEF Onward, Begun
  <2>7. QED
    BY <2>1, <2>2, <2>4, <2>5, <2>6, GoesQuietly
<1>2. CASE PutEntry(d)
  <2>1. /\ UNCHANGED <<log, kept, snap, most, thin, torn, cursor, reg, mark, ckpt, lapsed>>
        /\ Do(d, NoTask)
    BY <1>2 DEF PutEntry, shots, marks, copy
  <2>2. Onward(d, NoTask) /\ NoTask.pc \notin Begun
    BY DEF Onward, Begun
  <2>3. QED
    BY <2>1, <2>2, GoesQuietly DEF Tip
<1>3. CASE Apply(d)
  <2>1. /\ UNCHANGED <<log, kept, snap, most, thin, torn, cursor, reg, mark, task, lapsed>>
        /\ ckpt' = [ckpt EXCEPT ![d] = Tip] /\ task[d].pc = "idle"
    BY <1>3 DEF Apply, bucket, shots, marks, At
  <2>2. Do(d, task[d]) /\ Onward(d, task[d]) /\ task[d].pc \notin Begun
    <3>1. task = [task EXCEPT ![d] = task[d]]
      BY DEF Typed, TaskInv
    <3>2. QED
      BY <2>1, <3>1 DEF Do, Onward, Begun
  <2>3. (\A e \in Dev : ckpt[e] <= ckpt'[e]) /\ \A e \in Dev \ {d} : ckpt'[e] = ckpt[e]
    BY <2>1 DEF Typed, CopyInv
  <2>4. QED
    BY <2>1, <2>2, <2>3, GoesQuietly DEF Tip
<1>4. CASE StartScan(d)
  <2> DEFINE t == [NoTask EXCEPT !.pc = "scan", !.head = Tip]
  <2>1. t.pc = "scan" /\ t.cur = NoCursor /\ t.todo = {} /\ t.seq = 0 /\ t.cov = 0 /\ t.head = Tip
    BY DEF NoTask
  <2>2. /\ UNCHANGED <<log, kept, snap, most, thin, torn, cursor, reg, mark, ckpt, lapsed>>
        /\ Do(d, t)
    BY <1>4 DEF StartScan, bucket, shots, marks, copy
  <2> HIDE DEF t
  <2>3. Onward(d, t) /\ t.pc \notin Begun
    BY <2>1, <2>2 DEF Onward, Begun
  <2>4. QED
    BY <2>1, <2>2, <2>3, GoesQuietly DEF Tip
<1>5. CASE ScanTree(d)
  <2>1. /\ UNCHANGED <<log, kept, snap, most, thin, torn, cursor, reg, mark, lapsed>>
        /\ Do(d, NoTask) /\ task[d].pc = "scan"
        /\ ckpt' = ckpt \/ ckpt' = [ckpt EXCEPT ![d] = task[d].head]
    BY <1>5 DEF ScanTree, bucket, shots, marks, At
  <2>2. Onward(d, NoTask) /\ NoTask.pc \notin Begun
    BY DEF Onward, Begun
  <2>3. ckpt[d] <= task[d].head
    BY <2>1 DEF HeardInv
  <2>4. (\A e \in Dev : ckpt[e] <= ckpt'[e]) /\ \A e \in Dev \ {d} : ckpt'[e] = ckpt[e]
    BY <2>1, <2>3 DEF Typed, CopyInv
  <2>5. QED
    BY <2>1, <2>2, <2>4, GoesQuietly DEF Tip
<1>6. QED
  BY <1>1, <1>2, <1>3, <1>4, <1>5 DEF Sync

-----------------------------------------------------------------------------
(* Deletions.                                                              *)

(* What a pass deletes is in the cursor or below what its snapshot covers. *)
LEMMA LoadedUnder ==
  ASSUME Typed, NEW d \in Dev, NEW n \in Nat, Under(cursor, n), task[d].cov <= n
  PROVE  Under(Loaded(d), n) /\ Loaded(d).next \in Nat /\ Loaded(d).pending \in SUBSET Nat
<1> USE Bounds
<1>1. task[d].cov \in Nat /\ task[d].seq \in Nat /\ cursor \in CursorType /\ kept \subseteq 1..Tip
  BY TaskIs DEF Typed, LogInv
<1>2. CASE Loaded(d) = cursor
  BY <1>1, <1>2 DEF CursorType, Op
<1>3. CASE Loaded(d) = [seq |-> task[d].seq, pending |-> {},
                        next |-> IF task[d].cov \in kept THEN task[d].cov - 1 ELSE 0]
  <2>1. task[d].cov \in kept => task[d].cov - 1 \in Nat
    BY <1>1
  <2>2. QED
    BY <1>1, <1>3, <2>1 DEF Under
<1>4. QED
  BY <1>2, <1>3 DEF Loaded

(* Every device that did not fall silent, or was not retired, since it was   *)
(* last heard of has applied what is about to be deleted (maintenance.rs).   *)
LEMMA ReachedMeans ==
  ASSUME Typed, KeepInv, torn = {}, NEW d \in Dev, task[d].pc = "check", Reached(task[d].seq),
         NEW e \in Dev \ lapsed
  PROVE  task[d].cov <= ckpt[e]
<1>1. HeardOf(e)
  BY DEF KeepInv, HeardInv
<1>2. e \in Registered
  BY <1>1 DEF HeardOf, Registered
<1>3. mark[e].seq >= task[d].seq
  BY <1>2 DEF Reached
<1>4. mark[e].seq \in Nat /\ task[d].seq \in Nat
  BY TaskIs
<1>5. QED
  BY <1>1, <1>3, <1>4 DEF HeardOf

LEMMA CheckGoes ==
  ASSUME Typed, KeepInv, Typed', NEW d \in Dev, MCheck(d)
  PROVE  KeepInv'
<1> USE Begins, TaskIs
<1> DEFINE c == Loaded(d)
<1>1. /\ UNCHANGED <<log, kept, snap, most, thin, torn, cursor, reg, mark, ckpt, lapsed>>
      /\ task[d].pc = "check"
  BY DEF MCheck, bucket, shots, marks, copy, At
<1>2. PICK n \in Batches(c.next) : LET batch == (c.next - n + 1)..c.next IN
        Do(d, IF Reached(task[d].seq) /\ c.pending # {}
                THEN [NoTask EXCEPT !.pc = "delete", !.todo = c.pending,
                                   !.cur = [c EXCEPT !.pending = {}]]
                ELSE IF Reached(task[d].seq) /\ c.next # 0
                THEN [NoTask EXCEPT !.pc = "save", !.todo = batch,
                       !.cur = [c EXCEPT !.next = After(c.next, n), !.pending = batch]]
                ELSE [NoTask EXCEPT !.pc = "prune"])
  BY DEF MCheck
<1> DEFINE batch == (c.next - n + 1)..c.next
           t1 == [NoTask EXCEPT !.pc = "delete", !.todo = c.pending,
                                !.cur = [c EXCEPT !.pending = {}]]
           t2 == [NoTask EXCEPT !.pc = "save", !.todo = batch,
                       !.cur = [c EXCEPT !.next = After(c.next, n), !.pending = batch]]
           t3 == [NoTask EXCEPT !.pc = "prune"]
<1>3. /\ c.next \in Nat /\ c.pending \in SUBSET Nat
      /\ \A l \in Nat : Under(cursor, l) /\ task[d].cov <= l => Under(c, l)
  <2>1. PICK l \in Nat : Under(cursor, l) /\ task[d].cov <= l
    BY DEF MostInv, Spares, Low
  <2>2. QED
    BY <2>1, LoadedUnder
<1>4. c = [seq |-> c.seq, next |-> c.next, pending |-> c.pending]
  BY DEF Loaded, CursorType, Typed
<1> HIDE DEF c
<1>5. /\ t1.pc = "delete" /\ t1.todo = c.pending /\ t1.cur.next = c.next /\ t1.cur.pending = {}
      /\ t2.pc = "save" /\ t2.todo = batch /\ t2.cur.next = After(c.next, n)
      /\ t2.cur.pending = batch
      /\ t3.pc = "prune" /\ t3.todo = {} /\ t3.cur = NoCursor
      /\ t1.seq = 0 /\ t1.cov = 0 /\ t2.seq = 0 /\ t2.cov = 0 /\ t3.seq = 0 /\ t3.cov = 0
  BY <1>4 DEF NoTask
<1>6. \/ Do(d, t1) /\ Reached(task[d].seq) /\ c.pending # {}
      \/ Do(d, t2) /\ Reached(task[d].seq)
      \/ Do(d, t3)
  BY <1>2
<1>7. n \in 0..c.next /\ After(c.next, n) \in Nat /\ After(c.next, n) <= c.next
  <2>1. n \in 0..Min({c.next, Batch})
    BY DEF Batches
  <2>2. Min({c.next, Batch}) \in {c.next, Batch} /\ Min({c.next, Batch}) <= c.next
    <3>1. c.next \in Nat /\ Batch \in Nat
      BY <1>3, Bounds
    <3>2. PICK m \in {c.next, Batch} : \A y \in {c.next, Batch} : m <= y
      BY <3>1
    <3>3. QED
      BY <3>1, <3>2 DEF Min
  <2>3. n \in 0..c.next
    BY <2>1, <2>2, <1>3, Bounds
  <2>4. QED
    BY <2>3, <1>3 DEF After
<1> HIDE DEF t1, t2, t3
<1>8. PICK t : /\ Do(d, t) /\ t.pc \in {"delete", "save", "prune"} /\ t.seq = 0 /\ t.cov = 0
               /\ t.pc = "delete" => t.todo # {}
               /\ \A l \in Nat : Under(c, l) \/ ~Reached(task[d].seq)
                                   => Under(t.cur, l) /\ \A i \in t.todo : i <= l
  <2>0. \A l \in Nat : Under(NoCursor, l)
    BY DEF Under, NoCursor
  <2>1. CASE Do(d, t1) /\ Reached(task[d].seq) /\ c.pending # {}
    <3>1. \A l \in Nat : Under(c, l) => Under(t1.cur, l) /\ \A i \in t1.todo : i <= l
      BY <1>5 DEF Under
    <3>2. QED
      BY <1>5, <2>1, <3>1
  <2>2. CASE Do(d, t2) /\ Reached(task[d].seq)
    <3>1. \A l \in Nat : Under(c, l) => Under(t2.cur, l) /\ \A i \in t2.todo : i <= l
      BY <1>3, <1>5, <1>7 DEF Under
    <3>2. QED
      BY <1>5, <2>2, <3>1
  <2>3. CASE Do(d, t3)
    BY <1>5, <2>0, <2>3
  <2>4. QED
    BY <1>6, <2>1, <2>2, <2>3
<1>9. t \in TaskType /\ task \in [Dev -> TaskType] /\ task' = [task EXCEPT ![d] = t]
  <2>1. /\ task' = [task EXCEPT ![d] = t] /\ task \in [Dev -> TaskType]
        /\ task' \in [Dev -> TaskType]
    BY <1>8 DEF Typed, TaskInv, Do
  <2>2. task'[d] = t
    BY <2>1
  <2>3. QED
    BY <2>1, <2>2
<1>10. Low(kept', Tip', cursor', task', most)
  <2>1. Low(kept, Tip, cursor, task, most) /\ task[d].cov <= most
    BY DEF MostInv, Spares
  <2>2. Under(t.cur, most) /\ \A i \in t.todo : i <= most
    BY <1>3, <1>8, <2>1 DEF Low
  <2>3. Low(kept, Tip, cursor, task', most)
    BY <1>9, <2>1, <2>2, LowTask
  <2>4. QED
    BY <1>1, <2>3 DEF Tip
<1>11. ASSUME torn = {}, NEW e \in Dev \ lapsed
       PROVE  Low(kept', Tip', cursor', task', ckpt[e])
  <2>1. Low(kept, Tip, cursor, task, ckpt[e]) /\ ckpt[e] \in Nat
    BY <1>11 DEF HeardInv, HeardOf, Spares
  <2>2. Reached(task[d].seq) => task[d].cov <= ckpt[e]
    BY <1>1, <1>11, ReachedMeans
  <2>3. Under(t.cur, ckpt[e]) /\ \A i \in t.todo : i <= ckpt[e]
    BY <1>3, <1>8, <2>1, <2>2 DEF Low
  <2>4. Low(kept, Tip, cursor, task', ckpt[e])
    BY <1>9, <2>1, <2>3, LowTask
  <2>5. QED
    BY <1>1, <2>4 DEF Tip
<1>12. Onward(d, t) /\ t.pc \notin Begun
  BY <1>8 DEF Onward, Begun
<1>13. /\ Tip <= Tip' /\ log' = log /\ ckpt' = ckpt /\ reg' = reg /\ mark' = mark
       /\ lapsed' = lapsed /\ torn' = torn /\ UNCHANGED <<snap, most, thin>>
  BY <1>1 DEF Tip
<1>14. QED
  BY <1>8, <1>9, <1>10, <1>11, <1>12, <1>13, Goes

(* The cursor is saved, an operation deleted, the cursor cleared. *)
LEMMA DeletionGoes ==
  ASSUME Typed, KeepInv, Typed', NEW d \in Dev, MSave(d) \/ MDelete(d) \/ MClear(d)
  PROVE  KeepInv'
<1> USE Begins, TaskIs
<1>1. /\ UNCHANGED <<log, snap, most, thin, torn, reg, mark, ckpt, lapsed>>
      /\ cursor' \in {cursor, task[d].cur}
  BY DEF MSave, MDelete, MClear, bucket, shots, marks, copy
<1>2. PICK i : (kept' = kept \/ (i \in task[d].todo /\ kept' = kept \ {i}))
  <2>1. CASE MDelete(d)
    <3>1. kept' = kept \ {Max(task[d].todo)} /\ task[d].todo # {}
      BY <2>1 DEF MDelete, At, WritingInv
    <3>2. Max(task[d].todo) \in task[d].todo
      <4>1. task[d].todo \in SUBSET Nat /\ \A i \in task[d].todo : i <= MaxOps
        BY Bounds DEF Op
      <4>2. QED
        BY <3>1, <4>1, Bounds, MaxOf
    <3>3. QED
      BY <3>1, <3>2
  <2>2. CASE MSave(d) \/ MClear(d)
    BY <2>2 DEF MSave, MClear, bucket
  <2>3. QED
    BY <2>1, <2>2
<1>3. PICK t : /\ Do(d, t) /\ t.pc \in {"prune", "delete", "clear"}
               /\ t.todo \subseteq task[d].todo /\ (t.pc = "delete" => t.todo # {})
               /\ t.cur = NoCursor \/ (t.cur.next = task[d].cur.next
                                       /\ t.cur.pending \subseteq task[d].cur.pending)
               /\ t.seq \in {task[d].seq, 0} /\ t.cov \in {task[d].cov, 0}
  <2>1. CASE MSave(d)
    <3> DEFINE t == [task[d] EXCEPT !.pc = IF task[d].todo = {} THEN "prune" ELSE "delete",
                                    !.cur.pending = {}]
    <3>1. /\ t.pc = IF task[d].todo = {} THEN "prune" ELSE "delete"
          /\ t.todo = task[d].todo /\ t.seq = task[d].seq /\ t.cov = task[d].cov
          /\ t.cur.next = task[d].cur.next /\ t.cur.pending = {}
      BY DEF TaskType, CursorType
    <3>2. Do(d, t)
      BY <2>1 DEF MSave
    <3> HIDE DEF t
    <3>3. QED
      BY <3>1, <3>2
  <2>2. CASE MDelete(d)
    <3> DEFINE i1 == Max(task[d].todo)
               t == [task[d] EXCEPT !.todo = @ \ {i1},
                                    !.pc = IF task[d].todo = {i1} THEN "clear" ELSE "delete"]
    <3>1. /\ t.pc = IF task[d].todo = {i1} THEN "clear" ELSE "delete"
          /\ t.todo = task[d].todo \ {i1} /\ t.seq = task[d].seq /\ t.cov = task[d].cov
          /\ t.cur = task[d].cur
      BY DEF TaskType
    <3>2. Do(d, t) /\ task[d].todo # {}
      BY <2>2 DEF MDelete, At, WritingInv
    <3> HIDE DEF t, i1
    <3>3. task[d].todo # {i1} => t.todo # {}
      BY <3>1, <3>2
    <3>4. QED
      BY <3>1, <3>2, <3>3
  <2>3. CASE MClear(d)
    <3> DEFINE t == [NoTask EXCEPT !.pc = "prune"]
    <3>1. t.pc = "prune" /\ t.todo = {} /\ t.cur = NoCursor /\ t.seq = 0 /\ t.cov = 0
      BY DEF NoTask
    <3>2. Do(d, t)
      BY <2>3 DEF MClear
    <3> HIDE DEF t
    <3>3. QED
      BY <3>1, <3>2
  <2>4. QED
    BY <2>1, <2>2, <2>3
<1>4. t \in TaskType /\ task \in [Dev -> TaskType] /\ task' = [task EXCEPT ![d] = t]
  <2>1. /\ task' = [task EXCEPT ![d] = t] /\ task \in [Dev -> TaskType]
        /\ task' \in [Dev -> TaskType]
    BY <1>3 DEF Typed, TaskInv, Do
  <2>2. task'[d] = t
    BY <2>1
  <2>3. QED
    BY <2>1, <2>2
<1>5. ASSUME NEW n \in Nat, Low(kept, Tip, cursor, task, n)
      PROVE  Low(kept', Tip', cursor', task', n)
  <2>1. Under(cursor, n) /\ Under(task[d].cur, n) /\ \A j \in task[d].todo : j <= n
    BY <1>5 DEF Low
  <2>2. Under(cursor', n)
    BY <1>1, <2>1
  <2>3. Under(t.cur, n) /\ \A j \in t.todo : j <= n
    BY <1>3, <2>1 DEF Under, NoCursor
  <2>4. Low(kept, Tip, cursor, task', n)
    BY <1>4, <1>5, <2>3, LowTask
  <2>5. \A j \in 1..Tip : j > n => j \in kept'
    BY <1>2, <1>5, <2>1 DEF Low, Op
  <2>6. Tip' = Tip
    BY <1>1 DEF Tip
  <2>7. QED
    BY <2>2, <2>4, <2>5, <2>6 DEF Low
<1>6. Low(kept', Tip', cursor', task', most)
  BY <1>5 DEF MostInv, Spares
<1>7. torn = {} => \A e \in Dev \ lapsed : Low(kept', Tip', cursor', task', ckpt[e])
  BY <1>5 DEF HeardInv, HeardOf, Spares
<1>8. torn = {} => t.seq <= Newest + 1
  BY <1>3 DEF OrderInv
<1>9. t.cov <= most
  BY <1>3 DEF MostInv
<1>10. Onward(d, t) /\ t.pc \notin Begun
  BY <1>3, <1>8, <1>9 DEF Onward, Begun
<1>11. /\ Tip <= Tip' /\ log' = log /\ ckpt' = ckpt /\ reg' = reg /\ mark' = mark
       /\ lapsed' = lapsed /\ torn' = torn /\ UNCHANGED <<snap, most, thin>>
  BY <1>1 DEF Tip
<1>12. QED
  BY <1>3, <1>4, <1>6, <1>7, <1>10, <1>11, Goes

-----------------------------------------------------------------------------
(* The writing of snapshots, the watermark, the pruning.                   *)

(* Nothing is deleted meanwhile. *)
LEMMA LowStays ==
  ASSUME Typed, KeepInv, NEW d \in Dev, NEW t, Do(d, t), UNCHANGED <<log, kept, cursor, ckpt>>,
         \/ t.cur = NoCursor /\ t.todo = {}
         \/ t.cur = task[d].cur /\ t.todo \subseteq task[d].todo
  PROVE  /\ \A n \in Nat : Low(kept, Tip, cursor, task, n) => Low(kept', Tip', cursor', task', n)
         /\ Low(kept', Tip', cursor', task', most)
         /\ torn = {} => \A e \in Dev \ lapsed : Low(kept', Tip', cursor', task', ckpt'[e])
         /\ Tip' = Tip
<1> USE Begins, TaskIs
<1>1. Tip' = Tip
  BY DEF Tip
<1>2. \A n \in Nat : Low(kept, Tip, cursor, task, n) => Low(kept', Tip', cursor', task', n)
  BY <1>1, KeepsLow
<1>3. Low(kept', Tip', cursor', task', most)
  BY <1>2 DEF MostInv, Spares
<1>4. torn = {} => \A e \in Dev \ lapsed : Low(kept', Tip', cursor', task', ckpt[e])
  BY <1>2 DEF HeardInv, HeardOf, Spares
<1>5. QED
  BY <1>1, <1>2, <1>3, <1>4

(* The tree is listed: a snapshot is there, but not described yet. *)
LEMMA PutTreeKeeps ==
  ASSUME Typed, KeepInv, Typed', NEW d \in Dev, MPutTree(d)
  PROVE  KeepInv'
<1> USE Begins, TaskIs
<1> DEFINE s == task[d].seq
           t == [task[d] EXCEPT !.pc = "meta"]
<1>1. /\ t.pc = "meta" /\ t.cur = task[d].cur /\ t.todo = task[d].todo /\ t.seq = s
      /\ t.cov = task[d].cov /\ t.head = task[d].head
  BY DEF TaskType
<1>2. /\ UNCHANGED <<log, kept, most, cursor, reg, mark, ckpt, lapsed>>
      /\ Do(d, t) /\ task[d].pc = "tree" /\ torn \subseteq torn'
      /\ snap' = [snap EXCEPT ![s].tree = tree, ![s].listed = TRUE]
      /\ thin' = IF \E f \in File : Wrong(f) THEN thin \cup {s} ELSE thin
  BY DEF MPutTree, bucket, marks, copy, At, Step
<1>3. s \in Seqs
  BY <1>2 DEF WritingInv, Writing
<1> HIDE DEF t
<1>4. task'[d] = t /\ \A e \in Dev \ {d} : task'[e] = task[e]
  BY <1>2 DEF Do
<1>5. /\ \A r \in Seqs \ {s} : snap'[r] = snap[r]
      /\ snap'[s].tree = tree /\ snap'[s].listed
      /\ snap'[s].cov = snap[s].cov /\ snap'[s].meta = snap[s].meta
  <2>1. snap[s] \in SnapType /\ snap \in [Seqs -> SnapType]
    BY <1>3 DEF ShotInv
  <2>2. QED
    BY <1>2, <1>3, <2>1 DEF SnapType
<1> HIDE DEF s
<1>6. Described' = Described /\ Newest' = Newest /\ Stored' = Stored \cup {s}
  BY <1>3, <1>5 DEF Described, Newest, Stored
<1>7. /\ Low(kept', Tip', cursor', task', most) /\ Tip' = Tip
      /\ torn = {} => \A e \in Dev \ lapsed : Low(kept', Tip', cursor', task', ckpt'[e])
  BY <1>1, <1>2, LowStays
<1>8. MostInv'
  <2>1. \A r \in Seqs : snap'[r].cov = snap[r].cov /\ snap'[r].meta = snap[r].meta
    BY <1>5
  <2>2. \A e \in Dev : task'[e].cov = task[e].cov
    BY <1>1, <1>4
  <2>3. most' = most
    BY <1>2
  <2>4. QED
    BY <1>7, <2>1, <2>2, <2>3 DEF MostInv, Spares
<1>9. WritingInv'
  <2>1. task[d].head # 0
    BY <1>2 DEF WritingInv, Writing
  <2>2. \A e \in Dev \ {d} : task'[e] = task[e]
    BY <1>4
  <2>3. t.seq \in Seqs /\ t.head # 0 /\ t.pc # "delete"
    BY <1>1, <1>3, <2>1
  <2>4. QED
    BY <1>4, <2>2, <2>3 DEF WritingInv
<1>10. ListedInv'
  <2>0. log' = log /\ Tip' = Tip
    BY <1>2, <1>7
  <2> SUFFICES ASSUME NEW r \in Seqs \ thin', snap'[r].listed
               PROVE  \E n \in 0..Tip :
                        /\ \A f \in File : snap'[r].tree[f] = LiveOf(log, n, f)
                        /\ snap'[r].cov <= n
                        /\ \A e \in Dev : task'[e].pc = "meta" /\ task'[e].seq = r
                                            => task'[e].head <= n
    BY <2>0 DEF ListedInv
  <2>1. CASE r = s
    <3>1. ~\E f \in File : Wrong(f)
      BY <1>2, <2>1
    <3>2. \A f \in File : tree[f] = LiveOf(log, Tip, f)
      BY <3>1, OfLog DEF Wrong
    <3>3. snap[s].cov <= Tip
      <4>1. snap[s].cov \in Nat /\ most <= Tip /\ snap[s].cov <= most
        BY <1>3, Bounds DEF MostInv, ShotInv, SnapType
      <4>2. QED
        BY <4>1
    <3>4. \A e \in Dev : task'[e].head <= Tip
      BY <1>1, <1>4
    <3>5. Tip \in 0..Tip
      OBVIOUS
    <3>6. QED
      BY <1>5, <2>1, <3>2, <3>3, <3>4, <3>5
  <2>2. CASE r # s
    <3>1. r \in Seqs \ thin /\ snap[r].listed /\ snap'[r] = snap[r]
      BY <1>2, <1>5, <2>2
    <3>2. \A e \in Dev : task'[e].seq = r => task'[e] = task[e]
      BY <1>1, <1>4, <2>2
    <3>3. QED
      BY <3>1, <3>2 DEF KeepInv, ListedInv
  <2>3. QED
    BY <2>1, <2>2
<1>11. ASSUME torn' = {} PROVE OrderInv'
  <2>1. OrderInv /\ torn = {}
    BY <1>2, <1>11
  <2>2. \A r \in Described : r # s => snap'[r] = snap[r]
    BY <1>5 DEF Described
  <2>3. \A r \in Described : snap'[r].cov = snap[r].cov /\ snap'[r].listed
    BY <1>5, <2>1, <2>2 DEF OrderInv
  <2>4. Described # {} => Newest \in Described
    BY NewestIs
  <2>5. ASSUME NEW e \in Dev
        PROVE  /\ task'[e].seq <= Newest + 1
               /\ task'[e].pc \in {"latest", "mark", "check"} => task'[e].seq <= Newest
               /\ task'[e].pc = "meta" => snap'[task'[e].seq].listed \/ task'[e].seq <= Newest
               /\ task'[e].pc = "check" =>
                    \A r \in Described : task'[e].seq <= r => task'[e].cov <= snap'[r].cov
    <3>1. CASE e = d
      BY <1>1, <1>4, <1>5, <2>1, <3>1 DEF OrderInv, s
    <3>2. CASE e # d
      <4>1. task'[e] = task[e]
        BY <1>4, <3>2
      <4>2. task[e].pc = "meta" /\ snap[task[e].seq].listed => snap'[task[e].seq].listed
        BY <1>5 DEF WritingInv, Writing
      <4>3. QED
        BY <2>1, <2>3, <4>1, <4>2 DEF OrderInv
    <3>3. QED
      BY <3>1, <3>2
  <2>6. \A r \in Stored \cup {s} : r <= Newest + 1
    BY <2>1 DEF OrderInv, s
  <2>7. QED
    BY <1>2, <1>6, <2>1, <2>3, <2>4, <2>5, <2>6 DEF OrderInv
<1>12. HeardInv'
  <2>1. \A e \in Dev : /\ task'[e].pc \in Begun => reg'[e] = "fresh"
                       /\ task'[e].pc = "check" => task'[e].seq # 0
                       /\ task'[e].pc = "scan" => ckpt'[e] <= task'[e].head
                       /\ mark'[e].age = "none" => mark'[e].seq = 0
    BY <1>1, <1>2, <1>4 DEF HeardInv, Begun
  <2>2. ASSUME torn' = {}, NEW e \in Dev \ lapsed PROVE HeardOf(e)'
    <3>1. HeardOf(e) /\ torn = {}
      BY <1>2, <2>2 DEF HeardInv
    <3>2. \A r \in Described : snap'[r].cov = snap[r].cov
      BY <1>5 DEF Described
    <3>3. \A a \in Dev : task'[a].pc = "check" => task'[a] = task[a]
      BY <1>1, <1>4
    <3>4. QED
      BY <1>2, <1>6, <1>7, <3>1, <3>2, <3>3 DEF HeardOf, Spares
  <2>3. QED
    BY <1>2, <2>1, <2>2 DEF HeardInv
<1>13. QED
  BY <1>8, <1>9, <1>10, <1>11, <1>12 DEF KeepInv

(* The snapshot is described, for the head the pass began with. *)
LEMMA PutMetaKeeps ==
  ASSUME Typed, KeepInv, Typed', NEW d \in Dev, MPutMeta(d)
  PROVE  KeepInv'
<1> USE Begins, TaskIs
<1> DEFINE s == task[d].seq
           h == task[d].head
           t == [task[d] EXCEPT !.pc = "latest"]
<1>1. /\ t.pc = "latest" /\ t.cur = task[d].cur /\ t.todo = task[d].todo /\ t.seq = s
      /\ t.cov = task[d].cov /\ t.head = h
  BY DEF TaskType
<1>2. /\ UNCHANGED <<log, kept, thin, cursor, reg, mark, ckpt, lapsed>>
      /\ Do(d, t) /\ task[d].pc = "meta"
      /\ snap' = [snap EXCEPT ![s].cov = h, ![s].meta = TRUE]
      /\ torn' = IF s <= Newest \/ h < most THEN torn \cup {s} ELSE torn
      /\ most' = Max({most, h})
  BY DEF MPutMeta, bucket, marks, copy, At, Step
<1>3. s \in Seqs /\ h # 0
  BY <1>2 DEF WritingInv, Writing
<1> HIDE DEF t
<1>4. task'[d] = t /\ \A e \in Dev \ {d} : task'[e] = task[e]
  BY <1>2 DEF Do
<1>5. /\ \A r \in Seqs \ {s} : snap'[r] = snap[r]
      /\ snap'[s].tree = snap[s].tree /\ snap'[s].listed = snap[s].listed
      /\ snap'[s].cov = h /\ snap'[s].meta
  <2>1. snap[s] \in SnapType /\ snap \in [Seqs -> SnapType]
    BY <1>3 DEF ShotInv
  <2>2. QED
    BY <1>2, <1>3, <2>1 DEF SnapType
<1>6. h \in Nat /\ h <= Tip /\ most <= Tip /\ s \in Nat
  BY <1>3, Bounds DEF MostInv, Seqs
<1> HIDE DEF s, h
<1>7. most' \in {most, h} /\ most <= most' /\ h <= most' /\ most' \in 0..Tip
  <2>1. PICK m \in {most, h} : \A y \in {most, h} : m >= y
    BY <1>6
  <2>2. Max({most, h}) \in {most, h} /\ \A y \in {most, h} : Max({most, h}) >= y
    BY <2>1 DEF Max
  <2>3. QED
    BY <1>2, <1>6, <2>2
<1>8. Described' = Described \cup {s} /\ Stored' = Stored \cup {s}
  BY <1>3, <1>5 DEF Described, Stored
<1>9. /\ Low(kept', Tip', cursor', task', most) /\ Tip' = Tip
      /\ torn = {} => \A e \in Dev \ lapsed : Low(kept', Tip', cursor', task', ckpt'[e])
  BY <1>1, <1>2, LowStays
<1>10. \A r \in Seqs : snap[r].cov \in Nat /\ snap[r].cov <= most
  BY Bounds DEF MostInv, ShotInv, SnapType
<1>11. MostInv'
  <2>1. Spares(most)'
    <3>1. cursor' \in CursorType /\ task' \in [Dev -> TaskType]
      BY DEF Typed, TaskInv
    <3>2. Low(kept', Tip', cursor', task', most')
      BY <1>7, <1>9, <3>1, LowMore
    <3>3. QED
      BY <3>2 DEF Spares
  <2>2. \A r \in Seqs : snap'[r].cov <= most' /\ (~snap'[r].meta => snap'[r].cov = 0)
    BY <1>5, <1>6, <1>7, <1>10 DEF MostInv
  <2>3. \A e \in Dev : task'[e].cov = task[e].cov
    BY <1>1, <1>4
  <2>4. \A e \in Dev : task'[e].cov <= most'
    BY <1>7, <2>3 DEF MostInv
  <2>5. QED
    BY <1>7, <1>9, <2>1, <2>2, <2>4 DEF MostInv
<1>12. WritingInv'
  BY <1>1, <1>2, <1>3, <1>4 DEF WritingInv, Writing, s
<1>13. ListedInv'
  <2>0. log' = log /\ Tip' = Tip /\ thin' = thin
    BY <1>2, <1>9
  <2> SUFFICES ASSUME NEW r \in Seqs \ thin, snap'[r].listed
               PROVE  \E n \in 0..Tip :
                        /\ \A f \in File : snap'[r].tree[f] = LiveOf(log, n, f)
                        /\ snap'[r].cov <= n
                        /\ \A e \in Dev : task'[e].pc = "meta" /\ task'[e].seq = r
                                            => task'[e].head <= n
    BY <2>0 DEF ListedInv
  <2>1. snap[r].listed /\ snap'[r].tree = snap[r].tree
    BY <1>5
  <2>2. PICK n \in 0..Tip :
                        /\ \A f \in File : snap[r].tree[f] = LiveOf(log, n, f)
                        /\ snap[r].cov <= n
                        /\ \A e \in Dev : task[e].pc = "meta" /\ task[e].seq = r
                                            => task[e].head <= n
    BY <2>1 DEF KeepInv, ListedInv
  <2>3. snap'[r].cov <= n
    BY <1>2, <1>5, <2>2 DEF s, h
  <2>4. \A e \in Dev : task'[e].pc = "meta" => task'[e] = task[e]
    BY <1>1, <1>4
  <2>5. QED
    BY <2>1, <2>2, <2>3, <2>4
<1>14. ASSUME torn' = {}
       PROVE  /\ torn = {} /\ OrderInv /\ s > Newest /\ h >= most /\ most' = h
              /\ Newest' = s
  <2>0. torn = {} /\ ~(s <= Newest) /\ ~(h < most)
    BY <1>2, <1>14
  <2>1. torn = {} /\ OrderInv /\ s > Newest /\ h >= most
    BY <1>6, <2>0
  <2>2. \A r \in Described : r <= s /\ r \in Seqs /\ r \in Nat
    BY <1>6, <2>1, NewestIs, Bounds DEF Seqs
  <2>3. Max(Described') = s
    <3> DEFINE D == Described \cup {s}
    <3>1. D \in SUBSET Seqs /\ s \in D /\ \A r \in D : r <= s
      BY <1>3, <1>6, <2>2
    <3> HIDE DEF D
    <3>2. Max(D) = s
      BY <3>1, NewestWhen
    <3>3. QED
      BY <1>8, <3>2 DEF D
  <2>4. Described' # {}
    BY <1>8
  <2>5. Newest' = s
    BY <2>3, <2>4 DEF Newest
  <2>6. QED
    BY <1>6, <1>7, <2>1, <2>5
<1>15. ASSUME torn' = {} PROVE OrderInv'
  <2>1. /\ torn = {} /\ OrderInv /\ s > Newest /\ h >= most /\ most' = h /\ Newest' = s
    BY <1>14, <1>15
  <2>2. snap[s].listed
    BY <1>2, <1>6, <2>1 DEF OrderInv, s
  <2>3. \A r \in Described : r # s /\ r <= Newest /\ snap'[r] = snap[r] /\ r \in Nat /\ r \in Seqs
    BY <1>5, <1>6, <2>1, NewestIs, Bounds DEF Seqs
  <2>4. ASSUME NEW a \in Described', NEW b \in Described', a <= b
        PROVE  snap'[a].cov <= snap'[b].cov
    <3>1. CASE b = s
      BY <1>5, <1>6, <1>8, <1>10, <2>1, <2>3, <3>1
    <3>2. CASE b # s
      BY <1>6, <1>8, <2>1, <2>3, <2>4, <3>2 DEF OrderInv
    <3>3. QED
      BY <3>1, <3>2
  <2>5. \A r \in Stored' : r \in Nat /\ r <= Newest' + 1
    <3>1. Stored \subseteq Nat
      BY Bounds DEF Stored, Seqs
    <3>2. \A r \in Stored : r <= Newest + 1
      BY <2>1 DEF OrderInv
    <3>3. Newest \in Nat
      OBVIOUS
    <3>4. QED
      BY <1>6, <1>8, <2>1, <3>1, <3>2, <3>3
  <2>6. \A r \in Described' : snap'[r].listed
    BY <1>5, <1>8, <2>1, <2>2, <2>3 DEF OrderInv
  <2>7. ASSUME NEW e \in Dev
        PROVE  /\ task'[e].seq <= Newest' + 1
               /\ task'[e].pc \in {"latest", "mark", "check"} => task'[e].seq <= Newest'
               /\ task'[e].pc = "meta" => snap'[task'[e].seq].listed \/ task'[e].seq <= Newest'
               /\ task'[e].pc = "check" =>
                    \A r \in Described' : task'[e].seq <= r => task'[e].cov <= snap'[r].cov
    <3>1. CASE e = d
      BY <1>1, <1>4, <1>6, <2>1, <3>1
    <3>2. CASE e # d
      <4>1. task'[e] = task[e]
        BY <1>4, <3>2
      <4>2. task[e].seq <= Newest + 1 /\ task[e].cov <= h
        BY <1>6, <2>1 DEF OrderInv, MostInv
      <4>3. task[e].pc = "meta" /\ snap[task[e].seq].listed => snap'[task[e].seq].listed
        BY <1>5 DEF WritingInv, Writing
      <4>4. ASSUME task[e].pc = "check", NEW r \in Described', task[e].seq <= r
            PROVE  task[e].cov <= snap'[r].cov
        BY <1>5, <1>8, <2>1, <2>3, <4>2, <4>4 DEF OrderInv
      <4>5. QED
        BY <1>6, <2>1, <4>1, <4>2, <4>3, <4>4 DEF OrderInv
    <3>3. QED
      BY <3>1, <3>2
  <2>8. Described' # {} /\ snap'[Newest'].cov = most'
    BY <1>5, <1>8, <2>1
  <2>9. QED
    BY <2>4, <2>5, <2>6, <2>7, <2>8 DEF OrderInv
<1>16. HeardInv'
  <2>1. \A e \in Dev : /\ task'[e].pc \in Begun => reg'[e] = "fresh"
                       /\ task'[e].pc = "check" => task'[e].seq # 0
                       /\ task'[e].pc = "scan" => ckpt'[e] <= task'[e].head
                       /\ mark'[e].age = "none" => mark'[e].seq = 0
    BY <1>1, <1>2, <1>4 DEF HeardInv, Begun
  <2>2. ASSUME torn' = {}, NEW e \in Dev \ lapsed PROVE HeardOf(e)'
    <3>1. HeardOf(e) /\ torn = {} /\ s > Newest /\ Newest' = s
      BY <1>14, <2>2 DEF HeardInv
    <3>2. \A r \in Described' : r = s \/ (r \in Described /\ snap'[r].cov = snap[r].cov)
      BY <1>5, <1>8 DEF Described
    <3>3. \A a \in Dev : task'[a].pc = "check" => task'[a] = task[a]
      BY <1>1, <1>4
    <3>4. mark[e].seq < s /\ mark[e].seq <= Newest'
      BY <1>6, <3>1 DEF HeardOf
    <3>5. \A r \in Described' : r <= mark[e].seq => snap'[r].cov <= ckpt[e]
      BY <1>6, <3>1, <3>2, <3>4 DEF HeardOf
    <3>6. QED
      BY <1>2, <1>9, <3>1, <3>3, <3>4, <3>5 DEF HeardOf, Spares
  <2>3. QED
    BY <1>2, <2>1, <2>2 DEF HeardInv
<1>17. QED
  BY <1>11, <1>12, <1>13, <1>15, <1>16 DEF KeepInv

(* The watermark is put: it names a snapshot the device has reached, or none. *)
LEMMA MarkKeeps ==
  ASSUME Typed, KeepInv, Typed', NEW d \in Dev, MMark(d)
  PROVE  KeepInv'
<1> USE Begins, TaskIs
<1> DEFINE s == task[d].seq
           q == IF Reaches(ckpt[d], Covered(s)) THEN s ELSE 0
           t == [task[d] EXCEPT !.pc = IF s = 0 THEN "prune" ELSE "check", !.cov = Covered(s)]
<1>1. /\ t.pc = (IF s = 0 THEN "prune" ELSE "check") /\ t.cov = Covered(s)
      /\ t.cur = task[d].cur /\ t.todo = task[d].todo /\ t.seq = s
  BY DEF TaskType
<1>2. /\ log' = log /\ kept' = kept /\ snap' = snap /\ most' = most /\ thin' = thin
      /\ torn' = torn /\ cursor' = cursor /\ reg' = reg /\ ckpt' = ckpt
      /\ Do(d, t) /\ task[d].pc = "mark"
      /\ mark' = [mark EXCEPT ![d] = [age |-> "fresh", seq |-> q]]
      /\ lapsed' = IF Reaches(ckpt[d], most) THEN lapsed \ {d} ELSE lapsed
  BY DEF MMark, bucket, shots, copy, At
<1>3. /\ s \in Nat /\ Covered(s) \in Nat /\ Covered(s) <= most
      /\ Covered(s) # 0 => s \in Described /\ Covered(s) = snap[s].cov
  <2>1. s \in 0..MaxSeq
    BY TaskParts
  <2>2. CASE s = 0
    BY <2>2 DEF Covered
  <2>3. CASE s # 0
    <3>1. s \in Seqs /\ Covered(s) = snap[s].cov
      BY <2>1, <2>3, Bounds DEF Seqs, Covered
    <3>2. snap[s].cov \in Nat
      BY <3>1, Bounds DEF ShotInv, SnapType
    <3>3. QED
      BY <2>1, <3>1, <3>2, Bounds DEF MostInv, Described
  <2>4. QED
    BY <2>2, <2>3
<1>4. q \in Nat /\ (q # 0 => q = s /\ Covered(s) # 0 /\ Covered(s) <= ckpt[d])
  BY <1>3 DEF Reaches
<1> HIDE DEF t, q, s
<1>5. task'[d] = t /\ \A e \in Dev \ {d} : task'[e] = task[e]
  BY <1>2 DEF Do
<1>6. Described' = Described /\ Stored' = Stored /\ Newest' = Newest
  BY <1>2 DEF Described, Stored, Newest
<1>7. /\ Low(kept', Tip', cursor', task', most) /\ Tip' = Tip
      /\ torn = {} => \A e \in Dev \ lapsed : Low(kept', Tip', cursor', task', ckpt'[e])
  BY <1>1, <1>2, LowStays
<1>8. /\ mark'[d].age = "fresh" /\ mark'[d].seq = q
      /\ \A e \in Dev \ {d} : mark'[e] = mark[e]
  BY <1>2 DEF Typed, MarkInv
<1>9. MostInv'
  <2>1. \A e \in Dev : task'[e].cov <= most
    BY <1>1, <1>3, <1>5 DEF MostInv
  <2>2. QED
    BY <1>2, <1>7, <2>1 DEF MostInv, Spares
<1>10. t.pc \in {"prune", "check"}
  BY <1>1
<1>11. WritingInv'
  BY <1>5, <1>10 DEF WritingInv, Writing
<1>12. ListedInv'
  <2>1. log' = log /\ Tip' = Tip /\ thin' = thin /\ snap' = snap
    BY <1>2, <1>7
  <2>2. \A e \in Dev : task'[e].pc = "meta" => task'[e] = task[e]
    BY <1>5, <1>10
  <2>3. ListedInv
    BY DEF KeepInv
  <2> SUFFICES ASSUME NEW r \in Seqs \ thin, snap[r].listed
               PROVE  \E n \in 0..Tip :
                        /\ \A f \in File : snap[r].tree[f] = LiveOf(log, n, f)
                        /\ snap[r].cov <= n
                        /\ \A e \in Dev : task'[e].pc = "meta" /\ task'[e].seq = r
                                            => task'[e].head <= n
    BY <2>1 DEF ListedInv
  <2>4. QED
    BY <2>2, <2>3 DEF ListedInv
<1>13. ASSUME torn = {}, NEW r \in Described, s <= r PROVE Covered(s) <= snap[r].cov
  <2>1. snap[r].cov \in Nat
    BY Bounds DEF Described, ShotInv, SnapType
  <2>2. QED
    BY <1>3, <1>13, <2>1 DEF OrderInv
<1>14. ASSUME torn' = {} PROVE OrderInv'
  <2>1. OrderInv /\ torn = {}
    BY <1>2, <1>14
  <2>2. s <= Newest
    BY <1>2, <2>1 DEF OrderInv, s
  <2>3. ASSUME NEW e \in Dev
        PROVE  /\ task'[e].seq <= Newest + 1
               /\ task'[e].pc \in {"latest", "mark", "check"} => task'[e].seq <= Newest
               /\ task'[e].pc = "meta" => snap[task'[e].seq].listed \/ task'[e].seq <= Newest
               /\ task'[e].pc = "check" =>
                    \A r \in Described : task'[e].seq <= r => task'[e].cov <= snap[r].cov
    <3>1. CASE e = d
      BY <1>1, <1>3, <1>5, <1>13, <2>1, <2>2, <3>1
    <3>2. CASE e # d
      BY <1>5, <2>1, <3>2 DEF OrderInv
    <3>3. QED
      BY <3>1, <3>2
  <2>4. QED
    BY <1>2, <1>6, <2>1, <2>3 DEF OrderInv
<1>15. HeardInv'
  <2>1. reg[d] = "fresh"
    BY <1>2 DEF HeardInv, Begun
  <2>2. \A e \in Dev : /\ task'[e].pc \in Begun => reg'[e] = "fresh"
                       /\ task'[e].pc = "check" => task'[e].seq # 0
                       /\ task'[e].pc = "scan" => ckpt'[e] <= task'[e].head
                       /\ mark'[e].age = "none" => mark'[e].seq = 0
    BY <1>1, <1>2, <1>5, <1>8, <2>1 DEF HeardInv, Begun
  <2>3. ASSUME torn' = {}, NEW e \in Dev \ lapsed', e # d PROVE HeardOf(e)'
    <3>1. HeardOf(e) /\ torn = {} /\ e \in Dev \ lapsed /\ mark'[e] = mark[e]
      BY <1>2, <1>8, <2>3 DEF HeardInv
    <3>2. Low(kept', Tip', cursor', task', ckpt'[e])
      BY <1>7, <3>1
    <3>3. ASSUME NEW a \in Dev, task'[a].pc = "check", task'[a].seq <= mark[e].seq
          PROVE  task'[a].cov <= ckpt[e]
      <4>1. CASE a = d
        <5>1. task'[a].cov = Covered(s) /\ task'[a].seq = s
          BY <1>1, <1>5, <4>1
        <5>2. Covered(s) = 0 => Covered(s) <= ckpt[e]
          OBVIOUS
        <5>3. QED
          BY <1>3, <3>1, <3>3, <5>1, <5>2 DEF HeardOf
      <4>2. CASE a # d
        BY <1>5, <3>1, <3>3, <4>2 DEF HeardOf
      <4>3. QED
        BY <4>1, <4>2
    <3>4. QED
      BY <1>2, <1>6, <3>1, <3>2, <3>3 DEF HeardOf, Spares
  <2>4. ASSUME torn' = {}, d \notin lapsed' PROVE HeardOf(d)'
    <3>1. torn = {} /\ OrderInv /\ ckpt[d] \in Nat /\ ckpt'[d] = ckpt[d]
      BY <1>2, <2>4
    <3>2. Low(kept', Tip', cursor', task', ckpt'[d])
      <4>1. CASE d \notin lapsed
        BY <1>7, <3>1, <4>1
      <4>2. CASE d \in lapsed
        <5>1. most <= ckpt[d]
          BY <1>2, <2>4, <4>2 DEF Reaches
        <5>2. cursor' \in CursorType /\ task' \in [Dev -> TaskType] /\ Tip' \in Nat
          BY <1>7 DEF Typed, TaskInv
        <5>3. QED
          BY <1>7, <3>1, <5>1, <5>2, LowMore
      <4>3. QED
        BY <4>1, <4>2
    <3>3. q <= Newest
      <4>1. s \in Described => s <= Newest
        BY NewestIs
      <4>2. QED
        BY <1>3, <1>4, <4>1
    <3>4. ASSUME NEW r \in Described, r <= q PROVE snap[r].cov <= ckpt[d]
      <4>1. r \in Nat /\ r # 0 /\ snap[r].cov \in Nat
        BY Bounds DEF Described, Seqs, ShotInv, SnapType
      <4>2. q # 0 /\ q = s /\ s \in Described /\ snap[s].cov <= ckpt[d] /\ snap[s].cov \in Nat
        BY <1>3, <1>4, <3>4, <4>1
      <4>3. snap[r].cov <= snap[s].cov
        BY <3>1, <3>4, <4>2 DEF OrderInv
      <4>4. QED
        BY <4>1, <4>2, <4>3
    <3>5. ASSUME NEW a \in Dev, task'[a].pc = "check", task'[a].seq <= q
          PROVE  task'[a].cov <= ckpt[d]
      <4>1. task'[a].seq \in Nat /\ task'[a].seq # 0
        <5>1. task'[a].seq # 0
          BY <2>2, <3>5
        <5>2. task'[a].seq = s \/ task'[a].seq = task[a].seq
          BY <1>1, <1>5
        <5>3. QED
          BY <1>3, <5>1, <5>2
      <4>2. q # 0 /\ q = s /\ s \in Described /\ Covered(s) = snap[s].cov /\ Covered(s) <= ckpt[d]
        BY <1>3, <1>4, <3>5, <4>1
      <4>3. CASE a = d
        BY <1>1, <1>5, <4>2, <4>3
      <4>4. CASE a # d
        <5>1. task'[a] = task[a] /\ task[a].cov \in Nat
          BY <1>5, <4>4
        <5>2. task[a].cov <= snap[s].cov
          BY <3>1, <3>5, <4>2, <5>1 DEF OrderInv
        <5>3. QED
          BY <1>3, <3>1, <4>2, <5>1, <5>2
      <4>5. QED
        BY <4>3, <4>4
    <3>6. QED
      BY <1>2, <1>6, <1>8, <2>1, <3>1, <3>2, <3>3, <3>4, <3>5 DEF HeardOf, Spares
  <2>5. QED
    BY <2>2, <2>3, <2>4 DEF HeardInv
<1>16. QED
  BY <1>9, <1>11, <1>12, <1>14, <1>15 DEF KeepInv

(* Old snapshots are pruned. *)
LEMMA PruneKeeps ==
  ASSUME Typed, KeepInv, Typed', NEW d \in Dev, MPrune(d)
  PROVE  KeepInv'
<1> USE Begins, TaskIs
<1>1. /\ log' = log /\ kept' = kept /\ most' = most /\ thin' = thin
      /\ cursor' = cursor /\ reg' = reg /\ mark' = mark /\ ckpt' = ckpt /\ lapsed' = lapsed
      /\ Do(d, NoTask) /\ torn' = torn \cup ({Newest} \cap Superfluous)
      /\ snap' = [r \in Seqs |-> IF r \in Superfluous THEN NoSnap ELSE snap[r]]
  BY DEF MPrune, bucket, marks, copy
<1>2. task'[d] = NoTask /\ \A e \in Dev \ {d} : task'[e] = task[e]
  BY <1>1 DEF Do
<1>3. ~NoSnap.listed /\ ~NoSnap.meta /\ NoSnap.cov = 0
  BY DEF NoSnap
<1>4. \A r \in Seqs : snap'[r] = snap[r] \/ (snap'[r] = NoSnap /\ r \in Superfluous)
  BY <1>1
<1>5. Described' \subseteq Described /\ Stored' \subseteq Stored
  BY <1>3, <1>4 DEF Described, Stored
<1>6. \A r \in Described' : snap'[r] = snap[r]
  BY <1>3, <1>4 DEF Described
<1>7. /\ Low(kept', Tip', cursor', task', most) /\ Tip' = Tip
      /\ torn = {} => \A e \in Dev \ lapsed : Low(kept', Tip', cursor', task', ckpt'[e])
  BY <1>1, LowStays
<1>8. MostInv'
  <2>1. \A e \in Dev : task'[e].cov <= most
    BY <1>2 DEF MostInv
  <2>2. \A r \in Seqs : snap'[r].cov <= most /\ (~snap'[r].meta => snap'[r].cov = 0)
    BY <1>3, <1>4 DEF MostInv
  <2>3. QED
    BY <1>1, <1>7, <2>1, <2>2 DEF MostInv, Spares
<1>9. WritingInv'
  BY <1>2 DEF WritingInv, Writing
<1>10. ListedInv'
  <2>1. log' = log /\ Tip' = Tip /\ thin' = thin
    BY <1>1, <1>7
  <2>2. \A e \in Dev : task'[e].pc = "meta" => task'[e] = task[e]
    BY <1>2
  <2>3. ListedInv
    BY DEF KeepInv
  <2> SUFFICES ASSUME NEW r \in Seqs \ thin, snap'[r].listed
               PROVE  \E n \in 0..Tip :
                        /\ \A f \in File : snap'[r].tree[f] = LiveOf(log, n, f)
                        /\ snap'[r].cov <= n
                        /\ \A e \in Dev : task'[e].pc = "meta" /\ task'[e].seq = r
                                            => task'[e].head <= n
    BY <2>1 DEF ListedInv
  <2>4. snap'[r] = snap[r]
    BY <1>3, <1>4
  <2>5. QED
    BY <2>2, <2>3, <2>4 DEF ListedInv
<1>11. ASSUME torn' = {} PROVE torn = {} /\ OrderInv /\ Newest' = Newest
  <2>1. torn = {} /\ OrderInv /\ Newest \notin Superfluous
    BY <1>1, <1>11
  <2>2. CASE Described = {}
    BY <1>5, <2>1, <2>2 DEF Newest
  <2>3. CASE Described # {}
    <3>1. Newest \in Described /\ Described \subseteq Seqs /\ \A r \in Described : r <= Newest
      BY <2>3, NewestIs
    <3>2. Newest \in Described'
      BY <1>4, <2>1, <3>1 DEF Described
    <3>3. Max(Described') = Newest
      <4>1. Described' \in SUBSET Seqs /\ \A r \in Described' : r <= Newest
        BY <1>5, <3>1
      <4> DEFINE D == Described'
      <4> HIDE DEF D
      <4>2. D \in SUBSET Seqs /\ Newest \in D /\ \A r \in D : r <= Newest
        BY <3>2, <4>1 DEF D
      <4>3. Max(D) = Newest
        BY <4>2, NewestWhen
      <4>4. QED
        BY <4>3 DEF D
    <3>4. QED
      BY <2>1, <3>2, <3>3 DEF Newest
  <2>4. QED
    BY <2>2, <2>3
<1>12. ASSUME torn' = {} PROVE OrderInv'
  <2>1. torn = {} /\ OrderInv /\ Newest' = Newest
    BY <1>11, <1>12
  <2>2. ASSUME NEW r \in Superfluous PROVE r <= Newest
    <3> DEFINE above == {a \in Stored : a > r}
    <3>1. r \in Seqs /\ r \in Nat /\ Cardinality(above) >= Keep
      BY Bounds DEF Superfluous, Stored, Seqs
    <3>2. above # {}
      <4>1. above = {} => Cardinality(above) = 0
        BY FS_EmptySet
      <4> HIDE DEF above
      <4>2. QED
        BY <3>1, <4>1, Bounds
    <3>3. PICK a \in Stored : a > r
      BY <3>2
    <3>4. a \in Nat /\ a <= Newest + 1
      BY <2>1, Bounds DEF OrderInv, Stored, Seqs
    <3>5. QED
      BY <3>1, <3>3, <3>4
  <2>3. Described' = {} => Described = {}
    <3>1. CASE Described # {}
      <4>1. Newest \in Described /\ Newest \in Seqs /\ Newest \notin Superfluous
        BY <1>1, <1>12, <3>1, NewestIs
      <4>2. Newest \in Described'
        BY <1>4, <4>1 DEF Described
      <4>3. QED
        BY <4>2
    <3>2. QED
      BY <3>1
  <2>4. Described' # {} => snap'[Newest].cov = most
    <3> SUFFICES ASSUME Described' # {} PROVE snap'[Newest].cov = most
      OBVIOUS
    <3>1. Described # {} /\ Newest \in Described /\ Newest \in Seqs /\ Newest \notin Superfluous
      BY <1>1, <1>5, <1>12, NewestIs
    <3>2. snap'[Newest] = snap[Newest]
      BY <1>4, <3>1
    <3>3. QED
      BY <2>1, <3>1, <3>2 DEF OrderInv
  <2>5. ASSUME NEW e \in Dev
        PROVE  /\ task'[e].seq <= Newest + 1
               /\ task'[e].pc \in {"latest", "mark", "check"} => task'[e].seq <= Newest
               /\ task'[e].pc = "meta" => snap'[task'[e].seq].listed \/ task'[e].seq <= Newest
               /\ task'[e].pc = "check" =>
                    \A r \in Described' : task'[e].seq <= r => task'[e].cov <= snap'[r].cov
    <3>1. CASE e = d
      BY <1>2, <3>1
    <3>2. CASE e # d
      <4>1. task'[e] = task[e]
        BY <1>2, <3>2
      <4>2. ASSUME task[e].pc = "meta"
            PROVE  snap'[task[e].seq].listed \/ task[e].seq <= Newest
        <5>1. task[e].seq \in Seqs
          BY <4>2 DEF WritingInv, Writing
        <5>2. CASE snap'[task[e].seq] = snap[task[e].seq]
          BY <2>1, <4>2, <5>2 DEF OrderInv
        <5>3. CASE task[e].seq \in Superfluous
          BY <2>2, <5>3
        <5>4. QED
          BY <1>4, <5>1, <5>2, <5>3
      <4>3. ASSUME task[e].pc = "check", NEW r \in Described', task[e].seq <= r
            PROVE  task[e].cov <= snap'[r].cov
        BY <1>5, <1>6, <2>1, <4>3 DEF OrderInv
      <4>4. QED
        BY <2>1, <4>1, <4>2, <4>3 DEF OrderInv
    <3>3. QED
      BY <3>1, <3>2
  <2>6. \A r \in Stored' : r <= Newest + 1
    BY <1>5, <2>1 DEF OrderInv
  <2>7. \A r \in Described' : snap'[r].listed
    BY <1>5, <1>6, <2>1 DEF OrderInv
  <2>8. \A r, a \in Described' : r <= a => snap'[r].cov <= snap'[a].cov
    BY <1>5, <1>6, <2>1 DEF OrderInv
  <2>9. QED
    BY <1>1, <2>1, <2>3, <2>4, <2>5, <2>6, <2>7, <2>8 DEF OrderInv
<1>13. HeardInv'
  <2>1. \A e \in Dev : /\ task'[e].pc \in Begun => reg'[e] = "fresh"
                       /\ task'[e].pc = "check" => task'[e].seq # 0
                       /\ task'[e].pc = "scan" => ckpt'[e] <= task'[e].head
                       /\ mark'[e].age = "none" => mark'[e].seq = 0
    BY <1>1, <1>2 DEF HeardInv, Begun
  <2>2. ASSUME torn' = {}, NEW e \in Dev \ lapsed PROVE HeardOf(e)'
    <3>1. HeardOf(e) /\ torn = {} /\ Newest' = Newest
      BY <1>11, <2>2 DEF HeardInv
    <3>2. \A a \in Dev : task'[a].pc = "check" => task'[a] = task[a]
      BY <1>2
    <3>3. \A r \in Described' : r <= mark[e].seq => snap'[r].cov <= ckpt[e]
      BY <1>5, <1>6, <3>1 DEF HeardOf
    <3>4. Low(kept', Tip', cursor', task', ckpt'[e])
      BY <1>7, <2>2, <3>1
    <3>5. QED
      BY <1>1, <3>1, <3>2, <3>3, <3>4 DEF HeardOf, Spares
  <2>3. QED
    BY <1>1, <2>1, <2>2 DEF HeardInv
<1>14. QED
  BY <1>8, <1>9, <1>10, <1>12, <1>13 DEF KeepInv

-----------------------------------------------------------------------------
(* The invariant, and what follows from it.                                *)

(* Every step of the devices keeps the invariant. *)
LEMMA StepKeepsLog == FollowsInv /\ KeepInv /\ [Next]_vars => FollowsInv' /\ KeepInv'
<1> SUFFICES ASSUME FollowsInv, KeepInv, [Next]_vars PROVE FollowsInv' /\ KeepInv'
  OBVIOUS
<1>1. FollowsInv' /\ Typed /\ Typed'
  BY StepKeeps DEF FollowsInv
<1>2. ASSUME NEW d \in Dev, Maintain(d) PROVE KeepInv'
  BY <1>1, <1>2, SnapGoes, CheckGoes, DeletionGoes, PutTreeKeeps, PutMetaKeeps, MarkKeeps,
     PruneKeeps DEF Maintain
<1>3. ASSUME NEW d \in Dev, Stop(d) \/ Lapse(d) \/ Retire(d) PROVE KeepInv'
  BY <1>1, <1>3, OthersGo
<1>4. ASSUME NEW d \in Dev,
             Sync(d) \/ \E f \in File, kind \in {"write", "delete"} : Commit(d, f, kind)
      PROVE  KeepInv'
  BY <1>1, <1>4, SyncGoes
<1>5. CASE UNCHANGED vars
  <2>1. /\ UNCHANGED <<log, kept, cursor, snap, most, thin, torn, reg, mark, ckpt, task, lapsed>>
    BY <1>5 DEF vars, bucket, shots, marks, copy
  <2>2. /\ Tip' = Tip /\ Described' = Described /\ Stored' = Stored /\ Newest' = Newest
    BY <2>1 DEF Tip, Described, Stored, Newest
  <2>3. MostInv' /\ WritingInv' /\ ListedInv'
    BY <2>1, <2>2 DEF KeepInv, MostInv, WritingInv, ListedInv, Spares
  <2>4. torn = {} => OrderInv'
    BY <2>1, <2>2 DEF KeepInv, OrderInv
  <2>5. HeardInv'
    BY <2>1, <2>2 DEF KeepInv, HeardInv, HeardOf, Spares
  <2>6. (torn = {} => OrderInv)'
    BY <2>1, <2>4
  <2>7. QED
    BY <1>1, <2>3, <2>5, <2>6 DEF KeepInv
<1>6. QED
  BY <1>1, <1>2, <1>3, <1>4, <1>5 DEF Next

(* The invariant holds in every state the specification reaches. *)
LEMMA Keeps == Spec => [](FollowsInv /\ KeepInv)
<1>1. QED
  BY InitTyped, InitKeep, StepKeepsLog, PTL DEF Spec

(* restore-bucket chooses the snapshot LATEST names, or a tree listed before *)
(* anything was described.                                                   *)
LEMMA ChosenCovers ==
  ASSUME Typed, KeepInv, torn = {}, latest = Newest
  PROVE  /\ Covered(Chosen) = most
         /\ Chosen # 0 => /\ Chosen \in Seqs /\ snap[Chosen].listed
                          /\ Covered(Chosen) = snap[Chosen].cov
<1> USE Begins
<1> DEFINE listed == {s \in Seqs : snap[s].listed}
<1>1. OrderInv
  OBVIOUS
<1>2. \A s \in Seqs : s # 0 /\ s \in Nat /\ Covered(s) = snap[s].cov
  BY Bounds DEF Seqs, Covered
<1>3. listed # {} => Max(listed) \in listed
  <2>1. listed \in SUBSET Nat /\ \A s \in listed : s <= MaxSeq
    BY Bounds DEF Seqs
  <2>2. QED
    BY <2>1, Bounds, MaxOf
<1>4. Chosen = IF latest \in listed THEN latest ELSE IF listed = {} THEN 0 ELSE Max(listed)
  BY DEF Chosen
<1>5. Chosen # 0 => Chosen \in listed
  BY <1>3, <1>4
<1>6. CASE Described = {}
  <2>1. most = 0
    BY <1>1, <1>6 DEF OrderInv
  <2>2. Chosen # 0 => snap[Chosen].cov = 0
    BY <1>5, <1>6 DEF MostInv, Described
  <2>3. Covered(0) = 0
    BY DEF Covered
  <2>4. QED
    BY <1>2, <1>5, <2>1, <2>2, <2>3
<1>7. CASE Described # {}
  <2>1. Newest \in Described /\ snap[Newest].cov = most
    BY <1>1, <1>7, NewestIs DEF OrderInv
  <2>2. Newest \in listed
    BY <1>1, <2>1 DEF OrderInv, Described
  <2>3. Chosen = Newest
    BY <1>4, <2>2
  <2>4. QED
    BY <1>2, <2>1, <2>2, <2>3
<1>8. QED
  BY <1>6, <1>7

(* restore-bucket rebuilds the tree the log describes: from the newest       *)
(* snapshot, when each was completed and written once and in order, it finds *)
(* every later operation, and those bring the listed tree up to the head     *)
(* (restore_bucket, compact_operations, write_snapshot_for_head).            *)
THEOREM RestoreHolds == Spec => []RestoredUnlessExposed
<1>1. ASSUME FollowsInv, KeepInv PROVE RestoredUnlessExposed
  <2> SUFFICES ASSUME Chosen \notin thin, torn = {}, latest = Newest
               PROVE  RestoreReads /\ \A f \in File : Restored(f) = Live(Tip, f)
    BY DEF RestoredUnlessExposed
  <2> DEFINE c == Covered(Chosen)
  <2>1. Typed /\ MostInv /\ Tip \in Nat
    BY <1>1, Begins DEF FollowsInv
  <2>2. c = most /\ c \in 0..Tip /\ Low(kept, Tip, cursor, task, c)
    BY <1>1, <2>1, ChosenCovers DEF MostInv, Spares
  <2>3. /\ Chosen # 0 => /\ Chosen \in Seqs /\ snap[Chosen].listed
                         /\ c = snap[Chosen].cov
        /\ Chosen = 0 => c = 0
    BY <1>1, <2>1, ChosenCovers DEF Covered
  <2> HIDE DEF c
  <2>4. RestoreReads
    <3>1. \A i \in (c + 1)..Tip : i \in 1..Tip /\ i > c
      BY <2>1, <2>2
    <3>2. (c + 1)..Tip \subseteq kept
      BY <2>2, <3>1 DEF Low
    <3>3. QED
      BY <2>1, <2>2, <3>2 DEF RestoreReads, Readable, c
  <2>5. ASSUME NEW f \in File PROVE Restored(f) = LiveOf(log, Tip, f)
    <3> DEFINE on == {i \in c + 1..Tip : log[i].file = f}
    <3>1. Restored(f) = IF on # {} THEN (IF log[Max(on)].kind = "delete" THEN 0 ELSE Max(on))
                        ELSE IF Chosen = 0 THEN 0 ELSE snap[Chosen].tree[f]
      BY DEF Restored, c
    <3>2. CASE on # {}
      <4>1. Max(on) \in on /\ \A i \in on : i <= Max(on)
        <5>1. on \in SUBSET Nat /\ \A i \in on : i <= Tip
          BY <2>1, <2>2
        <5>2. QED
          BY <2>1, <3>2, <5>1, MaxOf
      <4> DEFINE m == Max(on)
      <4>2. m \in (c + 1)..Tip /\ log[m].file = f
        BY <4>1
      <4>3. ASSUME NEW i \in 1..Tip, log[i].file = f PROVE i <= m
        BY <2>1, <2>2, <4>1, <4>2, <4>3
      <4> HIDE DEF m
      <4>4. PICK x \in 1..Tip : /\ LastOn(log, Tip, f, x)
                                /\ LogOf(log, Tip, f) = IF log[x].kind = "delete" THEN Gone
                                                        ELSE x
        <5>1. m \in 1..Tip
          BY <2>1, <2>2, <4>2
        <5>2. QED
          BY <2>1, <4>2, <5>1, LogOfIs
      <4>5. x = m
        <5>1. m \in 1..Tip
          BY <2>1, <2>2, <4>2
        <5>2. m <= x /\ x <= m
          BY <4>2, <4>3, <4>4, <5>1 DEF LastOn
        <5>3. QED
          BY <2>1, <5>1, <5>2
      <4>6. LiveOf(log, Tip, f) = IF log[m].kind = "delete" THEN 0 ELSE m
        <5>1. LiveOf(log, Tip, f) = IF LogOf(log, Tip, f) = Gone THEN 0 ELSE LogOf(log, Tip, f)
          BY <2>1, LiveOfIs
        <5>2. m # Gone
          BY <2>1, <2>2, <4>2 DEF Gone
        <5>3. QED
          BY <4>4, <4>5, <5>1, <5>2
      <4>7. QED
        BY <3>1, <3>2, <4>6 DEF m
    <3>3. CASE on = {}
      <4>1. \A i \in (c + 1)..Tip : log[i].file # f
        BY <3>3
      <4>2. CASE Chosen = 0
        <5>1. c = 0
          BY <2>3, <4>2
        <5>2. \A i \in 1..Tip : log[i].file # f
          BY <4>1, <5>1
        <5>3. LogOf(log, Tip, f) = 0
          <6>1. \A x \in 1..Tip : ~LastOn(log, Tip, f, x)
            BY <5>2 DEF LastOn
          <6>2. QED
            BY <2>1, <6>1, LogOfIs
        <5>4. LiveOf(log, Tip, f) = 0
          BY <2>1, <5>3, LiveOfIs DEF Gone
        <5>5. QED
          BY <3>1, <3>3, <4>2, <5>4
      <4>3. CASE Chosen # 0
        <5>1. PICK n \in 0..Tip : /\ \A g \in File : snap[Chosen].tree[g] = LiveOf(log, n, g)
                                  /\ snap[Chosen].cov <= n
          BY <1>1, <2>3, <4>3 DEF KeepInv, ListedInv
        <5>2. n \in Nat /\ n <= Tip /\ \A i \in (n + 1)..Tip : log[i].file # f
          BY <2>1, <2>2, <2>3, <4>1, <4>3, <5>1
        <5>3. LiveOf(log, Tip, f) = LiveOf(log, n, f)
          BY <2>1, <5>2, SameUntil
        <5>4. QED
          BY <3>1, <3>3, <4>3, <5>1, <5>3
      <4>4. QED
        BY <4>2, <4>3
    <3>4. QED
      BY <3>2, <3>3
  <2>6. QED
    BY <2>4, <2>5, OfLog
<1>2. QED
  BY <1>1, Keeps, PTL

(* Of a step: a device that scans the tree was not heard of, or has applied  *)
(* nothing yet (poll_remote_changes).                                        *)
LEMMA ActiveStep ==
  FollowsInv /\ KeepInv /\ [Next]_vars =>
    [\A d \in Dev : StartScan(d) => d \in lapsed \/ ckpt[d] = 0 \/ torn # {}]_vars
<1>1. ASSUME FollowsInv, KeepInv, NEW d \in Dev, StartScan(d), d \notin lapsed, torn = {}
      PROVE  ckpt[d] = 0
  <2>1. Typed /\ Tip \in Nat /\ ckpt[d] \in 0..Tip
    BY <1>1, Begins, TaskIs DEF FollowsInv
  <2>2. Low(kept, Tip, cursor, task, ckpt[d])
    BY <1>1 DEF KeepInv, HeardInv, HeardOf, Spares
  <2>3. \A i \in (ckpt[d] + 1)..Tip : i \in kept
    BY <2>1, <2>2 DEF Low
  <2>4. Empty(d)
    BY <1>1, <2>3 DEF StartScan, Readable
  <2>5. QED
    BY <2>4 DEF Empty
<1>2. QED
  BY <1>1

(* A device that reports its progress in time never falls back to the tree:  *)
(* no pass deletes an operation it has not applied, whatever the other       *)
(* devices write, mark and delete meanwhile, and wherever they stop          *)
(* (compact_operations, put_watermark).                                      *)
THEOREM ActiveHolds == Spec => ActiveNeverRebuilds
<1>1. QED
  BY ActiveStep, Keeps, PTL DEF Spec, ActiveNeverRebuilds
=============================================================================
