-------------------------- MODULE CompactionProofs --------------------------
(***************************************************************************)
(* Machine-checked proof that the copies of a device follow the log, for   *)
(* any number of devices, files and operations, any batch, interval and    *)
(* number of snapshots kept, and any stops.                                *)
(*                                                                         *)
(* What a copy holds of a file is compared with the last operation on it.  *)
(* A copy or a tree entry names an operation on its own file (CopyInv,     *)
(* TreeInv), so a copy later than the checkpoint is not overtaken by the   *)
(* operations a poll applies; a device that scans takes a checkpoint no    *)
(* later than the head (TaskInv), and an entry that is the file's last     *)
(* operation is right for every such checkpoint.                           *)
(***************************************************************************)
EXTENDS Compaction, TLAPS, FiniteSetTheorems, WellFoundedInduction

-----------------------------------------------------------------------------
(* What the log says of a file, for any log.                               *)

(* A bounded set of naturals has the maximum that Max chooses. *)
LEMMA MaxOf ==
  ASSUME NEW S \in SUBSET Nat, S # {}, NEW n \in Nat, \A i \in S : i <= n
  PROVE  Max(S) \in S /\ \A i \in S : i <= Max(S)
<1> DEFINE above == [i \in S |-> i .. n]
           T == {above[i] : i \in S}
           R == StrictSubsetOrdering(0 .. n)
<1>1. IsFiniteSet(0 .. n) /\ FiniteSubsetsOf(0 .. n) = SUBSET (0 .. n)
  <2>1. IsFiniteSet(0 .. n)
    BY FS_Interval, 0 \in Int, n \in Int
  <2>2. FiniteSubsetsOf(0 .. n) = SUBSET (0 .. n)
    BY ONLY <2>1, FS_FiniteSubsetsOfFinite
  <2>3. QED
    BY <2>1, <2>2
<1>2. IsWellFoundedOn(R, SUBSET (0 .. n))
  BY <1>1, FS_StrictSubsetOrderingWellFounded
<1>3. T \subseteq SUBSET (0 .. n) /\ T # {}
  <2>1. \A i \in S : above[i] = i .. n /\ (i .. n) \in SUBSET (0 .. n)
    OBVIOUS
  <2>2. QED
    BY <2>1
<1>4. PICK t \in T : \A u \in T : ~(<<u, t>> \in R)
  <2> HIDE DEF T, R
  <2> QED BY <1>2, <1>3, WFMin
<1>5. PICK m \in S : t = m .. n
  OBVIOUS
<1>6. ASSUME NEW i \in S PROVE i <= m
  <2>1. SUFFICES ASSUME i > m PROVE FALSE
    OBVIOUS
  <2>2. (i .. n) \subseteq (m .. n) /\ m \in m .. n /\ m \notin i .. n
    BY <2>1
  <2>3. above[i] \in T /\ above[i] = i .. n
    OBVIOUS
  <2>4. <<i .. n, m .. n>> \in R
    <3>1. (i .. n) \in SUBSET (0 .. n) /\ (m .. n) \in SUBSET (0 .. n)
      OBVIOUS
    <3>2. <<i .. n, m .. n>> \in (SUBSET (0 .. n)) \X (SUBSET (0 .. n))
      BY <3>1
    <3>3. QED
      BY <2>2, <3>2 DEF StrictSubsetOrdering
  <2>5. QED
    BY <1>4, <1>5, <2>3, <2>4
<1>7. QED
  BY <1>5, <1>6 DEF Max

\* LogAt and Live, of the log l.
LogOf(l, n, f) ==
  LET on == {i \in 1..n : l[i].file = f}
  IN IF on = {} THEN 0 ELSE IF l[Max(on)].kind = "delete" THEN Gone ELSE Max(on)

LiveOf(l, n, f) == Max({0, LogOf(l, n, f)})

\* The last of the first n operations of l on f is m.
LastOn(l, n, f, m) ==
  m \in 1..n /\ l[m].file = f /\ \A i \in 1..n : l[i].file = f => i <= m

(* What LogOf says: nothing, or what the last operation on the file did. *)
LEMMA LogOfIs ==
  ASSUME NEW l, NEW n \in Nat, NEW f
  PROVE  \/ (\A i \in 1..n : l[i].file # f) /\ LogOf(l, n, f) = 0
         \/ \E m \in 1..n : /\ LastOn(l, n, f, m)
                            /\ LogOf(l, n, f) = IF l[m].kind = "delete" THEN Gone ELSE m
<1> DEFINE on == {i \in 1..n : l[i].file = f}
<1>1. CASE on = {}
  <2>1. LogOf(l, n, f) = 0
    BY <1>1 DEF LogOf
  <2>2. QED
    BY <1>1, <2>1
<1>2. CASE on # {}
  <2>1. Max(on) \in on /\ \A i \in on : i <= Max(on)
    <3>1. on \in SUBSET Nat /\ \A i \in on : i <= n
      OBVIOUS
    <3>2. QED
      BY <1>2, <3>1, MaxOf
  <2>2. LogOf(l, n, f) = IF l[Max(on)].kind = "delete" THEN Gone ELSE Max(on)
    BY <1>2 DEF LogOf
  <2>3. LastOn(l, n, f, Max(on))
    <3> HIDE DEF on
    <3>1. Max(on) \in 1..n /\ l[Max(on)].file = f
      BY <2>1 DEF on
    <3>2. ASSUME NEW i \in 1..n, l[i].file = f PROVE i <= Max(on)
      BY <2>1, <3>2 DEF on
    <3>3. QED
      BY <3>1, <3>2 DEF LastOn
  <2>4. QED
    BY <2>1, <2>2, <2>3
<1>3. QED
  BY <1>1, <1>2

(* The content a file has: that of the last operation unless it deletes. *)
LEMMA LiveOfIs ==
  ASSUME NEW l, NEW n \in Nat, NEW f
  PROVE  /\ LogOf(l, n, f) \in {Gone} \cup 0..n
         /\ LiveOf(l, n, f) = IF LogOf(l, n, f) = Gone THEN 0 ELSE LogOf(l, n, f)
         /\ LiveOf(l, n, f) \in 0..n
<1> DEFINE x == LogOf(l, n, f)
<1>1. x \in {Gone} \cup 0..n
  BY LogOfIs
<1>2. Gone = -1
  BY DEF Gone
<1>3. Max({0, x}) = IF x = Gone THEN 0 ELSE x
  <2> HIDE DEF x
  <2>1. PICK m \in {0, x} : \A y \in {0, x} : m >= y
    BY <1>1, <1>2
  <2>2. Max({0, x}) \in {0, x} /\ \A y \in {0, x} : Max({0, x}) >= y
    BY <2>1 DEF Max
  <2>3. QED
    BY <1>1, <1>2, <2>2
<1>4. QED
  BY <1>1, <1>2, <1>3 DEF LiveOf

(* Operations on other files change nothing. *)
LEMMA SameUntil ==
  ASSUME NEW l, NEW n \in Nat, NEW m \in Nat, n <= m, NEW f,
         \A i \in (n + 1)..m : l[i].file # f
  PROVE  LogOf(l, m, f) = LogOf(l, n, f) /\ LiveOf(l, m, f) = LiveOf(l, n, f)
<1>1. {i \in 1..m : l[i].file = f} = {i \in 1..n : l[i].file = f}
  OBVIOUS
<1>2. QED
  BY <1>1 DEF LogOf, LiveOf

(* What a log says of its first operations stays when it grows. *)
LEMMA SamePrefix ==
  ASSUME NEW l, NEW k, NEW n \in Nat, NEW f, \A i \in 1..n : k[i] = l[i]
  PROVE  LogOf(k, n, f) = LogOf(l, n, f) /\ LiveOf(k, n, f) = LiveOf(l, n, f)
<1> DEFINE on == {i \in 1..n : l[i].file = f}
<1>1. {i \in 1..n : k[i].file = f} = on
  OBVIOUS
<1>2. on # {} => k[Max(on)] = l[Max(on)]
  <2>1. on \in SUBSET Nat /\ \A i \in on : i <= n
    OBVIOUS
  <2>2. on # {} => Max(on) \in on
    BY <2>1, MaxOf
  <2>3. QED
    BY <2>2
<1>3. QED
  BY <1>1, <1>2 DEF LogOf, LiveOf

(* The last content of a file is its content at any earlier point that is  *)
(* not before it.                                                          *)
LEMMA LastStands ==
  ASSUME NEW l, NEW n \in Nat, NEW m \in Nat, n <= m, NEW f,
         LiveOf(l, m, f) > 0, LiveOf(l, m, f) <= n
  PROVE  LiveOf(l, n, f) = LiveOf(l, m, f)
<1> DEFINE x == LogOf(l, m, f)
<1>1. x # Gone /\ x = LiveOf(l, m, f) /\ x # 0
  BY LiveOfIs DEF Gone
<1>2. LastOn(l, m, f, x)
  <2>1. PICK k \in 1..m : LastOn(l, m, f, k) /\ x = IF l[k].kind = "delete" THEN Gone ELSE k
    BY <1>1, LogOfIs
  <2>2. x = k
    BY <1>1, <2>1
  <2>3. QED
    BY <2>1, <2>2
<1>3. \A i \in (n + 1)..m : l[i].file # f
  BY <1>1, <1>2 DEF LastOn
<1>4. QED
  BY <1>3, SameUntil

(* The operators of the model are those of its log. *)
LEMMA OfLog ==
  /\ \A n, f : LogAt(n, f) = LogOf(log, n, f) /\ Live(n, f) = LiveOf(log, n, f)
  /\ \A n, f : LogAt(n, f)' = LogOf(log', n, f) /\ Live(n, f)' = LiveOf(log', n, f)
BY DEF LogAt, Live, LogOf, LiveOf

-----------------------------------------------------------------------------
(* The inductive invariant.                                                *)

Operations == [file : File, kind : {"write", "delete"}]

Pcs == {"idle", "put", "scan", "snap", "tree", "meta", "latest", "mark", "check",
        "save", "delete", "clear", "prune"}

TaskType ==
  [pc : Pcs, head : 0..MaxOps, seq : 0..MaxSeq, cov : 0..MaxOps,
   cur : CursorType, todo : SUBSET Op]

LogInv == log \in Seq(Operations) /\ Tip <= MaxOps /\ kept \subseteq 1..Tip

\* A tree entry is an operation on its file, and so is a copy.
TreeInv == /\ tree \in [File -> 0..Tip]
           /\ \A f \in File : tree[f] > 0 => log[tree[f]].file = f

CopyInv == /\ ckpt \in [Dev -> 0..Tip] /\ row \in [Dev -> [File -> 0..Tip]]
           /\ \A d \in Dev, f \in File : row[d][f] > 0 => log[row[d][f]].file = f

ShotInv == snap \in [Seqs -> SnapType] /\ latest \in 0..MaxSeq

MarkInv ==
  /\ reg \in [Dev -> {"fresh", "stale"}]
  /\ mark \in [Dev -> [age : {"none", "fresh", "stale", "retired"}, seq : 0..MaxSeq]]

\* What a device is at was the head once.
TaskInv == /\ task \in [Dev -> TaskType]
           /\ \A d \in Dev : /\ task[d].head <= Tip
                             /\ task[d].pc = "put" => task[d].head # 0

Typed == LogInv /\ TreeInv /\ CopyInv /\ ShotInv /\ MarkInv /\ cursor \in CursorType /\ TaskInv

FollowsInv == Typed /\ AppliedIsApplied

\* A copy that shows operation r of file f follows the log l up to n.
Follows(l, n, f, r) ==
  \/ r = LiveOf(l, n, f)
  \/ r > n
  \/ r = 0 /\ LogOf(l, Len(l), f) = Gone

(* The property, in terms of a log. *)
LEMMA FollowsIs ==
  /\ AppliedIsApplied <=>
       \A d \in Dev, f \in File : Follows(log, ckpt[d], f, row[d][f]) \/ <<d, f>> \in unseen
  /\ AppliedIsApplied' <=>
       \A d \in Dev, f \in File :
         Follows(log', ckpt'[d], f, row'[d][f]) \/ <<d, f>> \in unseen'
BY DEF AppliedIsApplied, Follows, LogAt, Live, Tip, LogOf, LiveOf

(* The bounds are natural numbers. *)
LEMMA Bounds ==
  /\ NFiles \in Nat /\ MaxOps \in Nat /\ MaxSeq \in Nat
  /\ Interval \in Nat \ {0} /\ Batch \in Nat \ {0} /\ Keep \in Nat \ {0}
BY CompactionAssumption

(* The invariant has the types a run checks. *)
LEMMA TypedIsTypeOK == Typed => TypeOK
<1> SUFFICES ASSUME Typed PROVE TypeOK
  OBVIOUS
<1>1. \A d \in Dev : task[d].todo \subseteq Op /\ task[d].cur \in CursorType
  BY DEF Typed, TaskInv, TaskType
<1>2. QED
  BY <1>1 DEF Typed, LogInv, TreeInv, CopyInv, ShotInv, MarkInv, TypeOK

(* A bucket nobody has used yet. *)
LEMMA InitTyped == Init => FollowsInv
<1> SUFFICES ASSUME Init PROVE FollowsInv
  OBVIOUS
<1>1. log = <<>> /\ Tip = 0 /\ log \in Seq(Operations)
  BY DEF Init, Tip
<1>2. LogInv /\ TreeInv /\ CopyInv
  BY <1>1, Bounds DEF Init, LogInv, TreeInv, CopyInv, File
<1>3. NoCursor \in CursorType
  BY Bounds DEF NoCursor, CursorType
<1>4. NoTask \in TaskType
  BY <1>3, Bounds DEF NoTask, TaskType, Pcs
<1>5. TaskInv
  <2>1. \A d \in Dev : task[d] = NoTask
    BY DEF Init
  <2>2. NoTask.head = 0 /\ NoTask.pc = "idle"
    BY DEF NoTask
  <2>3. task \in [Dev -> TaskType]
    BY <1>4 DEF Init
  <2>4. QED
    BY <1>1, <2>1, <2>2, <2>3 DEF TaskInv
<1>6. ShotInv
  <2>1. NoSnap \in SnapType
    BY Bounds DEF NoSnap, SnapType
  <2>2. QED
    BY <2>1, Bounds DEF Init, ShotInv
<1>7. MarkInv
  <2>1. NoMark \in [age : {"none", "fresh", "stale", "retired"}, seq : 0..MaxSeq]
    BY Bounds DEF NoMark
  <2>2. QED
    BY <2>1 DEF Init, MarkInv
<1>8. AppliedIsApplied
  <2> SUFFICES ASSUME NEW d \in Dev, NEW f \in File PROVE row[d][f] = Live(ckpt[d], f)
    BY DEF AppliedIsApplied
  <2>1. row[d][f] = 0 /\ ckpt[d] = 0
    BY DEF Init
  <2>2. Live(0, f) = 0
    BY LiveOfIs, OfLog
  <2>3. QED
    BY <2>1, <2>2
<1>9. QED
  BY <1>2, <1>3, <1>5, <1>6, <1>7, <1>8 DEF Init, FollowsInv, Typed

-----------------------------------------------------------------------------
(* Steps.                                                                  *)

(* A step that gives the log, the tree and the copies no change keeps what *)
(* is said of them.                                                        *)
LEMMA LogStays ==
  ASSUME FollowsInv, UNCHANGED <<log, tree, ckpt, row>>, kept' \subseteq kept,
         unseen \subseteq unseen'
  PROVE  LogInv' /\ TreeInv' /\ CopyInv' /\ AppliedIsApplied'
<1>1. Tip' = Tip
  BY DEF Tip
<1>2. LogInv' /\ TreeInv' /\ CopyInv'
  BY <1>1 DEF FollowsInv, Typed, LogInv, TreeInv, CopyInv
<1>3. AppliedIsApplied'
  BY FollowsIs DEF FollowsInv
<1>4. QED
  BY <1>2, <1>3

(* The device goes on to something else. *)
LEMMA TaskGoesOn ==
  ASSUME TaskInv, Tip' = Tip, NEW d \in Dev, NEW t \in TaskType, Do(d, t), t.head <= Tip,
         t.pc = "put" => t.head # 0
  PROVE  TaskInv'
<1>1. task' = [task EXCEPT ![d] = t] /\ task \in [Dev -> TaskType]
  BY DEF Do, TaskInv
<1>2. task' \in [Dev -> TaskType]
  BY <1>1
<1>3. ASSUME NEW e \in Dev PROVE task'[e].head <= Tip' /\ (task'[e].pc = "put" => task'[e].head # 0)
  <2>1. CASE e = d
    BY <1>1, <2>1
  <2>2. CASE e # d
    BY <1>1, <2>2 DEF TaskInv
  <2>3. QED
    BY <2>1, <2>2
<1>4. QED
  BY <1>2, <1>3 DEF TaskInv

(* What a task is made of. *)
LEMMA TaskParts ==
  ASSUME Typed, NEW d \in Dev
  PROVE  /\ task[d] \in TaskType /\ task[d].head \in 0..Tip /\ Tip \in Nat
         /\ task[d].head \in 0..MaxOps /\ task[d].seq \in 0..MaxSeq /\ task[d].cov \in 0..MaxOps
         /\ task[d].cur \in CursorType /\ task[d].todo \in SUBSET Op
         /\ NoTask \in TaskType /\ NoTask.head = 0 /\ NoTask.pc = "idle"
<1>1. NoCursor \in CursorType
  BY Bounds DEF NoCursor, CursorType
<1>2. NoTask \in TaskType /\ NoTask.head = 0 /\ NoTask.pc = "idle"
  BY <1>1, Bounds DEF NoTask, TaskType, Pcs
<1>3. task[d] \in TaskType /\ task[d].head <= Tip
  BY DEF Typed, TaskInv
<1>4. Tip \in Nat
  BY DEF Typed, LogInv, Tip
<1>5. QED
  BY <1>2, <1>3, <1>4 DEF TaskType

(* The places of a task. *)
LEMMA TaskPcs ==
  {"idle", "put", "scan", "snap", "tree", "meta", "latest", "mark", "check", "save", "delete",
   "clear", "prune"} \subseteq Pcs
BY DEF Pcs

(* The numbers of snapshots stay in their range. *)
LEMMA NewestType ==
  ASSUME ShotInv
  PROVE  Newest \in 0..MaxSeq /\ \A s \in 0..MaxSeq : Covered(s) \in 0..MaxOps
<1> USE Bounds
<1>1. Newest \in 0..MaxSeq
  <2>1. CASE Described = {}
    BY <2>1, Bounds DEF Newest
  <2>2. CASE Described # {}
    <3>1. /\ Described \in SUBSET Nat /\ Described \subseteq 1..MaxSeq
          /\ \A s \in Described : s <= MaxSeq
      BY Bounds DEF Described, Seqs
    <3>2. Max(Described) \in Described
      BY <2>2, <3>1, MaxOf, Bounds
    <3>3. Max(Described) \in 1..MaxSeq
      BY ONLY <3>1, <3>2
    <3>4. Newest = Max(Described)
      BY <2>2 DEF Newest
    <3>5. QED
      BY <3>3, <3>4
  <2>3. QED
    BY <2>1, <2>2
<1>2. ASSUME NEW s \in 0..MaxSeq PROVE Covered(s) \in 0..MaxOps
  <2>1. s # 0 => s \in Seqs
    BY Bounds DEF Seqs
  <2>2. s # 0 => snap[s] \in SnapType
    BY <2>1 DEF ShotInv
  <2>3. QED
    BY <2>2, Bounds DEF Covered, SnapType
<1>3. QED
  BY <1>1, <1>2

(* The maintenance of a device changes snapshots, marks and the cursor, and *)
(* takes operations out of the bucket.                                     *)
LEMMA MaintainKeeps ==
  ASSUME FollowsInv, NEW d \in Dev, Maintain(d)
  PROVE  FollowsInv'
<1> USE Bounds
<1>t. Typed /\ LogInv /\ ShotInv /\ MarkInv /\ TaskInv /\ cursor \in CursorType
  BY DEF FollowsInv, Typed
<1>p. /\ task[d] \in TaskType /\ task[d].head \in 0..Tip /\ Tip \in Nat
      /\ task[d].head \in 0..MaxOps /\ task[d].seq \in 0..MaxSeq /\ task[d].cov \in 0..MaxOps
      /\ task[d].cur \in CursorType /\ task[d].todo \in SUBSET Op
      /\ NoTask \in TaskType /\ NoTask.head = 0 /\ NoTask.pc = "idle"
  BY <1>t, TaskParts
<1>l. UNCHANGED <<log, tree, ckpt, row, unseen>> /\ kept' \subseteq kept
  BY DEF Maintain, MRegister, MSnap, MPutTree, MPutMeta, MPutLatest, MMark, MCheck, MSave,
         MDelete, MClear, MPrune, bucket, copy
<1>s. LogInv' /\ TreeInv' /\ CopyInv' /\ AppliedIsApplied' /\ Tip' = Tip
  BY <1>l, LogStays DEF Tip
<1>g. ASSUME NEW t \in TaskType, Do(d, t), t.head <= Tip, t.pc # "put" PROVE TaskInv'
  BY <1>g, <1>t, <1>s, TaskGoesOn
<1>q. ASSUME ShotInv', MarkInv', cursor' \in CursorType, TaskInv' PROVE FollowsInv'
  BY <1>q, <1>s DEF FollowsInv, Typed
<1>1. CASE MRegister(d)
  <2> DEFINE t == [NoTask EXCEPT !.pc = "snap", !.head = Tip]
  <2>1. t \in TaskType /\ t.head = Tip /\ t.pc = "snap"
    <3>0. Tip \in 0..MaxOps
      BY <1>p, <1>t DEF LogInv
    <3>1. t \in TaskType
      BY <1>p, <3>0, TaskPcs DEF TaskType
    <3>2. QED
      BY <1>p, <3>1 DEF TaskType
  <2>2. Do(d, t) /\ reg' = [reg EXCEPT ![d] = "fresh"] /\ UNCHANGED <<shots, cursor, mark>>
    BY <1>1 DEF MRegister
  <2>3. TaskInv'
    <3> HIDE DEF t
    <3> QED BY <1>g, <1>p, <2>1, <2>2
  <2>4. MarkInv' /\ ShotInv' /\ cursor' \in CursorType
    BY <2>2, <1>t DEF MarkInv, ShotInv, shots
  <2>5. QED
    BY <1>q, <2>3, <2>4
<1>2. CASE MSnap(d)
  <2>1. Newest \in 0..MaxSeq
    BY <1>t, NewestType
  <2>2. UNCHANGED <<shots, cursor, marks>>
    BY <1>2 DEF MSnap
  <2>3. PICK t \in {[task[d] EXCEPT !.pc = "tree", !.seq = Newest + 1],
                    [NoTask EXCEPT !.pc = "mark", !.seq = Newest]} :
          Do(d, t) /\ (t.pc = "tree" => Newest < MaxSeq)
    BY <1>2, <1>p DEF MSnap, TaskType
  <2>4. t \in TaskType /\ t.head <= Tip /\ t.pc # "put"
    <3>1. CASE t = [task[d] EXCEPT !.pc = "tree", !.seq = Newest + 1]
      <4>1. t.pc = "tree" /\ t.head = task[d].head
        BY <3>1, <1>p DEF TaskType
      <4>2. Newest + 1 \in 0..MaxSeq
        BY <4>1, <2>1, <2>3
      <4>3. t \in TaskType
        BY <3>1, <4>2, <1>p, TaskPcs DEF TaskType
      <4>4. QED
        BY <4>1, <4>3, <1>p
    <3>2. CASE t = [NoTask EXCEPT !.pc = "mark", !.seq = Newest]
      <4>1. t.pc = "mark" /\ t.head = NoTask.head
        BY <3>2, <1>p DEF TaskType
      <4>2. t \in TaskType
        BY <3>2, <2>1, <1>p, TaskPcs DEF TaskType
      <4>3. QED
        BY <4>1, <4>2, <1>p
    <3>3. QED
      BY <2>3, <3>1, <3>2
  <2>5. TaskInv'
    BY <1>g, <2>3, <2>4
  <2>6. MarkInv' /\ ShotInv' /\ cursor' \in CursorType
    BY <2>2, <1>t DEF MarkInv, ShotInv, shots, marks
  <2>7. QED
    BY <1>q, <2>5, <2>6
<1>3. CASE MPutTree(d)
  <2> DEFINE t == [task[d] EXCEPT !.pc = "meta"]
  <2>1. t \in TaskType /\ t.head <= Tip /\ t.pc # "put"
    <3>1. t \in TaskType
      BY <1>p, TaskPcs DEF TaskType
    <3>2. t.head <= Tip /\ t.pc # "put"
      BY <1>p DEF TaskType
    <3>3. QED
      BY <3>1, <3>2
  <2>2. Do(d, t) /\ UNCHANGED <<latest, cursor, marks>>
    BY <1>3 DEF MPutTree, Step
  <2>3. TaskInv'
    <3> HIDE DEF t
    <3> QED BY <1>g, <2>1, <2>2
  <2>4. ShotInv'
    <3>1. tree \in [File -> 0..MaxOps]
      BY <1>t, <1>p DEF Typed, TreeInv, LogInv
    <3>2. snap' = [snap EXCEPT ![task[d].seq].tree = tree, ![task[d].seq].listed = TRUE]
      BY <1>3 DEF MPutTree
    <3>3. \A x \in SnapType : [[x EXCEPT !.tree = tree] EXCEPT !.listed = TRUE] \in SnapType
      BY <3>1 DEF SnapType
    <3>4. snap' \in [Seqs -> SnapType]
      BY <1>t, <3>1, <3>2, <3>3 DEF ShotInv, SnapType
    <3>5. QED
      BY <3>4, <2>2, <1>t DEF ShotInv
  <2>5. MarkInv' /\ cursor' \in CursorType
    BY <2>2, <1>t DEF MarkInv, marks
  <2>6. QED
    BY <1>q, <2>3, <2>4, <2>5
<1>4. CASE MPutMeta(d)
  <2> DEFINE t == [task[d] EXCEPT !.pc = "latest"]
  <2>1. t \in TaskType /\ t.head <= Tip /\ t.pc # "put"
    <3>1. t \in TaskType
      BY <1>p, TaskPcs DEF TaskType
    <3>2. t.head <= Tip /\ t.pc # "put"
      BY <1>p DEF TaskType
    <3>3. QED
      BY <3>1, <3>2
  <2>2. Do(d, t) /\ UNCHANGED <<latest, cursor, marks>>
    BY <1>4 DEF MPutMeta, Step
  <2>3. TaskInv'
    <3> HIDE DEF t
    <3> QED BY <1>g, <2>1, <2>2
  <2>4. ShotInv'
    <3>2. snap' = [snap EXCEPT ![task[d].seq].cov = task[d].head, ![task[d].seq].meta = TRUE]
      BY <1>4 DEF MPutMeta
    <3>4. snap' \in [Seqs -> SnapType]
      BY <1>t, <1>p, <3>2 DEF ShotInv, SnapType
    <3>5. QED
      BY <3>4, <2>2, <1>t DEF ShotInv
  <2>5. MarkInv' /\ cursor' \in CursorType
    BY <2>2, <1>t DEF MarkInv, marks
  <2>6. QED
    BY <1>q, <2>3, <2>4, <2>5
<1>5. CASE MPutLatest(d)
  <2> DEFINE t == [NoTask EXCEPT !.pc = "mark", !.seq = task[d].seq]
  <2>1. t \in TaskType /\ t.head <= Tip /\ t.pc # "put"
    <3>1. t \in TaskType
      BY <1>p, TaskPcs DEF TaskType
    <3>2. t.head <= Tip /\ t.pc # "put"
      BY <1>p DEF TaskType
    <3>3. QED
      BY <3>1, <3>2
  <2>2. Do(d, t) /\ latest' = task[d].seq /\ UNCHANGED <<snap, cursor, marks>>
    BY <1>5 DEF MPutLatest
  <2>3. TaskInv'
    <3> HIDE DEF t
    <3> QED BY <1>g, <2>1, <2>2
  <2>4. MarkInv' /\ ShotInv' /\ cursor' \in CursorType
    BY <2>2, <1>t, <1>p DEF MarkInv, ShotInv, marks
  <2>5. QED
    BY <1>q, <2>3, <2>4
<1>6. CASE MMark(d)
  <2> DEFINE s == task[d].seq
             t == [task[d] EXCEPT !.pc = IF s = 0 THEN "prune" ELSE "check",
                                  !.cov = Covered(s)]
             m == [age |-> "fresh", seq |-> IF Reaches(ckpt[d], Covered(s)) THEN s ELSE 0]
  <2>1. Covered(s) \in 0..MaxOps
    BY <1>t, <1>p, NewestType
  <2>2. t \in TaskType /\ t.head <= Tip /\ t.pc # "put"
    <3>1. t \in TaskType
      BY <1>p, <2>1, TaskPcs DEF TaskType
    <3>2. t.head <= Tip /\ t.pc # "put"
      BY <1>p DEF TaskType
    <3>3. QED
      BY <3>1, <3>2
  <2>3. Do(d, t) /\ mark' = [mark EXCEPT ![d] = m] /\ UNCHANGED <<shots, cursor, reg>>
    BY <1>6 DEF MMark
  <2>4. TaskInv'
    <3> HIDE DEF t
    <3> QED BY <1>g, <2>2, <2>3
  <2>5. m \in [age : {"none", "fresh", "stale", "retired"}, seq : 0..MaxSeq]
    BY <1>p
  <2>6. MarkInv' /\ ShotInv' /\ cursor' \in CursorType
    <3> HIDE DEF m
    <3> QED BY <2>3, <2>5, <1>t DEF MarkInv, ShotInv, shots
  <2>7. QED
    BY <1>q, <2>4, <2>6
<1>7. CASE MCheck(d)
  <2> DEFINE c == Loaded(d)
  <2>1. c \in CursorType
    <3>1. task[d].cov \in kept => task[d].cov - 1 \in 0..MaxOps
      BY <1>t, <1>p DEF LogInv
    <3>2. [seq |-> task[d].seq, pending |-> {},
           next |-> IF task[d].cov \in kept THEN task[d].cov - 1 ELSE 0] \in CursorType
      BY <3>1, <1>p DEF CursorType
    <3>3. QED
      BY <3>2, <1>t DEF Loaded
  <2>2. UNCHANGED <<shots, cursor, marks>>
    BY <1>7 DEF MCheck
  <2>3. c.next \in 0..MaxOps /\ c.pending \in SUBSET Op /\ c.seq \in 0..MaxSeq
    BY <2>1 DEF CursorType
  <2>4. PICK n \in Batches(c.next) :
          \E t \in {[NoTask EXCEPT !.pc = "delete", !.todo = c.pending,
                                  !.cur = [c EXCEPT !.pending = {}]],
                    [NoTask EXCEPT !.pc = "save", !.todo = (c.next - n + 1)..c.next,
                       !.cur = [c EXCEPT !.next = After(c.next, n),
                                         !.pending = (c.next - n + 1)..c.next]],
                    [NoTask EXCEPT !.pc = "prune"]} : Do(d, t)
    BY <1>7 DEF MCheck
  <2>5. n \in 0..c.next
    <3>1. Min({c.next, Batch}) <= c.next
      <4>1. PICK k \in {c.next, Batch} : \A y \in {c.next, Batch} : k <= y
        BY <2>3
      <4>2. \A y \in {c.next, Batch} : Min({c.next, Batch}) <= y
        BY <4>1 DEF Min
      <4>3. QED
        BY <4>2
    <3>2. Min({c.next, Batch}) \in {c.next, Batch}
      <4>1. PICK k \in {c.next, Batch} : \A y \in {c.next, Batch} : k <= y
        BY <2>3
      <4>2. QED
        BY <4>1 DEF Min
    <3>3. QED
      BY <2>3, <2>4, <3>1, <3>2 DEF Batches
  <2>6. /\ [c EXCEPT !.pending = {}] \in CursorType
        /\ [c EXCEPT !.next = After(c.next, n), !.pending = (c.next - n + 1)..c.next] \in CursorType
        /\ (c.next - n + 1)..c.next \in SUBSET Op
    <3>1. After(c.next, n) \in 0..MaxOps
      BY <2>3, <2>5 DEF After
    <3>2. (c.next - n + 1)..c.next \in SUBSET Op
      BY <2>3, <2>5 DEF Op
    <3>3. QED
      BY <2>1, <3>1, <3>2 DEF CursorType
  <2>7. PICK t : Do(d, t) /\ t \in TaskType /\ t.head <= Tip /\ t.pc # "put"
    <3> HIDE DEF c
    <3>1. PICK o \in SUBSET Op, u \in CursorType, p \in Pcs \ {"put"} :
            \E t : /\ Do(d, t)
                   /\ \/ t = [NoTask EXCEPT !.pc = p, !.todo = o, !.cur = u]
                      \/ t = [NoTask EXCEPT !.pc = p]
      BY <2>3, <2>4, <2>6 DEF Pcs
    <3>t. PICK t : /\ Do(d, t)
                   /\ \/ t = [NoTask EXCEPT !.pc = p, !.todo = o, !.cur = u]
                      \/ t = [NoTask EXCEPT !.pc = p]
      BY <3>1
    <3>2. t.head = NoTask.head /\ t.pc = p
      BY <3>t, <1>p DEF TaskType
    <3>3. t \in TaskType
      BY <3>t, <1>p DEF TaskType
    <3>4. QED
      BY <3>t, <3>2, <3>3, <1>p
  <2>8. TaskInv'
    BY <1>g, <2>7
  <2>9. MarkInv' /\ ShotInv' /\ cursor' \in CursorType
    BY <2>2, <1>t DEF MarkInv, ShotInv, shots, marks
  <2>10. QED
    BY <1>q, <2>8, <2>9
<1>8. CASE MSave(d)
  <2> DEFINE t == [task[d] EXCEPT !.pc = IF task[d].todo = {} THEN "prune" ELSE "delete",
                                  !.cur.pending = {}]
  <2>1. t \in TaskType /\ t.head <= Tip /\ t.pc # "put"
    <3>1. [task[d].cur EXCEPT !.pending = {}] \in CursorType
      BY <1>p DEF CursorType
    <3>2. t = [task[d] EXCEPT !.pc = IF task[d].todo = {} THEN "prune" ELSE "delete",
                              !.cur = [task[d].cur EXCEPT !.pending = {}]]
      BY <1>p DEF TaskType
    <3>3. t \in TaskType
      <4> HIDE DEF t
      <4> QED BY <1>p, <3>1, <3>2, TaskPcs DEF TaskType
    <3>4. t.head = task[d].head /\ t.pc # "put"
      BY <1>p DEF TaskType
    <3>5. QED
      BY <3>3, <3>4, <1>p
  <2>2. Do(d, t) /\ cursor' = task[d].cur /\ UNCHANGED <<shots, marks>>
    BY <1>8 DEF MSave
  <2>3. TaskInv'
    <3> HIDE DEF t
    <3> QED BY <1>g, <2>1, <2>2
  <2>4. MarkInv' /\ ShotInv' /\ cursor' \in CursorType
    BY <2>2, <1>t, <1>p DEF MarkInv, ShotInv, shots, marks
  <2>5. QED
    BY <1>q, <2>3, <2>4
<1>9. CASE MDelete(d)
  <2> DEFINE i == Max(task[d].todo)
             t == [task[d] EXCEPT !.todo = @ \ {i},
                                  !.pc = IF task[d].todo = {i} THEN "clear" ELSE "delete"]
  <2>1. t \in TaskType /\ t.head <= Tip /\ t.pc # "put"
    <3> HIDE DEF i
    <3>1. t \in TaskType
      BY <1>p, TaskPcs DEF TaskType
    <3>2. t.head = task[d].head /\ t.pc # "put"
      BY <1>p DEF TaskType
    <3>3. QED
      BY <3>1, <3>2, <1>p
  <2>2. Do(d, t) /\ UNCHANGED <<shots, marks, cursor>>
    BY <1>9 DEF MDelete
  <2>3. TaskInv'
    <3> HIDE DEF t
    <3> QED BY <1>g, <2>1, <2>2
  <2>4. MarkInv' /\ ShotInv' /\ cursor' \in CursorType
    BY <2>2, <1>t DEF MarkInv, ShotInv, shots, marks
  <2>5. QED
    BY <1>q, <2>3, <2>4
<1>10. CASE MClear(d)
  <2> DEFINE t == [NoTask EXCEPT !.pc = "prune"]
  <2>1. t \in TaskType /\ t.head <= Tip /\ t.pc # "put"
    <3>1. t \in TaskType
      BY <1>p, TaskPcs DEF TaskType
    <3>2. t.head <= Tip /\ t.pc # "put"
      BY <1>p DEF TaskType
    <3>3. QED
      BY <3>1, <3>2
  <2>2. Do(d, t) /\ cursor' = task[d].cur /\ UNCHANGED <<shots, marks>>
    BY <1>10 DEF MClear
  <2>3. TaskInv'
    <3> HIDE DEF t
    <3> QED BY <1>g, <2>1, <2>2
  <2>4. MarkInv' /\ ShotInv' /\ cursor' \in CursorType
    BY <2>2, <1>t, <1>p DEF MarkInv, ShotInv, shots, marks
  <2>5. QED
    BY <1>q, <2>3, <2>4
<1>11. CASE MPrune(d)
  <2>1. Do(d, NoTask) /\ UNCHANGED <<latest, marks, cursor>>
        /\ snap' = [s \in Seqs |-> IF s \in Superfluous THEN NoSnap ELSE snap[s]]
    BY <1>11 DEF MPrune
  <2>2. NoTask.head <= Tip /\ NoTask.pc # "put"
    BY <1>p
  <2>3. TaskInv'
    BY <1>g, <1>p, <2>1, <2>2
  <2>4. NoSnap \in SnapType
    BY DEF NoSnap, SnapType
  <2>5. MarkInv' /\ ShotInv' /\ cursor' \in CursorType
    BY <2>1, <2>4, <1>t DEF MarkInv, ShotInv, marks
  <2>6. QED
    BY <1>q, <2>3, <2>5
<1>12. QED
  BY <1>1, <1>2, <1>3, <1>4, <1>5, <1>6, <1>7, <1>8, <1>9, <1>10, <1>11 DEF Maintain

(* A stop, a device that falls silent, one that is retired. *)
LEMMA OthersKeep ==
  ASSUME FollowsInv, NEW d \in Dev, Stop(d) \/ Lapse(d) \/ Retire(d)
  PROVE  FollowsInv'
<1>t. Typed /\ ShotInv /\ MarkInv /\ TaskInv /\ cursor \in CursorType
  BY DEF FollowsInv, Typed
<1>p. NoTask \in TaskType /\ NoTask.head = 0 /\ NoTask.pc = "idle" /\ Tip \in Nat
  BY <1>t, TaskParts
<1>l. UNCHANGED <<log, kept, tree, ckpt, row, unseen, snap, latest, cursor>>
  BY DEF Stop, Lapse, Retire, bucket, copy, shots
<1>s. LogInv' /\ TreeInv' /\ CopyInv' /\ AppliedIsApplied' /\ Tip' = Tip
  BY <1>l, LogStays DEF Tip
<1>1. TaskInv'
  <2>1. CASE Stop(d)
    BY <2>1, <1>p, <1>t, <1>s, TaskGoesOn DEF Stop
  <2>2. CASE Lapse(d) \/ Retire(d)
    BY <2>2, <1>t, <1>s DEF Lapse, Retire, TaskInv
  <2>3. QED
    BY <2>1, <2>2
<1>2. MarkInv'
  <2>1. CASE Stop(d)
    BY <2>1, <1>t DEF Stop, MarkInv, marks
  <2>2. CASE Lapse(d)
    <3>1. /\ reg' = [reg EXCEPT ![d] = "stale"]
          /\ mark' = [mark EXCEPT ![d].age = IF @ = "fresh" THEN "stale" ELSE @]
      BY <2>2 DEF Lapse
    <3>2. QED
      BY <3>1, <1>t DEF MarkInv
  <2>3. CASE Retire(d)
    <3>1. UNCHANGED reg /\ mark' = [mark EXCEPT ![d].age = "retired"]
      BY <2>3 DEF Retire
    <3>2. QED
      BY <3>1, <1>t DEF MarkInv
  <2>4. QED
    BY <2>1, <2>2, <2>3
<1>3. QED
  BY <1>l, <1>s, <1>t, <1>1, <1>2 DEF FollowsInv, Typed, ShotInv

(* The tree entry follows its operation. *)
LEMMA PutEntryKeeps ==
  ASSUME FollowsInv, NEW d \in Dev, PutEntry(d)
  PROVE  FollowsInv'
<1> DEFINE i == task[d].head
<1>t. Typed /\ LogInv /\ TreeInv /\ CopyInv /\ ShotInv /\ MarkInv /\ TaskInv
      /\ cursor \in CursorType
  BY DEF FollowsInv, Typed
<1>p. /\ task[d].head \in 0..Tip /\ Tip \in Nat
      /\ NoTask \in TaskType /\ NoTask.head = 0 /\ NoTask.pc = "idle"
  BY <1>t, TaskParts
<1>l. /\ UNCHANGED <<log, kept, ckpt, row, unseen, snap, latest, cursor, reg, mark>>
      /\ Do(d, NoTask) /\ task[d].pc = "put"
      /\ tree' = [tree EXCEPT ![log[i].file] = IF log[i].kind = "delete" THEN 0 ELSE i]
  BY DEF PutEntry, At, marks, copy, shots
<1>s. Tip' = Tip
  BY <1>l DEF Tip
<1>1. TaskInv'
  BY <1>l, <1>p, <1>t, <1>s, TaskGoesOn
<1>2. i \in 1..Tip
  BY <1>l, <1>p, <1>t DEF TaskInv
<1>3. TreeInv'
  <2>1. log[i].file \in File
    <3>1. i \in 1..Len(log) /\ log \in Seq(Operations)
      BY <1>2, <1>t DEF LogInv, Tip
    <3>2. log[i] \in Operations
      <4> HIDE DEF i
      <4> QED BY <3>1
    <3>3. QED
      BY <3>2 DEF Operations
  <2>2. QED
    BY <1>l, <1>s, <1>2, <1>p, <2>1, <1>t DEF TreeInv
<1>4. LogInv' /\ CopyInv' /\ ShotInv' /\ MarkInv' /\ cursor' \in CursorType
  BY <1>l, <1>s, <1>t DEF LogInv, CopyInv, ShotInv, MarkInv
<1>5. AppliedIsApplied'
  BY <1>l, FollowsIs DEF FollowsInv
<1>6. QED
  BY <1>1, <1>3, <1>4, <1>5 DEF FollowsInv, Typed

(* The start of a scan takes the head for the checkpoint. *)
LEMMA StartScanKeeps ==
  ASSUME FollowsInv, NEW d \in Dev, StartScan(d)
  PROVE  FollowsInv'
<1> DEFINE t == [NoTask EXCEPT !.pc = "scan", !.head = Tip]
<1>t. Typed /\ LogInv /\ ShotInv /\ MarkInv /\ TaskInv /\ cursor \in CursorType
  BY DEF FollowsInv, Typed
<1>p. NoTask \in TaskType /\ Tip \in Nat
  BY <1>t, TaskParts
<1>l. UNCHANGED <<log, kept, tree, ckpt, row, unseen, snap, latest, cursor, reg, mark>>
      /\ Do(d, t)
  BY DEF StartScan, bucket, marks, copy, shots
<1>s. LogInv' /\ TreeInv' /\ CopyInv' /\ AppliedIsApplied' /\ Tip' = Tip
  BY <1>l, LogStays DEF Tip
<1>1. t \in TaskType /\ t.head = Tip /\ t.pc = "scan"
  <2>1. Tip \in 0..MaxOps
    BY <1>p, <1>t DEF LogInv
  <2>2. QED
    BY <1>p, <2>1, TaskPcs DEF TaskType
<1>2. TaskInv'
  <2> HIDE DEF t
  <2> QED BY <1>l, <1>p, <1>t, <1>s, <1>1, TaskGoesOn
<1>3. QED
  BY <1>l, <1>s, <1>t, <1>2 DEF FollowsInv, Typed, ShotInv, MarkInv

(* What a copy holds is settled by what comes after it: a copy of the      *)
(* file's last operation follows the log at any checkpoint.                *)
LEMMA LastFollows ==
  ASSUME LogInv, NEW n \in 0..Tip, NEW f, NEW r, r = LiveOf(log, Tip, f), r > 0
  PROVE  Follows(log, n, f, r)
<1>1. r \in 0..Tip /\ Tip \in Nat
  BY LiveOfIs DEF LogInv, Tip
<1>2. CASE r > n
  BY <1>2 DEF Follows
<1>3. CASE r <= n
  BY <1>1, <1>3, LastStands DEF Follows
<1>4. QED
  BY <1>1, <1>2, <1>3

(* A poll applies every operation since the checkpoint. *)
LEMMA ApplyKeeps ==
  ASSUME FollowsInv, NEW d \in Dev, Apply(d)
  PROVE  FollowsInv'
<1>t. Typed /\ LogInv /\ TreeInv /\ CopyInv /\ ShotInv /\ MarkInv /\ TaskInv
      /\ cursor \in CursorType /\ Tip \in Nat /\ Tip = Len(log)
  BY DEF FollowsInv, Typed, LogInv, Tip
<1> DEFINE new(f) == \E i \in ckpt[d] + 1..Tip : log[i].file = f
           now(f) == IF new(f) THEN LiveOf(log, Tip, f) ELSE row[d][f]
<1>l. /\ UNCHANGED <<log, kept, tree, unseen, snap, latest, cursor, reg, mark, task>>
      /\ row' = [row EXCEPT ![d] = [f \in File |-> now(f)]]
      /\ ckpt' = [ckpt EXCEPT ![d] = Tip]
  BY OfLog DEF Apply, bucket, marks, shots
<1>c. ckpt[d] \in 0..Tip /\ row \in [Dev -> [File -> 0..Tip]] /\ ckpt \in [Dev -> 0..Tip]
  BY <1>t DEF CopyInv
<1>s. Tip' = Tip
  BY <1>l DEF Tip
<1>1. \A f \in File : /\ now(f) \in 0..Tip
                      /\ now(f) > 0 => log[now(f)].file = f
  <2> SUFFICES ASSUME NEW f \in File PROVE now(f) \in 0..Tip /\ (now(f) > 0 => log[now(f)].file = f)
    OBVIOUS
  <2>1. CASE ~new(f)
    BY <2>1, <1>c, <1>t DEF CopyInv
  <2>2. CASE new(f)
    <3>1. LiveOf(log, Tip, f) \in 0..Tip
      BY <1>t, LiveOfIs
    <3>2. LiveOf(log, Tip, f) > 0 => log[LiveOf(log, Tip, f)].file = f
      <4> SUFFICES ASSUME LiveOf(log, Tip, f) > 0 PROVE log[LiveOf(log, Tip, f)].file = f
        OBVIOUS
      <4>1. LogOf(log, Tip, f) = LiveOf(log, Tip, f) /\ LogOf(log, Tip, f) # Gone
            /\ LogOf(log, Tip, f) # 0
        BY <1>t, LiveOfIs
      <4>2. PICK m \in 1..Tip : LastOn(log, Tip, f, m)
                                /\ LogOf(log, Tip, f) = IF log[m].kind = "delete" THEN Gone ELSE m
        BY <4>1, <1>t, LogOfIs
      <4>3. QED
        BY <4>1, <4>2 DEF LastOn
    <3>3. QED
      BY <2>2, <3>1, <3>2
  <2>3. QED
    BY <2>1, <2>2
<1>2. CopyInv'
  <2> HIDE DEF now
  <2>1. row' \in [Dev -> [File -> 0..Tip]] /\ ckpt' \in [Dev -> 0..Tip]
    BY <1>l, <1>c, <1>1, <1>t
  <2>2. ASSUME NEW e \in Dev, NEW f \in File, row'[e][f] > 0 PROVE log[row'[e][f]].file = f
    <3>1. CASE e = d
      BY <3>1, <2>2, <1>l, <1>c, <1>1
    <3>2. CASE e # d
      BY <3>2, <2>2, <1>l, <1>c, <1>t DEF CopyInv
    <3>3. QED
      BY <3>1, <3>2
  <2>3. QED
    BY <1>l, <1>s, <2>1, <2>2 DEF CopyInv
<1>3. AppliedIsApplied'
  <2> SUFFICES ASSUME NEW e \in Dev, NEW f \in File
               PROVE  Follows(log, ckpt'[e], f, row'[e][f]) \/ <<e, f>> \in unseen
    BY <1>l, FollowsIs
  <2>1. Follows(log, ckpt[e], f, row[e][f]) \/ <<e, f>> \in unseen
    BY FollowsIs DEF FollowsInv
  <2>2. CASE e # d
    BY <2>1, <2>2, <1>l, <1>c
  <2>3. CASE e = d /\ new(f)
    <3>1. row'[e][f] = LiveOf(log, Tip, f) /\ ckpt'[e] = Tip
      BY <2>3, <1>l, <1>c
    <3>2. QED
      BY <3>1 DEF Follows
  <2>4. CASE e = d /\ ~new(f) /\ Follows(log, ckpt[e], f, row[e][f])
    <3>1. row'[e][f] = row[d][f] /\ ckpt'[e] = Tip /\ row[d][f] \in 0..Tip
      BY <2>4, <1>l, <1>c
    <3>2. LiveOf(log, Tip, f) = LiveOf(log, ckpt[d], f)
      BY <2>4, <1>c, <1>t, SameUntil
    <3>3. ~(row[d][f] > ckpt[d])
      <4>1. row[d][f] > 0 => log[row[d][f]].file = f
        BY <1>t DEF CopyInv
      <4>2. QED
        BY <4>1, <3>1, <2>4, <1>c
    <3>4. QED
      BY <2>4, <3>1, <3>2, <3>3 DEF Follows
  <2>5. QED
    BY <2>1, <2>2, <2>3, <2>4, <1>l, <1>c
<1>4. LogInv' /\ TreeInv' /\ ShotInv' /\ MarkInv' /\ TaskInv' /\ cursor' \in CursorType
  BY <1>l, <1>s, <1>t DEF LogInv, TreeInv, ShotInv, MarkInv, TaskInv
<1>5. QED
  BY <1>2, <1>3, <1>4 DEF FollowsInv, Typed

(* A scan takes over what the tree has: where the tree shows the log, that *)
(* follows it at the head the scan began with and at any later one.        *)
LEMMA ScanTreeKeeps ==
  ASSUME FollowsInv, NEW d \in Dev, ScanTree(d)
  PROVE  FollowsInv'
<1>t. Typed /\ LogInv /\ TreeInv /\ CopyInv /\ ShotInv /\ MarkInv /\ TaskInv
      /\ cursor \in CursorType /\ Tip \in Nat /\ Tip = Len(log)
  BY DEF FollowsInv, Typed, LogInv, Tip
<1>p. /\ task[d].head \in 0..Tip
      /\ NoTask \in TaskType /\ NoTask.head = 0 /\ NoTask.pc = "idle"
  BY <1>t, TaskParts
<1>l. /\ UNCHANGED <<log, kept, tree, snap, latest, cursor, reg, mark>> /\ Do(d, NoTask)
      /\ row' = [row EXCEPT ![d] = [f \in File |-> Scanned(d, f)]]
      /\ unseen' = unseen \cup {<<d, f>> : f \in {g \in File : Wrong(g)}}
      /\ ckpt' = IF Unlisted(d) = {} THEN [ckpt EXCEPT ![d] = task[d].head] ELSE ckpt
  BY DEF ScanTree, bucket, marks, shots
<1>c. ckpt[d] \in 0..Tip /\ row \in [Dev -> [File -> 0..Tip]] /\ ckpt \in [Dev -> 0..Tip]
  BY <1>t DEF CopyInv
<1>s. Tip' = Tip
  BY <1>l DEF Tip
<1>k. ckpt'[d] \in 0..Tip /\ \A e \in Dev \ {d} : ckpt'[e] = ckpt[e] /\ row'[e] = row[e]
  BY <1>l, <1>c, <1>p
<1>1. \A f \in File : /\ Scanned(d, f) \in 0..Tip
                      /\ Scanned(d, f) > 0 => log[Scanned(d, f)].file = f
                      /\ row'[d][f] = Scanned(d, f)
  BY <1>t, <1>c, <1>l DEF Scanned, TreeInv, CopyInv
<1>2. CopyInv'
  <2>1. row' \in [Dev -> [File -> 0..Tip]] /\ ckpt' \in [Dev -> 0..Tip]
    BY <1>l, <1>c, <1>1, <1>p
  <2>2. ASSUME NEW e \in Dev, NEW f \in File, row'[e][f] > 0 PROVE log[row'[e][f]].file = f
    <3>1. CASE e = d
      BY <3>1, <2>2, <1>1
    <3>2. CASE e # d
      BY <3>2, <2>2, <1>k, <1>t DEF CopyInv
    <3>3. QED
      BY <3>1, <3>2
  <2>3. QED
    BY <1>l, <1>s, <2>1, <2>2 DEF CopyInv
<1>3. AppliedIsApplied'
  <2> SUFFICES ASSUME NEW e \in Dev, NEW f \in File
               PROVE  Follows(log, ckpt'[e], f, row'[e][f]) \/ <<e, f>> \in unseen'
    BY <1>l, FollowsIs
  <2>1. Follows(log, ckpt[e], f, row[e][f]) \/ <<e, f>> \in unseen
    BY FollowsIs DEF FollowsInv
  <2>2. CASE e # d
    BY <2>1, <2>2, <1>l, <1>k
  <2>3. CASE e = d /\ Wrong(f)
    BY <2>3, <1>l
  <2>4. CASE e = d /\ ~Wrong(f) /\ tree[f] # 0
    <3>1. tree[f] = LiveOf(log, Tip, f) /\ tree[f] > 0
      BY <2>4, <1>t, OfLog DEF Wrong, TreeInv
    <3>2. LogOf(log, Tip, f) # Gone
      BY <3>1, <1>t, LiveOfIs
    <3>3. row'[e][f] = tree[f]
      BY <3>1, <3>2, <2>4, <1>1, OfLog DEF Scanned
    <3>4. QED
      BY <3>1, <3>3, <1>k, <2>4, <1>t, LastFollows
  <2>5. CASE e = d /\ ~Wrong(f) /\ tree[f] = 0
    <3>1. row'[e][f] = row[d][f] /\ row[d][f] \in 0..Tip
      BY <2>5, <1>1, <1>c DEF Scanned
    <3>2. CASE Unlisted(d) # {}
      BY <3>1, <3>2, <2>1, <2>5, <1>l
    <3>3. CASE Unlisted(d) = {}
      <4>1. row[d][f] = 0
        BY <3>1, <3>3, <2>5 DEF Unlisted
      <4>2. LiveOf(log, Tip, f) = 0
        BY <2>5, OfLog DEF Wrong
      <4>3. CASE LogOf(log, Tip, f) = Gone
        BY <4>1, <4>3, <3>1, <1>t DEF Follows
      <4>4. CASE LogOf(log, Tip, f) # Gone
        <5>1. LogOf(log, Tip, f) = 0
          BY <4>2, <4>4, <1>t, LiveOfIs
        <5>2. \A i \in 1..Tip : log[i].file # f
          BY <5>1, <1>t, LogOfIs DEF LastOn, Gone
        <5>3. LiveOf(log, ckpt'[d], f) = LiveOf(log, Tip, f)
          BY <5>2, <1>k, <1>t, SameUntil
        <5>4. QED
          BY <5>3, <4>1, <4>2, <3>1, <2>5 DEF Follows
      <4>5. QED
        BY <4>3, <4>4
    <3>4. QED
      BY <3>2, <3>3
  <2>6. QED
    BY <2>2, <2>3, <2>4, <2>5
<1>4. TaskInv'
  BY <1>l, <1>p, <1>t, <1>s, TaskGoesOn
<1>5. LogInv' /\ TreeInv' /\ ShotInv' /\ MarkInv' /\ cursor' \in CursorType
  BY <1>l, <1>s, <1>t DEF LogInv, TreeInv, ShotInv, MarkInv
<1>6. QED
  BY <1>2, <1>3, <1>4, <1>5 DEF FollowsInv, Typed

(* A commit is the newest operation on its file, and nothing is written    *)
(* over a deletion: no device has a copy of a deleted file to commit from. *)
LEMMA CommitKeeps ==
  ASSUME FollowsInv, NEW d \in Dev, NEW f \in File, NEW kind \in {"write", "delete"},
         Commit(d, f, kind)
  PROVE  FollowsInv'
<1> DEFINE n == Tip + 1
           o == [file |-> f, kind |-> kind]
           r == IF kind = "delete" THEN 0 ELSE n
           t == [NoTask EXCEPT !.pc = "put", !.head = n]
<1>t. Typed /\ LogInv /\ TreeInv /\ CopyInv /\ ShotInv /\ MarkInv /\ TaskInv
      /\ cursor \in CursorType /\ Tip \in Nat /\ Tip = Len(log) /\ log \in Seq(Operations)
  BY DEF FollowsInv, Typed, LogInv, Tip
<1>p. NoTask \in TaskType
  BY <1>t, TaskParts
<1>l. /\ UNCHANGED <<tree, ckpt, unseen, snap, latest, cursor, reg, mark>>
      /\ log' = Append(log, o) /\ kept' = kept \cup {n} /\ Tip < MaxOps
      /\ row' = [row EXCEPT ![d][f] = r] /\ Do(d, t) /\ row[d][f] = LogOf(log, Tip, f)
  BY OfLog DEF Commit, marks, shots
<1>o. o \in Operations
  BY DEF Operations
<1>s. /\ log' \in Seq(Operations) /\ Tip' = n /\ Len(log') = n
      /\ \A i \in 1..Tip : log'[i] = log[i]
      /\ log'[n] = o
  <2> HIDE DEF o
  <2> QED BY <1>l, <1>o, <1>t DEF Tip
<1>c. ckpt \in [Dev -> 0..Tip] /\ row \in [Dev -> [File -> 0..Tip]]
  BY <1>t DEF CopyInv
<1>r. /\ row'[d][f] = r
      /\ \A e \in Dev, g \in File : <<e, g>> # <<d, f>> => row'[e][g] = row[e][g]
  BY <1>l, <1>c
<1>1. LogInv'
  <2>1. Tip' <= MaxOps
    BY <1>l, <1>s, <1>t, Bounds
  <2>2. kept' \subseteq 1..Tip'
    BY <1>l, <1>s, <1>t DEF LogInv
  <2>3. QED
    BY <1>s, <2>1, <2>2 DEF LogInv
<1>2. TreeInv'
  BY <1>l, <1>s, <1>t DEF TreeInv
<1>3. CopyInv'
  <2>1. row' \in [Dev -> [File -> 0..n]] /\ ckpt' \in [Dev -> 0..n]
    <3>1. r \in 0..n /\ \A x \in 0..Tip : x \in 0..n
      BY <1>t
    <3>2. row \in [Dev -> [File -> 0..n]] /\ ckpt \in [Dev -> 0..n]
      BY <1>c, <3>1
    <3>3. QED
      BY <1>l, <3>1, <3>2
  <2>2. ASSUME NEW e \in Dev, NEW g \in File, row'[e][g] > 0 PROVE log'[row'[e][g]].file = g
    <3>1. CASE e = d /\ g = f
      BY <3>1, <2>2, <1>r, <1>s, <1>t
    <3>2. CASE <<e, g>> # <<d, f>>
      <4>1. row'[e][g] = row[e][g] /\ row[e][g] \in 1..Tip
        BY <3>2, <2>2, <1>r, <1>c, <1>t
      <4>2. QED
        BY <4>1, <1>s, <1>t DEF CopyInv
    <3>3. QED
      BY <3>1, <3>2
  <2>3. QED
    BY <1>s, <2>1, <2>2 DEF CopyInv
<1>4. TaskInv'
  <2>1. n \in 0..MaxOps /\ n # 0
    BY <1>l, <1>t, Bounds
  <2>2. t \in TaskType /\ t.head = n
    BY <1>p, <2>1, TaskPcs DEF TaskType
  <2>3. task' = [task EXCEPT ![d] = t]
    BY <1>l DEF Do
  <2>4. task' \in [Dev -> TaskType]
    <3> HIDE DEF t
    <3> QED BY <2>2, <2>3, <1>t DEF TaskInv
  <2>5. ASSUME NEW e \in Dev
        PROVE  task'[e].head <= Tip' /\ (task'[e].pc = "put" => task'[e].head # 0)
    <3> HIDE DEF t
    <3>1. CASE e = d
      <4>1. task'[e] = t
        BY <3>1, <2>3, <1>t DEF TaskInv
      <4>2. QED
        BY <4>1, <2>1, <2>2, <1>s, <1>t
    <3>2. CASE e # d
      <4>1. task'[e] = task[e]
        BY <3>2, <2>3, <1>t DEF TaskInv
      <4>2. task[e].head \in 0..Tip /\ (task[e].pc = "put" => task[e].head # 0)
        BY <1>t, TaskParts DEF TaskInv
      <4>3. QED
        BY <4>1, <4>2, <1>s, <1>t
    <3>3. QED
      BY <3>1, <3>2
  <2>6. QED
    BY <2>4, <2>5 DEF TaskInv
<1>5. AppliedIsApplied'
  <2> SUFFICES ASSUME NEW e \in Dev, NEW g \in File
               PROVE  Follows(log', ckpt[e], g, row'[e][g]) \/ <<e, g>> \in unseen
    BY <1>l, FollowsIs
  <2>1. Follows(log, ckpt[e], g, row[e][g]) \/ <<e, g>> \in unseen
    BY FollowsIs DEF FollowsInv
  <2>2. LiveOf(log', ckpt[e], g) = LiveOf(log, ckpt[e], g)
    <3>1. ckpt[e] \in Nat /\ \A i \in 1..ckpt[e] : log'[i] = log[i]
      BY <1>c, <1>s, <1>t
    <3>2. QED
      BY <3>1, SamePrefix
  <2>3. CASE <<e, g>> = <<d, f>> /\ kind = "write"
    BY <2>3, <1>r, <1>c, <1>t DEF Follows
  <2>4. CASE <<e, g>> = <<d, f>> /\ kind = "delete"
    <3>1. LogOf(log', n, f) = Gone
      <4>1. PICK m \in 1..n : LastOn(log', n, f, m)
              /\ LogOf(log', n, f) = IF log'[m].kind = "delete" THEN Gone ELSE m
        <5>1. n \in Nat /\ n \in 1..n /\ log'[n].file = f
          BY <1>s, <1>t
        <5>2. QED
          BY <5>1, LogOfIs
      <4>2. m = n
        BY <4>1, <1>s, <1>t DEF LastOn
      <4>3. QED
        BY <4>1, <4>2, <1>s, <2>4
    <3>2. QED
      BY <3>1, <2>4, <1>r, <1>s DEF Follows
  <2>5. CASE <<e, g>> # <<d, f>> /\ Follows(log, ckpt[e], g, row[e][g])
    <3>1. row'[e][g] = row[e][g]
      BY <2>5, <1>r
    <3>2. CASE ~(row[e][g] = 0 /\ LogOf(log, Len(log), g) = Gone)
      BY <3>1, <3>2, <2>2, <2>5 DEF Follows
    <3>3. CASE row[e][g] = 0 /\ LogOf(log, Len(log), g) = Gone
      <4>1. g # f
        BY <3>3, <1>l, <1>c, <1>t DEF Gone
      <4>2. LogOf(log', n, g) = LogOf(log', Tip, g)
        BY <4>1, <1>s, <1>t, SameUntil
      <4>3. LogOf(log', Tip, g) = LogOf(log, Tip, g)
        BY <1>s, <1>t, SamePrefix
      <4>4. QED
        BY <3>1, <3>3, <4>2, <4>3, <1>s, <1>t DEF Follows
    <3>4. QED
      BY <3>2, <3>3
  <2>6. QED
    BY <2>1, <2>3, <2>4, <2>5, <1>r
<1>6. ShotInv' /\ MarkInv' /\ cursor' \in CursorType
  BY <1>l, <1>t DEF ShotInv, MarkInv
<1>7. QED
  BY <1>1, <1>2, <1>3, <1>4, <1>5, <1>6 DEF FollowsInv, Typed

-----------------------------------------------------------------------------
(* The theorems.                                                           *)

(* Every step keeps the invariant. *)
LEMMA StepKeeps == FollowsInv /\ [Next]_vars => FollowsInv'
<1> SUFFICES ASSUME FollowsInv, [Next]_vars PROVE FollowsInv'
  OBVIOUS
<1>1. ASSUME NEW d \in Dev, Maintain(d) PROVE FollowsInv'
  BY <1>1, MaintainKeeps
<1>2. ASSUME NEW d \in Dev, Sync(d) PROVE FollowsInv'
  BY <1>2, PutEntryKeeps, ApplyKeeps, StartScanKeeps, ScanTreeKeeps DEF Sync
<1>3. ASSUME NEW d \in Dev, Stop(d) \/ Lapse(d) \/ Retire(d) PROVE FollowsInv'
  BY <1>3, OthersKeep
<1>4. ASSUME NEW d \in Dev, NEW f \in File, NEW k \in {"write", "delete"}, Commit(d, f, k)
      PROVE  FollowsInv'
  BY <1>4, CommitKeeps
<1>5. CASE UNCHANGED vars
  <2>1. UNCHANGED <<log, kept, tree, snap, latest, cursor, reg, mark, ckpt, row, unseen, task>>
    BY <1>5 DEF vars, bucket, shots, marks, copy
  <2>2. LogInv' /\ TreeInv' /\ CopyInv' /\ AppliedIsApplied' /\ Tip' = Tip
    BY <2>1, LogStays DEF Tip
  <2>3. QED
    BY <2>1, <2>2 DEF FollowsInv, Typed, ShotInv, MarkInv, TaskInv
<1>6. QED
  BY <1>1, <1>2, <1>3, <1>4, <1>5 DEF Next

(* The bucket, the copies and the tasks of the devices keep their types,   *)
(* and only committed operations are stored (compaction.rs, snapshots.rs). *)
THEOREM TypeCorrect == Spec => []TypeOK
<1>1. Spec => []FollowsInv
  BY InitTyped, StepKeeps, PTL DEF Spec
<1>2. FollowsInv => TypeOK
  BY TypedIsTypeOK DEF FollowsInv
<1>3. QED
  BY <1>1, <1>2, PTL

(* The copy a device holds of a file is what the log says after the        *)
(* device's checkpoint, or later, unless a tree scan read the file's entry *)
(* while its put was outstanding or lost (poll_remote_changes).            *)
THEOREM AppliedHolds == Spec => []AppliedIsApplied
<1>1. Spec => []FollowsInv
  BY InitTyped, StepKeeps, PTL DEF Spec
<1>2. FollowsInv => AppliedIsApplied
  BY DEF FollowsInv
<1>3. QED
  BY <1>1, <1>2, PTL
=============================================================================
