----------------------- MODULE OpLogRefinementProofs -----------------------
(***************************************************************************)
(* Machine-checked proofs that the object of a committed operation is only *)
(* ever deleted by compaction, and that OpLog implements CommitLog, for    *)
(* any number of requests, faults and late head PUTs.                      *)
(*                                                                         *)
(* The refinement adds to the invariant of OpLogLandingProofs what each    *)
(* request was decided on: whatever can still land of it has nothing of    *)
(* its target between that head and its base (DecidedInv), and what its    *)
(* caller was told stays true (AnswerInv).                                 *)
(***************************************************************************)
EXTENDS OpLogLandingProofs, SequenceTheorems

-----------------------------------------------------------------------------
(* Operation objects.                                                      *)

\* What may land next has its operation object, unless compaction took it.
StoredInv ==
  /\ \A r \in Requests : pc[r] = "cas" => Attempt(r) \in stored \cup pruned
  /\ \A m \in inFlight : m.op.base < Len(log) \/ m.op \in stored \cup pruned

ReadableInv == LandingInv /\ CommittedReadable /\ StoredInv

(* No step deletes an operation object without a trace, but for an attempt *)
(* that lost.                                                              *)
LEMMA KeptStep ==
  ASSUME TypeOK, CommittedReadable, StoredInv, log' = log,
         stored \cup pruned \subseteq stored' \cup pruned',
         \A r \in Requests : pc'[r] = "cas" =>
           \/ pc[r] = "cas" /\ base'[r] = base[r]
           \/ Attempt(r)' \in stored',
         \A m \in inFlight' :
           m \in inFlight \/ \E r \in Requests : pc[r] = "cas" /\ m.op = Attempt(r)
  PROVE  CommittedReadable' /\ StoredInv'
<1>1. CommittedReadable'
  BY DEF CommittedReadable, LogSet
<1>2. ASSUME NEW r \in Requests, pc'[r] = "cas"
      PROVE  Attempt(r)' \in stored' \cup pruned'
  BY <1>2 DEF StoredInv, Attempt
<1>3. ASSUME NEW m \in inFlight'
      PROVE  m.op.base < Len(log) \/ m.op \in stored' \cup pruned'
  BY <1>3 DEF StoredInv
<1>4. QED
  BY <1>1, <1>2, <1>3 DEF StoredInv

(* A landing operation has its object. *)
LEMMA LandedKept ==
  ASSUME TypeOK, LandsOnBase, CommittedReadable, StoredInv, NEW o \in Op,
         o \in stored \cup pruned, log' = Append(log, o),
         UNCHANGED <<stored, pruned, base>>, inFlight' \subseteq inFlight,
         \A r \in Requests : pc'[r] = "cas" => pc[r] = "cas"
  PROVE  CommittedReadable' /\ StoredInv'
<1>1. /\ Len(log) \in Nat /\ Len(log') = Len(log) + 1 /\ DOMAIN log = 1..Len(log)
      /\ DOMAIN log' = 1..(Len(log) + 1)
      /\ \A k \in DOMAIN log : log'[k] = log[k]
      /\ log'[Len(log) + 1] = o
  BY Appended
<1>2. CommittedReadable'
  BY <1>1 DEF CommittedReadable, LogSet
<1>3. \A r \in Requests : pc'[r] = "cas" => Attempt(r)' \in stored \cup pruned
  BY DEF StoredInv, Attempt
<1>4. \A m \in inFlight' : m.op.base < Len(log') \/ m.op \in stored \cup pruned
  BY <1>1, InFlightType DEF StoredInv, LandsOnBase
<1>5. QED
  BY <1>2, <1>3, <1>4 DEF StoredInv

(* The orphan that VerifyRebase deletes never landed and never will. *)
LEMMA OrphanStep ==
  ASSUME CoreInv, CommittedReadable, StoredInv, NEW r \in Requests, RequestInv(r),
         VerifyRebase(r)
  PROVE  CommittedReadable' /\ StoredInv'
<1>t. TypeOK
  BY DEF CoreInv
<1>1. /\ pc[r] = "verify" /\ SinceCommitted(r) /\ UNCHANGED <<log, pruned, inFlight, base>>
      /\ pc'[r] # "cas" /\ \A q \in Requests : q # r => pc'[q] = pc[q]
      /\ stored' \in {stored, stored \ {Attempt(r)}}
  BY <1>t DEF VerifyRebase, Return, TypeOK
<1>2. \A k \in DOMAIN log : log[k].req # r
  BY <1>1, NothingLanded
<1>3. Attempt(r) \notin LogSet
  BY <1>2 DEF LogSet, Attempt
<1>4. CommittedReadable'
  BY <1>1, <1>3 DEF CommittedReadable, LogSet
<1>5. base[r] < Len(log) /\ Attempt(r).base = base[r] /\ Attempt(r).req = r
  BY <1>1, <1>t DEF CoreInv, BaseInv, LoadInv, TypeOK, Attempt
<1>6. \A q \in Requests : pc'[q] = "cas" => Attempt(q)' \in stored' \cup pruned'
  BY <1>1, <1>5 DEF StoredInv, Attempt
<1>7. \A m \in inFlight : m.op.base < Len(log) \/ m.op \in stored' \cup pruned'
  BY <1>1, <1>5 DEF StoredInv
<1>8. QED
  BY <1>1, <1>4, <1>6, <1>7 DEF StoredInv

(* Every step keeps the operation objects of what landed or may land. *)
LEMMA ReadableStep == ReadableInv /\ [Next]_vars => ReadableInv'
<1> SUFFICES ASSUME ReadableInv, [Next]_vars PROVE ReadableInv'
  OBVIOUS
<1>c. /\ LandingInv /\ CoreInv /\ TypeOK /\ LandsOnBase /\ CommittedReadable /\ StoredInv
      /\ \A q \in Requests : RequestInv(q)
  BY DEF ReadableInv, LandingInv, CoreInv
<1>n. LandingInv'
  BY <1>c, LandingStep
<1> DEFINE Kept == CommittedReadable' /\ StoredInv'
<1>1. ASSUME NEW r \in Requests, StepOf(r), ~AdvanceHead(r), ~VerifyRebase(r) PROVE Kept
  <2>1. log' = log /\ \A q \in Requests : q # r => Untouched(q)
    BY <1>1, <1>c, Footprint
  <2>2. \A m \in inFlight' : m \in inFlight \/ (pc[r] = "cas" /\ m.op = Attempt(r))
    BY <1>1 DEF StepOf, Progress, HeadBefore, GetHead, HeadStable, HeadMoved,
       SearchFound, SearchAbsent, SearchAmbiguous, Prepare, WriteOperation,
       HeadRejected, RecordCommitted, VerifyOwn, VerifyUnverifiable, Start, Retry,
       Fail, ResendHead, bucketVars
  <2>3. stored \cup pruned \subseteq stored' \cup pruned'
    BY <1>1 DEF StepOf, Progress, HeadBefore, GetHead, HeadStable, HeadMoved,
       SearchFound, SearchAbsent, SearchAmbiguous, Prepare, WriteOperation,
       HeadRejected, RecordCommitted, VerifyOwn, VerifyUnverifiable, Start, Retry,
       Fail, ResendHead, bucketVars
  <2>4. pc'[r] = "cas" => \/ pc[r] = "cas" /\ base'[r] = base[r]
                          \/ Attempt(r)' \in stored'
    <3>1. CASE WriteOperation(r)
      BY <3>1 DEF WriteOperation, Attempt
    <3>2. CASE ResendHead(r)
      BY <3>2 DEF ResendHead, callVars
    <3>3. CASE ~WriteOperation(r) /\ ~ResendHead(r)
      <4>1. pc \in [Requests -> Phases] /\ AfterLoad(r) \in {"prepare", "search", "verify"}
        BY <1>c, AfterLoadType DEF TypeOK
      <4>2. pc'[r] # "cas"
        BY <1>1, <3>3, <4>1 DEF StepOf, Progress, HeadBefore, GetHead, HeadStable,
           HeadMoved, SearchFound, SearchAbsent, SearchAmbiguous, Prepare,
           HeadRejected, RecordCommitted, VerifyOwn, VerifyUnverifiable, Start,
           Retry, Fail, Return
      <4>3. QED
        BY <4>2
    <3>4. QED
      BY <3>1, <3>2, <3>3
  <2>5. \A q \in Requests : pc'[q] = "cas" =>
          \/ pc[q] = "cas" /\ base'[q] = base[q]
          \/ Attempt(q)' \in stored'
    BY <2>1, <2>4 DEF Untouched
  <2>6. QED
    BY <2>1, <2>2, <2>3, <2>5, <1>c, KeptStep
<1>2. ASSUME NEW r \in Requests, AdvanceHead(r) PROVE Kept
  <2>1. /\ log' = Append(log, Attempt(r)) /\ UNCHANGED <<stored, pruned, base, inFlight>>
        /\ pc[r] = "cas" /\ \A q \in Requests : pc'[q] = "cas" => pc[q] = "cas"
    BY <1>2, <1>c DEF AdvanceHead, Return, TypeOK
  <2>2. Attempt(r) \in Op /\ Attempt(r) \in stored \cup pruned
    BY <2>1, <1>c, AttemptType DEF StoredInv
  <2>3. QED
    BY <2>1, <2>2, <1>c, LandedKept
<1>3. ASSUME NEW r \in Requests, VerifyRebase(r) PROVE Kept
  BY <1>3, <1>c, OrphanStep
<1>4. ASSUME NEW m \in inFlight, LatePut(m) PROVE Kept
  <2>1. /\ log' = Append(log, m.op) /\ UNCHANGED <<stored, pruned, base, pc>>
        /\ inFlight' \subseteq inFlight /\ m.etag = Len(log)
    BY <1>4 DEF LatePut, callVars
  <2>2. m.op \in Op /\ m.op.base = Len(log) /\ Len(log) \in Nat
    BY <2>1, <1>c, InFlightType DEF LandsOnBase, TypeOK
  <2>3. m.op \in stored \cup pruned
    BY <2>2, <1>c DEF StoredInv
  <2>4. QED
    BY <2>1, <2>2, <2>3, <1>c, LandedKept
<1>5. ASSUME NEW i \in DOMAIN log, Prune(i) PROVE Kept
  <2>1. /\ UNCHANGED <<log, inFlight, pc, base>>
        /\ stored \cup pruned \subseteq stored' \cup pruned'
    BY <1>5 DEF Prune, callVars
  <2>2. QED
    BY <2>1, <1>c, KeptStep
<1>6. ASSUME UNCHANGED vars PROVE Kept
  <2>1. /\ UNCHANGED <<log, inFlight, pc, base>>
        /\ stored \cup pruned \subseteq stored' \cup pruned'
    BY <1>6 DEF vars, bucketVars, callVars
  <2>2. QED
    BY <2>1, <1>c, KeptStep
<1>7. QED
  BY <1>n, <1>1, <1>2, <1>3, <1>4, <1>5, <1>6 DEF Next, StepOf, ReadableInv

(* The object of a committed operation is only ever deleted by compaction, *)
(* never as the orphan of an attempt that lost (discard_orphan_operation), *)
(* nor by the retry of a request whose first head PUT still travels.       *)
THEOREM ReadableHolds == Spec => []CommittedReadable
<1>1. Init => ReadableInv
  BY LandingInit DEF Init, ReadableInv, CommittedReadable, StoredInv, LogSet
<1>2. ReadableInv => CommittedReadable
  BY DEF ReadableInv
<1>3. QED
  BY <1>1, <1>2, ReadableStep, PTL DEF Spec

-----------------------------------------------------------------------------
(* What a request was decided on, and what its caller was told.            *)

\* Nothing was committed for the target of r after since[r] up to h.
CleanUpTo(r, h) == \A j \in (since[r] + 1)..h : ~SameTarget(log[j], r)

Landed(r) == \E k \in DOMAIN log : log[k].req = r

\* Something was committed for the target of r after since[r].
Overtaken(r) == \E j \in (since[r] + 1)..Len(log) : SameTarget(log[j], r)

\* The first recorded attempt was decided on since[r], and everything of r
\* that may land, or did, has only foreign targets between since[r] and it.
DecidedInv(r) ==
  /\ since[r] <= Len(log)
  /\ Attempting(r) => since[r] <= base[r] /\ CleanUpTo(r, base[r])
  /\ pc[r] = "prepare" => since[r] <= cur[r] /\ CleanUpTo(r, cur[r])
  /\ pc[r] = "prepare" /\ stage[r] = "start" => since[r] = cur[r]
  /\ attempts[r] # <<>> => attempts[r][1] = since[r]
  /\ Fresh(r) => attempts[r] = <<>>
  /\ pc[r] = "prepare" /\ stage[r] # "start" /\ r \in Durable => attempts[r] # <<>>
  /\ \A k \in DOMAIN log : log[k].req = r => CleanUpTo(r, log[k].base)
  /\ \A m \in inFlight : m.op.req = r => CleanUpTo(r, m.op.base)

\* A journal confirms what landed, and a refused request was overtaken and
\* does not decide again.
AnswerInv(r) ==
  /\ pc[r] # "done" => answer[r] = "none"
  /\ confirmed[r] # NoBase \/ pc[r] = "record" => Landed(r)
  /\ r \in refused =>
       Overtaken(r) /\ (attempts[r] # <<>> \/ (r \notin Durable /\ pc[r] = "done"))

RefinementInv == LandingInv /\ \A r \in Requests : DecidedInv(r) /\ AnswerInv(r)

(* What was clean or overtaken stays so while the log grows. *)
LEMMA CleanStable ==
  ASSUME TypeOK, NEW r \in Requests, since'[r] = since[r], since[r] <= Len(log),
         log' = log \/ \E o \in Op : log' = Append(log, o)
  PROVE  /\ \A h \in Nat : h <= Len(log) /\ CleanUpTo(r, h) =>
              \A j \in (since'[r] + 1)..h : ~SameTarget(log'[j], r)
         /\ Landed(r) => Landed(r)'
         /\ Overtaken(r) => Overtaken(r)'
<1>1. /\ Len(log) \in Nat /\ Len(log') \in Nat /\ Len(log) <= Len(log')
      /\ DOMAIN log = 1..Len(log) /\ DOMAIN log \subseteq DOMAIN log'
      /\ \A k \in DOMAIN log : log'[k] = log[k]
  BY LogGrows, RequestType
<1>2. since[r] \in Nat
  BY DEF TypeOK
<1>3. \A j \in (since[r] + 1)..Len(log) : j \in DOMAIN log /\ log'[j] = log[j]
  BY <1>1, <1>2
<1>4. ASSUME NEW h \in Nat, h <= Len(log), CleanUpTo(r, h), NEW j \in (since'[r] + 1)..h
      PROVE  ~SameTarget(log'[j], r)
  <2>1. j \in (since[r] + 1)..Len(log) /\ j \in (since[r] + 1)..h
    BY <1>1, <1>2, <1>4
  <2>2. ~SameTarget(log[j], r)
    BY <2>1, <1>4 DEF CleanUpTo
  <2>3. QED
    BY <2>1, <2>2, <1>3
<1>5. Landed(r) => Landed(r)'
  BY <1>1 DEF Landed
<1>6. Overtaken(r) => Overtaken(r)'
  <2> SUFFICES ASSUME Overtaken(r) PROVE Overtaken(r)'
    OBVIOUS
  <2>1. PICK j \in (since[r] + 1)..Len(log) : SameTarget(log[j], r)
    BY DEF Overtaken
  <2>2. j \in (since'[r] + 1)..Len(log') /\ log'[j] = log[j]
    BY <1>1, <1>2, <1>3
  <2>3. SameTarget(log'[j], r)
    BY <2>1, <2>2
  <2>4. QED
    BY <2>2, <2>3 DEF Overtaken, SameTarget
<1>7. QED
  BY <1>4, <1>5, <1>6

\* A step that says nothing to the caller of r and does not decide it.
Unheard(r) ==
  /\ since'[r] = since[r] /\ answer'[r] = answer[r] /\ confirmed'[r] = confirmed[r]
  /\ r \in refused' <=> r \in refused

(* A step that leaves a request alone. *)
LEMMA OtherDecided ==
  ASSUME CoreInv, NEW r \in Requests, DecidedInv(r), AnswerInv(r),
         Untouched(r), Unheard(r), NothingNew(r)
  PROVE  DecidedInv(r)' /\ AnswerInv(r)'
<1>t. TypeOK
  BY DEF CoreInv
<1>1. /\ Len(log) \in Nat /\ Len(log') \in Nat /\ Len(log) <= Len(log')
      /\ DOMAIN log = 1..Len(log)
      /\ \A k \in DOMAIN log : log'[k] = log[k]
  BY <1>t, LogGrows, RequestType DEF NothingNew
<1>2. ASSUME NEW k \in DOMAIN log', log'[k].req = r
      PROVE  k \in DOMAIN log /\ log'[k] = log[k]
  <2>1. CASE log' = log
    BY <2>1, <1>2
  <2>2. ASSUME NEW o \in Op, o.req # r, log' = Append(log, o)
        PROVE  k \in DOMAIN log
    BY <2>2, <1>2, <1>t, Appended
  <2>3. QED
    BY <2>1, <2>2, <1>1 DEF NothingNew
<1>3. \A m \in inFlight' : m.op.req = r => m \in inFlight
  BY DEF NothingNew
<1>4. (Attempting(r)' <=> Attempting(r)) /\ (Fresh(r)' <=> Fresh(r))
  BY DEF Untouched, Attempting, Fresh, Loading
<1>5. /\ base[r] \in Nat /\ cur[r] \in Nat /\ base[r] <= Len(log) /\ cur[r] <= Len(log)
      /\ \A m \in inFlight : m.op.base <= Len(log) /\ m.op.base \in Nat
      /\ \A k \in DOMAIN log : log[k].base <= Len(log) /\ log[k].base \in Nat
  BY <1>t, <1>1, RequestType DEF CoreInv, BaseInv, LoadInv, LandsOnBase, ChainUnbroken
<1>6. /\ \A h \in Nat : h <= Len(log) /\ CleanUpTo(r, h) =>
           \A j \in (since'[r] + 1)..h : ~SameTarget(log'[j], r)
      /\ Landed(r) => Landed(r)'
      /\ Overtaken(r) => Overtaken(r)'
      /\ since'[r] = since[r] /\ since[r] \in Nat
  <2>1. since'[r] = since[r] /\ since[r] <= Len(log)
    BY DEF Unheard, DecidedInv
  <2>2. log' = log \/ \E o \in Op : log' = Append(log, o)
    BY DEF NothingNew
  <2>3. since[r] \in Nat
    BY <1>t DEF TypeOK
  <2>4. QED
    BY <2>1, <2>2, <2>3, <1>t, CleanStable
<1>7. /\ base'[r] = base[r] /\ cur'[r] = cur[r] /\ pc'[r] = pc[r]
      /\ stage'[r] = stage[r] /\ attempts'[r] = attempts[r]
  BY DEF Untouched
<1>8. since'[r] <= Len(log')
  BY <1>1, <1>6 DEF DecidedInv
<1>9. Attempting(r)' => since'[r] <= base'[r] /\ CleanUpTo(r, base[r])'
  BY <1>4, <1>5, <1>6, <1>7 DEF DecidedInv, CleanUpTo
<1>10. pc'[r] = "prepare" => since'[r] <= cur'[r] /\ CleanUpTo(r, cur[r])'
  BY <1>5, <1>6, <1>7 DEF DecidedInv, CleanUpTo
<1>11. \A k \in DOMAIN log' : log'[k].req = r => CleanUpTo(r, log[k].base)'
  BY <1>2, <1>5, <1>6 DEF DecidedInv, CleanUpTo
<1>12. \A m \in inFlight' : m.op.req = r => CleanUpTo(r, m.op.base)'
  BY <1>3, <1>5, <1>6 DEF DecidedInv, CleanUpTo
<1>13. DecidedInv(r)'
  BY <1>4, <1>6, <1>7, <1>8, <1>9, <1>10, <1>11, <1>12 DEF DecidedInv
<1>14. AnswerInv(r)'
  BY <1>6, <1>7 DEF AnswerInv, Unheard
<1>15. QED
  BY <1>13, <1>14

-----------------------------------------------------------------------------
(* Decisions, over the steps of the request itself.                        *)

(* Nothing new is decided and nothing new can land. *)
LEMMA QuietDecided ==
  ASSUME NEW r \in Requests, DecidedInv(r),
         UNCHANGED <<log, inFlight>>, base'[r] = base[r], attempts'[r] = attempts[r],
         since'[r] = since[r], pc'[r] \notin {"search", "prepare", "verify"},
         Attempting(r)' => Attempting(r), Fresh(r)' => Fresh(r)
  PROVE  DecidedInv(r)'
<1>1. \A h : CleanUpTo(r, h) => \A j \in (since'[r] + 1)..h : ~SameTarget(log'[j], r)
  BY DEF CleanUpTo
<1>2. /\ Attempting(r)' => since'[r] <= base'[r] /\ CleanUpTo(r, base[r])'
      /\ \A k \in DOMAIN log' : log'[k].req = r => CleanUpTo(r, log[k].base)'
      /\ \A m \in inFlight' : m.op.req = r => CleanUpTo(r, m.op.base)'
  BY DEF DecidedInv, CleanUpTo
<1>3. QED
  BY <1>2 DEF DecidedInv

(* The head is loaded; before its first attempt, the request is decided on *)
(* it.                                                                     *)
LEMMA LoadedDecided ==
  ASSUME CoreInv, NEW r \in Requests, RequestInv(r), DecidedInv(r), Loading(r),
         UNCHANGED <<log, inFlight>>, base'[r] = base[r], attempts'[r] = attempts[r],
         stage'[r] = stage[r], cur'[r] = Len(log), pc'[r] = AfterLoad(r),
         since'[r] = IF stage[r] = "start" THEN Len(log) ELSE since[r]
  PROVE  DecidedInv(r)'
<1>t. TypeOK
  BY DEF CoreInv
<1>1. /\ pc'[r] = "prepare" <=> stage[r] = "start"
      /\ pc'[r] \in {"prepare", "search", "verify"}
      /\ pc'[r] = "verify" <=> stage[r] = "rebase"
      /\ Len(log) \in Nat
  BY <1>t, AfterLoadType, RequestType DEF AfterLoad
<1>2. (Attempting(r)' <=> Attempting(r)) /\ (Fresh(r)' <=> Fresh(r))
  BY <1>1 DEF Attempting, Fresh, Loading
<1>3. CASE stage[r] = "start"
  <2>1. Fresh(r) /\ ~Attempting(r)
    BY <1>3 DEF Fresh, Attempting, Loading
  <2>2. /\ \A k \in DOMAIN log : log[k].req # r
        /\ \A m \in inFlight : m.op.req # r
        /\ attempts[r] = <<>>
    BY <2>1 DEF RequestInv, FreshInv, DecidedInv
  <2>3. since'[r] = Len(log) /\ cur'[r] = Len(log)
    BY <1>3
  <2>4. CleanUpTo(r, cur[r])'
    BY <2>3, <1>1 DEF CleanUpTo
  <2>5. QED
    BY <1>1, <1>2, <1>3, <2>1, <2>2, <2>3, <2>4 DEF DecidedInv
<1>4. CASE stage[r] # "start"
  <2>1. since'[r] = since[r] /\ pc'[r] # "prepare"
    BY <1>1, <1>4
  <2>2. /\ Attempting(r)' => since'[r] <= base'[r] /\ CleanUpTo(r, base[r])'
        /\ \A k \in DOMAIN log' : log'[k].req = r => CleanUpTo(r, log[k].base)'
        /\ \A m \in inFlight' : m.op.req = r => CleanUpTo(r, m.op.base)'
    BY <1>2, <2>1 DEF DecidedInv, CleanUpTo
  <2>3. QED
    BY <1>2, <2>1, <2>2 DEF DecidedInv
<1>5. QED
  BY <1>3, <1>4

(* A call starts. *)
LEMMA StartDecided ==
  ASSUME NEW r \in Requests, RequestInv(r), DecidedInv(r), pc[r] = "idle",
         UNCHANGED <<log, inFlight>>, base'[r] = base[r], attempts'[r] = attempts[r],
         since'[r] = since[r], stage'[r] = FirstStage(r), pc'[r] = "head"
  PROVE  DecidedInv(r)'
<1>1. ~Attempting(r)' /\ (Fresh(r)' => attempts[r] = <<>>)
  BY DEF Attempting, Fresh, Loading, FirstStage
<1>2. /\ \A k \in DOMAIN log' : log'[k].req = r => CleanUpTo(r, log[k].base)'
      /\ \A m \in inFlight' : m.op.req = r => CleanUpTo(r, m.op.base)'
  BY DEF DecidedInv, CleanUpTo
<1>3. QED
  BY <1>1, <1>2 DEF DecidedInv

(* The next attempt is clean up to the head it will build on, once the     *)
(* chain above what was known before holds no other change of the target.  *)
LEMMA CleanDecided ==
  ASSUME CoreInv, NEW r \in Requests, RequestInv(r), DecidedInv(r),
         stage[r] # "start", r \in Durable => attempts[r] # <<>>,
         NEW h \in Nat, since[r] <= h, h <= cur[r], CleanUpTo(r, h),
         \A k \in (h + 1)..cur[r] : ~SameTarget(log[k], r),
         UNCHANGED <<log, inFlight>>, base'[r] = base[r], attempts'[r] = attempts[r],
         since'[r] = since[r], stage'[r] = stage[r], cur'[r] = cur[r], pc'[r] = "prepare"
  PROVE  DecidedInv(r)'
<1>1. ~Attempting(r)' /\ ~Fresh(r)'
  BY DEF Attempting, Fresh, Loading
<1>2. since[r] \in Nat /\ cur[r] \in Nat /\ Len(log) \in Nat
  BY DEF CoreInv, TypeOK
<1>3. CleanUpTo(r, cur[r])' /\ since'[r] <= cur'[r]
  BY <1>2 DEF CleanUpTo
<1>4. /\ \A k \in DOMAIN log' : log'[k].req = r => CleanUpTo(r, log[k].base)'
      /\ \A m \in inFlight' : m.op.req = r => CleanUpTo(r, m.op.base)'
  BY DEF DecidedInv, CleanUpTo
<1>5. QED
  BY <1>1, <1>3, <1>4 DEF DecidedInv

(* The attempt is built on the loaded head. *)
LEMMA PrepareDecided ==
  ASSUME CoreInv, NEW r \in Requests, RequestInv(r), DecidedInv(r), Prepare(r)
  PROVE  DecidedInv(r)' /\ (attempts[r] # <<>> => attempts'[r] # <<>>)
<1>t. TypeOK
  BY DEF CoreInv
<1>1. /\ UNCHANGED <<log, inFlight, since>> /\ pc[r] = "prepare"
      /\ base'[r] = cur[r] /\ pc'[r] = "write" /\ cur'[r] = cur[r]
      /\ \/ attempts'[r] = attempts[r]
         \/ r \in Durable /\ attempts'[r] = Append(attempts[r], cur[r])
  BY <1>t DEF Prepare, NextBase, RecordAttempt, bucketVars, loadVars, ghostVars, TypeOK
<1>2. attempts[r] \in Seq(Nat) /\ cur[r] \in Nat
  BY <1>t, RequestType
<1>3. Attempting(r)' /\ ~Fresh(r)'
  BY <1>1 DEF Attempting, Fresh, Loading
<1>4. attempts[r] # <<>> => attempts'[r] # <<>> /\ attempts'[r][1] = attempts[r][1]
  BY <1>1, <1>2
<1>5. attempts'[r] # <<>> => attempts'[r][1] = since'[r]
  <2>1. CASE attempts[r] # <<>>
    BY <1>1, <1>4, <2>1 DEF DecidedInv
  <2>2. CASE attempts[r] = <<>> /\ r \in Durable
    <3>1. since[r] = cur[r]
      BY <1>1, <2>2 DEF DecidedInv
    <3>2. QED
      BY <1>1, <1>2, <2>2, <3>1
  <2>3. CASE attempts[r] = <<>> /\ r \notin Durable
    BY <1>1, <2>3
  <2>4. QED
    BY <2>1, <2>2, <2>3
<1>6. /\ since'[r] <= base'[r] /\ CleanUpTo(r, base[r])'
      /\ \A k \in DOMAIN log' : log'[k].req = r => CleanUpTo(r, log[k].base)'
      /\ \A m \in inFlight' : m.op.req = r => CleanUpTo(r, m.op.base)'
  BY <1>1 DEF DecidedInv, CleanUpTo
<1>7. since'[r] <= Len(log')
  BY <1>1 DEF DecidedInv
<1>8. QED
  BY <1>1, <1>3, <1>4, <1>5, <1>6, <1>7 DEF DecidedInv

(* The head PUT of the attempt is left to travel on. *)
LEMMA LeftDecided ==
  ASSUME CoreInv, NEW r \in Requests, DecidedInv(r), pc[r] = "cas",
         log' = log, base'[r] = base[r], attempts'[r] = attempts[r],
         since'[r] = since[r], pc'[r] \in {"cas", "done"},
         \A m \in inFlight' : m \in inFlight \/ m.op = Attempt(r)
  PROVE  DecidedInv(r)'
<1>1. Attempting(r) /\ ~Fresh(r)'
  BY DEF Attempting, Fresh, Loading
<1>2. \A m \in inFlight' : m \in inFlight \/ m.op.base = base[r]
  BY DEF Attempt
<1>3. /\ since'[r] <= base'[r] /\ CleanUpTo(r, base[r])'
      /\ \A k \in DOMAIN log' : log'[k].req = r => CleanUpTo(r, log[k].base)'
      /\ \A m \in inFlight' : m.op.req = r => CleanUpTo(r, m.op.base)'
  BY <1>1, <1>2 DEF DecidedInv, CleanUpTo
<1>4. QED
  BY <1>1, <1>3 DEF DecidedInv

(* An operation of the request lands. *)
LEMMA LandDecided ==
  ASSUME CoreInv, NEW r \in Requests, DecidedInv(r), NEW o \in Op, o.req = r,
         o.base = Len(log), CleanUpTo(r, o.base), ~Fresh(r),
         log' = Append(log, o), inFlight' \subseteq inFlight,
         base'[r] = base[r], attempts'[r] = attempts[r], stage'[r] = stage[r],
         cur'[r] = cur[r], since'[r] = since[r],
         pc'[r] = pc[r] \/ pc'[r] \in {"record", "done"}
  PROVE  DecidedInv(r)'
<1>t. TypeOK
  BY DEF CoreInv
<1>1. /\ Attempting(r)' => Attempting(r)
      /\ ~Fresh(r)'
      /\ pc'[r] = "prepare" => pc[r] = "prepare"
  BY DEF Attempting, Fresh, Loading
<1>2. /\ Len(log) \in Nat /\ Len(log') = Len(log) + 1
      /\ DOMAIN log = 1..Len(log) /\ DOMAIN log' = 1..(Len(log) + 1)
      /\ \A k \in DOMAIN log : log'[k] = log[k]
      /\ log'[Len(log) + 1] = o
  BY <1>t, Appended
<1>3. \A h \in Nat : h <= Len(log) /\ CleanUpTo(r, h) =>
        \A j \in (since'[r] + 1)..h : ~SameTarget(log'[j], r)
  BY <1>t, CleanStable DEF DecidedInv
<1>4. /\ base[r] \in Nat /\ cur[r] \in Nat /\ base[r] <= Len(log) /\ cur[r] <= Len(log)
      /\ \A m \in inFlight : m.op.base <= Len(log) /\ m.op.base \in Nat
      /\ \A k \in DOMAIN log : log[k].base <= Len(log) /\ log[k].base \in Nat
      /\ since[r] \in Nat
  <2>1. since[r] \in Nat
    BY <1>t DEF TypeOK
  <2>2. QED
    BY <2>1, <1>t, <1>2, RequestType
    DEF CoreInv, BaseInv, LoadInv, LandsOnBase, ChainUnbroken
<1>5. Attempting(r)' => since'[r] <= base'[r] /\ CleanUpTo(r, base[r])'
  BY <1>1, <1>3, <1>4 DEF DecidedInv, CleanUpTo
<1>6. pc'[r] = "prepare" => since'[r] <= cur'[r] /\ CleanUpTo(r, cur[r])'
  BY <1>1, <1>3, <1>4 DEF DecidedInv, CleanUpTo
<1>7. \A k \in DOMAIN log' : log'[k].req = r => CleanUpTo(r, log[k].base)'
  <2> SUFFICES ASSUME NEW k \in DOMAIN log', log'[k].req = r
               PROVE  CleanUpTo(r, log[k].base)'
    OBVIOUS
  <2>1. CASE k \in DOMAIN log
    <3>1. log'[k] = log[k] /\ log[k].req = r
      BY <2>1, <1>2
    <3>2. CleanUpTo(r, log[k].base) /\ log[k].base \in Nat /\ log[k].base <= Len(log)
      BY <2>1, <3>1, <1>4 DEF DecidedInv
    <3>3. \A j \in (since'[r] + 1)..(log[k].base) : ~SameTarget(log'[j], r)
      BY <3>2, <1>3
    <3>4. QED
      BY <3>1, <3>3 DEF CleanUpTo, SameTarget
  <2>2. CASE k = Len(log) + 1
    <3>1. log'[k] = o
      BY <2>2, <1>2
    <3>2. \A j \in (since'[r] + 1)..(o.base) : ~SameTarget(log'[j], r)
      <4>1. o.base \in Nat /\ o.base <= Len(log)
        BY <1>2
      <4>2. QED
        BY <4>1, <1>3
    <3>3. QED
      BY <3>1, <3>2 DEF CleanUpTo, SameTarget
  <2>3. QED
    BY <2>1, <2>2, <1>2
<1>8. \A m \in inFlight' : m.op.req = r => CleanUpTo(r, m.op.base)'
  BY <1>3, <1>4 DEF DecidedInv, CleanUpTo
<1>9. since'[r] <= Len(log')
  BY <1>2, <1>4 DEF DecidedInv
<1>10. /\ pc'[r] = "prepare" /\ stage'[r] = "start" => since'[r] = cur'[r]
       /\ pc'[r] = "prepare" /\ stage'[r] # "start" /\ r \in Durable => attempts'[r] # <<>>
       /\ attempts'[r] # <<>> => attempts'[r][1] = since'[r]
  BY <1>1 DEF DecidedInv
<1>11. QED
  BY <1>1, <1>5, <1>6, <1>7, <1>8, <1>9, <1>10 DEF DecidedInv

-----------------------------------------------------------------------------
(* The steps of CommitLog, in terms of OpLog.                              *)

\* The refinement mapping.
Committed == [i \in DOMAIN log |-> log[i].req]
ToldAll == [r \in Requests |-> Told(r)]

(* The committed requests are a sequence as long as the log. *)
LEMMA CommittedType ==
  ASSUME TypeOK
  PROVE  /\ Committed \in Seq(Requests) /\ Len(Committed) = Len(log)
         /\ Len(log) \in Nat /\ DOMAIN log = 1..Len(log) /\ DOMAIN Committed = DOMAIN log
<1>1. Len(log) \in Nat /\ DOMAIN log = 1..Len(log)
  BY DEF TypeOK
<1>2. ASSUME NEW i \in DOMAIN log PROVE log[i].req \in Requests
  <2>1. log[i] \in Op
    BY DEF TypeOK
  <2>2. QED
    BY <2>1 DEF Op
<1>3. QED
  BY <1>1, <1>2 DEF Committed

(* A head PUT that lands appends its request. *)
LEMMA CommittedGrows ==
  ASSUME TypeOK, NEW o \in Op, log' = Append(log, o)
  PROVE  Committed' = Append(Committed, o.req)
<1>1. /\ Len(log) \in Nat /\ DOMAIN log = 1..Len(log)
      /\ DOMAIN log' = 1..(Len(log) + 1)
      /\ \A k \in DOMAIN log : log'[k] = log[k]
      /\ log'[Len(log) + 1] = o
  BY Appended
<1>2. Committed \in Seq(Requests) /\ Len(Committed) = Len(log) /\ o.req \in Requests
  BY CommittedType DEF Op
<1>3. /\ Append(Committed, o.req) \in Seq(Requests)
      /\ Len(Append(Committed, o.req)) = Len(log) + 1
      /\ \A i \in 1..Len(log) : Append(Committed, o.req)[i] = log[i].req
      /\ Append(Committed, o.req)[Len(log) + 1] = o.req
  BY <1>1, <1>2, AppendProperties DEF Committed
<1>4. /\ Committed' \in Seq(Requests) /\ Len(Committed') = Len(log) + 1
      /\ \A i \in 1..(Len(log) + 1) : Committed'[i] = log'[i].req
  <2>1. \A i \in DOMAIN log' : log'[i].req \in Requests
    <3>1. \A i \in DOMAIN log : log[i].req \in Requests
      BY <1>2, RequestType
    <3>2. QED
      BY <1>1, <1>2, <3>1
  <2>2. QED
    BY <1>1, <2>1 DEF Committed
<1>5. \A i \in 1..(Len(log) + 1) : Committed'[i] = Append(Committed, o.req)[i]
  BY <1>1, <1>3, <1>4
<1>6. QED
  BY <1>3, <1>4, <1>5, SeqEqual

(* What CommitLog calls effective and overtaken. *)
LEMMA AbstractState ==
  ASSUME TypeOK, NEW r \in Requests
  PROVE  /\ r \in Abstract!Effective <=> Landed(r)
         /\ Abstract!Overtaken(r) <=> Overtaken(r)
<1>1. /\ Len(Committed) = Len(log) /\ DOMAIN Committed = DOMAIN log
      /\ \A i \in DOMAIN log : Committed[i] = log[i].req
      /\ DOMAIN log = 1..Len(log) /\ Len(log) \in Nat
  BY CommittedType DEF Committed
<1>2. r \in Abstract!Effective <=> Landed(r)
  BY <1>1 DEF Abstract!Effective, Landed, Committed
<1>3. since[r] \in Nat
  BY DEF TypeOK
<1>4. \A i \in (since[r] + 1)..Len(log) : i \in DOMAIN log
  BY <1>1, <1>3
<1>5. Abstract!Overtaken(r) <=>
        \E i \in (since[r] + 1)..Len(Committed) : TargetOf[Committed[i]] = TargetOf[r]
  BY DEF Abstract!Overtaken, Committed
<1>6. Abstract!Overtaken(r) <=> Overtaken(r)
  BY <1>1, <1>4, <1>5 DEF Overtaken, SameTarget
<1>7. QED
  BY <1>2, <1>6

(* Nobody else hears anything. *)
LEMMA ToldOthers ==
  ASSUME NEW r \in Requests, \A q \in Requests : q # r => Unheard(q)
  PROVE  ToldAll' = [ToldAll EXCEPT ![r] = Told(r)']
<1>1. \A q \in Requests : q # r => Told(q)' = Told(q)
  BY DEF Unheard, Told
<1>2. QED
  BY <1>1 DEF ToldAll

(* Decide. *)
LEMMA MapsDecide ==
  ASSUME TypeOK, NEW r \in Requests, ~Landed(r), r \notin refused, log' = log,
         since' = [since EXCEPT ![r] = Len(log)],
         \A q \in Requests : q # r => Unheard(q), Told(r)' = Told(r)
  PROVE  Abstract!Next
<1>1. r \notin Abstract!Effective /\ Len(Committed) = Len(log)
  BY AbstractState, CommittedType
<1>2. ToldAll' = ToldAll /\ Committed' = Committed
  BY ToldOthers DEF ToldAll, Committed
<1>3. ToldAll[r] # "conflict"
  BY DEF ToldAll, Told
<1>4. Abstract!Decide(r)
  BY <1>1, <1>2, <1>3 DEF Abstract!Decide, Committed, ToldAll
<1>5. QED
  BY <1>4 DEF Abstract!Next

(* Commit. *)
LEMMA MapsCommit ==
  ASSUME TypeOK, NEW o \in Op, NEW r \in Requests, o.req = r, ~Landed(r), ~Overtaken(r),
         r \notin refused, log' = Append(log, o), since' = since,
         \A q \in Requests : q # r => Unheard(q), Told(r)' \in {Told(r), "committed"}
  PROVE  Abstract!Next
<1>1. r \notin Abstract!Effective /\ ~Abstract!Overtaken(r)
  BY AbstractState
<1>2. Committed' = Append(Committed, r)
  BY CommittedGrows
<1>3. ToldAll' \in {ToldAll, [ToldAll EXCEPT ![r] = "committed"]}
  BY ToldOthers DEF ToldAll
<1>4. ToldAll[r] # "conflict"
  BY DEF ToldAll, Told
<1>5. Abstract!Commit(r)
  BY <1>1, <1>2, <1>3, <1>4 DEF Abstract!Commit, Committed, ToldAll
<1>6. QED
  BY <1>5 DEF Abstract!Next

(* LearnCommitted, LearnConflict and Forget. *)
LEMMA MapsAnswer ==
  ASSUME TypeOK, NEW r \in Requests, log' = log, since' = since,
         \A q \in Requests : q # r => Unheard(q),
         \/ Told(r)' = Told(r)
         \/ Landed(r) /\ Told(r)' = "committed"
         \/ ~Landed(r) /\ Overtaken(r) /\ Told(r)' = "conflict"
         \/ Told(r) = "committed" /\ Told(r)' = "nothing"
  PROVE  [Abstract!Next]_(Abstract!vars)
<1>1. Committed' = Committed /\ ToldAll' = [ToldAll EXCEPT ![r] = Told(r)']
  BY ToldOthers DEF Committed
<1>2. CASE Told(r)' = Told(r)
  <2>1. ToldAll' = ToldAll
    BY <1>1, <1>2 DEF ToldAll
  <2>2. QED
    BY <1>1, <2>1 DEF Abstract!vars, Committed, ToldAll
<1>3. CASE Landed(r) /\ Told(r)' = "committed"
  <2>1. Abstract!LearnCommitted(r)
    BY <1>1, <1>3, AbstractState DEF Abstract!LearnCommitted, Committed, ToldAll
  <2>2. QED
    BY <2>1 DEF Abstract!Next
<1>4. CASE ~Landed(r) /\ Overtaken(r) /\ Told(r)' = "conflict"
  <2>1. Abstract!LearnConflict(r)
    BY <1>1, <1>4, AbstractState DEF Abstract!LearnConflict, Committed, ToldAll
  <2>2. QED
    BY <2>1 DEF Abstract!Next
<1>5. CASE Told(r) = "committed" /\ Told(r)' = "nothing"
  <2>1. ToldAll[r] = "committed"
    BY <1>5 DEF ToldAll
  <2>2. Abstract!Forget(r)
    BY <1>1, <1>5, <2>1 DEF Abstract!Forget, Committed, ToldAll
  <2>3. QED
    BY <2>2 DEF Abstract!Next
<1>6. QED
  BY <1>2, <1>3, <1>4, <1>5

-----------------------------------------------------------------------------
(* Every action.                                                           *)

(* A call answers, decides and confirms for its own request only. *)
LEMMA AnswerFootprint ==
  ASSUME TypeOK, NEW r \in Requests, StepOf(r)
  PROVE  \A q \in Requests : q # r => Unheard(q)
<1> SUFFICES ASSUME NEW q \in Requests, q # r PROVE Unheard(q)
  OBVIOUS
<1>t. /\ since \in [Requests -> Nat] /\ answer \in [Requests -> Answers]
      /\ confirmed \in [Requests -> Nat \cup {NoBase}] /\ refused \subseteq Requests
  BY DEF TypeOK
<1>1. CASE HeadBefore(r)
  BY <1>1, <1>t DEF HeadBefore, DecideOn, Unheard, journalVars, callVars, ghostVars
<1>2. CASE GetHead(r)
  BY <1>2, <1>t DEF GetHead, Unheard, journalVars, callVars, ghostVars
<1>3. CASE HeadStable(r)
  BY <1>3, <1>t DEF HeadStable, DecideOn, Unheard, journalVars, callVars, ghostVars
<1>4. CASE HeadMoved(r)
  BY <1>4, <1>t DEF HeadMoved, Return, Unheard, journalVars, callVars, ghostVars
<1>5. CASE SearchFound(r)
  BY <1>5, <1>t DEF SearchFound, Return, Unheard, journalVars, callVars, ghostVars
<1>6. CASE SearchAbsent(r)
  BY <1>6, <1>t DEF SearchAbsent, Return, Unheard, journalVars, callVars, ghostVars
<1>7. CASE SearchAmbiguous(r)
  BY <1>7, <1>t DEF SearchAmbiguous, Return, Unheard, journalVars, callVars, ghostVars
<1>8. CASE Prepare(r)
  BY <1>8, <1>t DEF Prepare, Unheard, journalVars, callVars, ghostVars
<1>9. CASE WriteOperation(r)
  BY <1>9, <1>t DEF WriteOperation, Unheard, journalVars, callVars, ghostVars
<1>10. CASE AdvanceHead(r)
  BY <1>10, <1>t DEF AdvanceHead, Return, Unheard, journalVars, callVars, ghostVars
<1>11. CASE HeadRejected(r)
  BY <1>11, <1>t DEF HeadRejected, Unheard, journalVars, callVars, ghostVars
<1>12. CASE RecordCommitted(r)
  BY <1>12, <1>t DEF RecordCommitted, Return, Unheard, journalVars, callVars, ghostVars
<1>13. CASE VerifyOwn(r)
  BY <1>13, <1>t DEF VerifyOwn, Return, Unheard, journalVars, callVars, ghostVars
<1>14. CASE VerifyRebase(r)
  BY <1>14, <1>t DEF VerifyRebase, Return, Unheard, journalVars, callVars, ghostVars
<1>15. CASE VerifyUnverifiable(r)
  BY <1>15, <1>t
     DEF VerifyUnverifiable, Return, Unheard, journalVars, callVars, ghostVars
<1>16. CASE Start(r)
  BY <1>16, <1>t DEF Start, Unheard, journalVars, callVars, ghostVars
<1>17. CASE Retry(r)
  BY <1>17, <1>t DEF Retry, Unheard, journalVars, callVars, ghostVars
<1>18. CASE Fail(r)
  BY <1>18, <1>t DEF Fail, Return, Unheard, journalVars, callVars, ghostVars
<1>19. CASE ResendHead(r)
  BY <1>19, <1>t DEF ResendHead, Unheard, journalVars, callVars, ghostVars
<1>20. QED
  BY <1>1, <1>2, <1>3, <1>4, <1>5, <1>6, <1>7, <1>8, <1>9, <1>10, <1>11, <1>12,
     <1>13, <1>14, <1>15, <1>16, <1>17, <1>18, <1>19 DEF StepOf, Progress

(* The call goes on, or its request is issued again. *)
LEMMA GoingAnswer ==
  ASSUME TypeOK, NEW r \in Requests, AnswerInv(r), DecidedInv(r),
         log' = log \/ \E o \in Op : log' = Append(log, o),
         pc[r] # "done" \/ r \in Durable, pc'[r] # "done", answer'[r] = "none",
         confirmed'[r] = confirmed[r], r \in refused' <=> r \in refused,
         since'[r] = since[r] \/ Fresh(r),
         attempts[r] # <<>> => attempts'[r] # <<>>,
         pc'[r] = "record" => pc[r] = "record" \/ Landed(r)'
  PROVE  AnswerInv(r)'
<1>1. r \in refused => attempts[r] # <<>> /\ ~Fresh(r)
  BY DEF AnswerInv, DecidedInv
<1>2. /\ since'[r] = since[r] => (Overtaken(r) => Overtaken(r)')
      /\ Landed(r) => Landed(r)'
  <2>1. Landed(r) => Landed(r)'
    BY LogGrows DEF Landed
  <2>2. QED
    BY <2>1, CleanStable DEF DecidedInv
<1>3. QED
  BY <1>1, <1>2 DEF AnswerInv

(* The call returns. *)
LEMMA ReturnAnswer ==
  ASSUME TypeOK, NEW r \in Requests, AnswerInv(r), DecidedInv(r),
         log' = log \/ \E o \in Op : log' = Append(log, o),
         pc'[r] = "done", since'[r] = since[r], attempts'[r] = attempts[r],
         confirmed'[r] = confirmed[r] \/ Landed(r)',
         r \in refused' =>
           r \in refused \/ (Overtaken(r)' /\ (r \in Durable => attempts[r] # <<>>))
  PROVE  AnswerInv(r)'
<1>1. (Overtaken(r) => Overtaken(r)') /\ (Landed(r) => Landed(r)')
  BY CleanStable DEF DecidedInv
<1>2. QED
  BY <1>1 DEF AnswerInv

(* Every step of a request keeps what it was decided on and told, and is a *)
(* step or a stutter of CommitLog.                                         *)
LEMMA OwnMaps ==
  ASSUME CoreInv, NEW r \in Requests, RequestInv(r), DecidedInv(r), AnswerInv(r), StepOf(r)
  PROVE  DecidedInv(r)' /\ AnswerInv(r)' /\ [Abstract!Next]_(Abstract!vars)
<1>t. TypeOK
  BY DEF CoreInv
<1>o. \A q \in Requests : q # r => Unheard(q)
  BY <1>t, AnswerFootprint
<1>1. CASE GetHead(r)
  <2>1. /\ UNCHANGED <<log, inFlight, since, answer, confirmed, refused>>
        /\ base'[r] = base[r] /\ attempts'[r] = attempts[r] /\ stage'[r] = stage[r]
        /\ pc[r] = "get" /\ pc'[r] = "recheck"
    BY <1>1, <1>t DEF GetHead, bucketVars, journalVars, loadVars, callVars,
       ghostVars, TypeOK
  <2>2. /\ pc'[r] \notin {"search", "prepare", "verify", "done", "record"}
        /\ pc[r] # "done" /\ (Attempting(r)' => Attempting(r))
        /\ (Fresh(r)' => Fresh(r))
    BY <2>1 DEF Attempting, Fresh, Loading
  <2>3. answer[r] = "none"
    BY <2>2 DEF AnswerInv
  <2>4. DecidedInv(r)'
    BY <2>1, <2>2, QuietDecided
  <2>5. AnswerInv(r)'
    BY <2>1, <2>2, <2>3, <1>t, GoingAnswer
  <2>6. Told(r)' = Told(r)
    BY <2>1 DEF Told
  <2>7. QED
    BY <2>1, <2>4, <2>5, <2>6, <1>t, <1>o, MapsAnswer
<1>2. CASE HeadMoved(r)
  <2>1. CASE loads[r] + 1 < MaxHeadLoadAttempts
    <3>1. /\ UNCHANGED <<log, inFlight, since, answer, confirmed, refused>>
          /\ base'[r] = base[r] /\ attempts'[r] = attempts[r] /\ stage'[r] = stage[r]
          /\ pc[r] = "recheck" /\ pc'[r] = "head"
      BY <1>2, <2>1, <1>t DEF HeadMoved, bucketVars, journalVars, loadVars,
         callVars, ghostVars, TypeOK
    <3>2. /\ pc'[r] \notin {"search", "prepare", "verify", "done", "record"}
          /\ pc[r] # "done" /\ (Attempting(r)' => Attempting(r))
          /\ (Fresh(r)' => Fresh(r))
      BY <3>1 DEF Attempting, Fresh, Loading
    <3>3. answer[r] = "none"
      BY <3>2 DEF AnswerInv
    <3>4. DecidedInv(r)'
      BY <3>1, <3>2, QuietDecided
    <3>5. AnswerInv(r)'
      BY <3>1, <3>2, <3>3, <1>t, GoingAnswer
    <3>6. Told(r)' = Told(r)
      BY <3>1 DEF Told
    <3>7. QED
      BY <3>1, <3>4, <3>5, <3>6, <1>t, <1>o, MapsAnswer
  <2>2. CASE ~(loads[r] + 1 < MaxHeadLoadAttempts)
    <3>1. /\ UNCHANGED <<log, inFlight, since, confirmed>> /\ refused' = refused
          /\ base'[r] = base[r] /\ attempts'[r] = attempts[r] /\ pc'[r] = "done"
          /\ answer'[r] = "error" /\ pc[r] # "done"
      BY <1>2, <2>2, <1>t DEF HeadMoved, Return, bucketVars, journalVars,
         loadVars, callVars, ghostVars, TypeOK
    <3>2. answer[r] = "none" /\ ~Attempting(r)' /\ ~Fresh(r)'
      BY <3>1 DEF AnswerInv, Attempting, Fresh, Loading
    <3>3. DecidedInv(r)'
      BY <3>1, <3>2, QuietDecided
    <3>4. AnswerInv(r)'
      BY <3>1, <1>t, ReturnAnswer
    <3>5. Told(r)' = Told(r)
      BY <3>1, <3>2 DEF Told
    <3>6. QED
      BY <3>1, <3>3, <3>4, <3>5, <1>t, <1>o, MapsAnswer
  <2>3. QED
    BY <2>1, <2>2
<1>3. CASE SearchFound(r)
  <2>1. /\ UNCHANGED <<log, inFlight, since>> /\ refused' = refused
        /\ base'[r] = base[r] /\ attempts'[r] = attempts[r] /\ pc'[r] = "done"
        /\ answer'[r] = "committed" /\ pc[r] # "done"
    BY <1>3, <1>t DEF SearchFound, Return, bucketVars, journalVars, loadVars,
       callVars, ghostVars, TypeOK
  <2>2. answer[r] = "none" /\ ~Attempting(r)' /\ ~Fresh(r)'
    BY <2>1 DEF AnswerInv, Attempting, Fresh, Loading
  <2>3. DecidedInv(r)'
    BY <2>1, <2>2, QuietDecided
  <2>4. Landed(r)
    <3>1. PICK k \in 1..Len(log) : OwnFound(r, k)
      BY <1>3 DEF SearchFound
    <3>2. log[k].req = r /\ k \in DOMAIN log
      BY <3>1, <1>t, RequestType DEF OwnFound, Recorded
    <3>3. QED
      BY <3>2 DEF Landed
  <2>5. Landed(r)'
    BY <2>1, <2>4 DEF Landed
  <2>6. AnswerInv(r)'
    BY <2>1, <2>5, <1>t, ReturnAnswer
  <2>7. Told(r)' = Told(r) \/ Told(r)' = "committed"
    BY <2>1, <2>2 DEF Told
  <2>8. QED
    BY <2>1, <2>3, <2>4, <2>6, <2>7, <1>t, <1>o, MapsAnswer
<1>4. CASE SearchAmbiguous(r)
  <2>1. CASE ConfirmedBefore(r)
    <3>1. /\ UNCHANGED <<log, inFlight, since>> /\ refused' = refused
          /\ base'[r] = base[r] /\ attempts'[r] = attempts[r] /\ pc'[r] = "done"
          /\ answer'[r] = "committed" /\ pc[r] # "done"
      BY <1>4, <2>1, <1>t DEF SearchAmbiguous, Return, bucketVars, journalVars,
         loadVars, callVars, ghostVars, TypeOK
    <3>2. answer[r] = "none" /\ ~Attempting(r)' /\ ~Fresh(r)'
      BY <3>1 DEF AnswerInv, Attempting, Fresh, Loading
    <3>3. DecidedInv(r)'
      BY <3>1, <3>2, QuietDecided
    <3>4. Landed(r)
      BY <2>1 DEF ConfirmedBefore, AnswerInv
    <3>5. Landed(r)'
      BY <3>1, <3>4 DEF Landed
    <3>6. AnswerInv(r)'
      BY <3>1, <3>5, <1>t, ReturnAnswer
    <3>7. Told(r)' = Told(r) \/ Told(r)' = "committed"
      BY <3>1, <3>2 DEF Told
    <3>8. QED
      BY <3>1, <3>3, <3>4, <3>6, <3>7, <1>t, <1>o, MapsAnswer
  <2>2. CASE ~ConfirmedBefore(r)
    <3>1. /\ UNCHANGED <<log, inFlight, since, confirmed>> /\ refused' = refused
          /\ base'[r] = base[r] /\ attempts'[r] = attempts[r] /\ pc'[r] = "done"
          /\ answer'[r] = "unverifiable" /\ pc[r] # "done"
      BY <1>4, <2>2, <1>t DEF SearchAmbiguous, Return, bucketVars, journalVars,
         loadVars, callVars, ghostVars, TypeOK
    <3>2. answer[r] = "none" /\ ~Attempting(r)' /\ ~Fresh(r)'
      BY <3>1 DEF AnswerInv, Attempting, Fresh, Loading
    <3>3. DecidedInv(r)'
      BY <3>1, <3>2, QuietDecided
    <3>4. AnswerInv(r)'
      BY <3>1, <1>t, ReturnAnswer
    <3>5. Told(r)' = Told(r)
      BY <3>1, <3>2 DEF Told
    <3>6. QED
      BY <3>1, <3>3, <3>4, <3>5, <1>t, <1>o, MapsAnswer
  <2>3. QED
    BY <2>1, <2>2
<1>5. CASE SearchAbsent(r)
  <2>1. CASE ~ForeignAfterFloor(r)
    <3>1. /\ UNCHANGED <<log, inFlight, since, answer, confirmed, refused>>
          /\ base'[r] = base[r] /\ attempts'[r] = attempts[r] /\ stage'[r] = stage[r]
          /\ cur'[r] = cur[r] /\ pc[r] = "search" /\ pc'[r] = "prepare"
      BY <1>5, <2>1, <1>t
         DEF SearchAbsent, bucketVars, journalVars, loadVars, callVars,
         ghostVars, TypeOK
    <3>2. /\ r \in Durable /\ attempts[r] # <<>> /\ stage[r] = "search"
          /\ Floor(r) = since[r] /\ answer[r] = "none"
      BY <3>1
         DEF RequestInv, JournalInv, StageInv, Searching, DecidedInv, Floor,
         AnswerInv
    <3>3. since[r] \in Nat /\ since[r] <= cur[r]
      <4>1. 1 \in DOMAIN attempts[r] /\ since[r] \in Nat
        BY <3>2, <1>t, RequestType DEF TypeOK
      <4>2. QED
        BY <3>1, <3>2, <4>1 DEF RequestInv, JournalInv, Floor
    <3>4. CleanUpTo(r, since[r])
      BY <3>3 DEF CleanUpTo
    <3>5. \A k \in (since[r] + 1)..cur[r] : ~SameTarget(log[k], r)
      BY <1>5, <2>1, <3>2 DEF ForeignAfterFloor
    <3>6. DecidedInv(r)'
      BY <3>1, <3>2, <3>3, <3>4, <3>5, CleanDecided
    <3>7. AnswerInv(r)'
      BY <3>1, <3>2, <1>t, GoingAnswer
    <3>8. Told(r)' = Told(r)
      BY <3>1 DEF Told
    <3>9. QED
      BY <3>1, <3>6, <3>7, <3>8, <1>t, <1>o, MapsAnswer
  <2>2. CASE ForeignAfterFloor(r)
    <3>1. /\ UNCHANGED <<log, inFlight, since, confirmed>> /\ refused' = refused \cup {r}
          /\ base'[r] = base[r] /\ attempts'[r] = attempts[r] /\ pc'[r] = "done"
          /\ answer'[r] = "conflict" /\ pc[r] # "done"
      BY <1>5, <2>2, <1>t DEF SearchAbsent, Return, bucketVars, journalVars,
         loadVars, callVars, ghostVars, TypeOK
    <3>2. answer[r] = "none" /\ ~Attempting(r)' /\ ~Fresh(r)'
      BY <3>1 DEF AnswerInv, Attempting, Fresh, Loading
    <3>3. DecidedInv(r)'
      BY <3>1, <3>2, QuietDecided
    <3>4. ~Landed(r) /\ Overtaken(r) /\ (r \in Durable => attempts[r] # <<>>)
      <4>1. /\ pc[r] = "search" /\ OwnAbsent(r)
            /\ r \in Durable /\ attempts[r] # <<>> /\ Floor(r) = since[r]
        BY <1>5, <2>2
           DEF SearchAbsent, RequestInv, JournalInv, Searching, DecidedInv, Floor
      <4>2. PICK j \in (since[r] + 1)..cur[r] : SameTarget(log[j], r)
        BY <2>2, <4>1 DEF ForeignAfterFloor
      <4>3. /\ since[r] \in Nat /\ cur[r] \in Nat /\ Len(log) \in Nat
            /\ cur[r] <= Len(log)
        BY <1>t DEF TypeOK, CoreInv, LoadInv
      <4>4. Overtaken(r)
        BY <4>2, <4>3 DEF Overtaken
      <4>5. ~Landed(r)
        <5> SUFFICES ASSUME NEW k \in DOMAIN log, log[k].req = r PROVE FALSE
          BY DEF Landed
        <5>1. log[k].base = cur[r]
          BY <4>1, LandedOnLoaded
        <5>2. CleanUpTo(r, cur[r])
          BY <5>1 DEF DecidedInv
        <5>3. QED
          BY <4>2, <5>2 DEF CleanUpTo
      <4>6. QED
        BY <4>1, <4>4, <4>5
    <3>5. Overtaken(r)'
      BY <3>1, <3>4 DEF Overtaken
    <3>6. AnswerInv(r)'
      BY <3>1, <3>4, <3>5, <1>t, ReturnAnswer
    <3>7. Told(r)' = "conflict"
      BY <3>1 DEF Told
    <3>8. QED
      BY <3>1, <3>3, <3>4, <3>6, <3>7, <1>t, <1>o, MapsAnswer
  <2>3. QED
    BY <2>1, <2>2
<1>6. CASE Prepare(r)
  <2>1. /\ UNCHANGED <<log, since, answer, confirmed, refused>>
        /\ pc[r] = "prepare" /\ pc'[r] = "write"
    BY <1>6, <1>t
       DEF Prepare, bucketVars, journalVars, loadVars, callVars, ghostVars, TypeOK
  <2>2. DecidedInv(r)' /\ (attempts[r] # <<>> => attempts'[r] # <<>>)
    BY <1>6, PrepareDecided
  <2>3. answer[r] = "none"
    BY <2>1 DEF AnswerInv
  <2>4. AnswerInv(r)'
    BY <2>1, <2>2, <2>3, <1>t, GoingAnswer
  <2>5. Told(r)' = Told(r)
    BY <2>1 DEF Told
  <2>6. QED
    BY <2>1, <2>2, <2>4, <2>5, <1>t, <1>o, MapsAnswer
<1>7. CASE WriteOperation(r)
  <2>1. /\ UNCHANGED <<log, inFlight, since, answer, confirmed, refused>>
        /\ base'[r] = base[r] /\ attempts'[r] = attempts[r] /\ stage'[r] = stage[r]
        /\ pc[r] = "write" /\ pc'[r] = "cas"
    BY <1>7, <1>t DEF WriteOperation, bucketVars, journalVars, loadVars,
       callVars, ghostVars, TypeOK
  <2>2. /\ pc'[r] \notin {"search", "prepare", "verify", "done", "record"}
        /\ pc[r] # "done" /\ (Attempting(r)' => Attempting(r))
        /\ (Fresh(r)' => Fresh(r))
    BY <2>1 DEF Attempting, Fresh, Loading
  <2>3. answer[r] = "none"
    BY <2>2 DEF AnswerInv
  <2>4. DecidedInv(r)'
    BY <2>1, <2>2, QuietDecided
  <2>5. AnswerInv(r)'
    BY <2>1, <2>2, <2>3, <1>t, GoingAnswer
  <2>6. Told(r)' = Told(r)
    BY <2>1 DEF Told
  <2>7. QED
    BY <2>1, <2>4, <2>5, <2>6, <1>t, <1>o, MapsAnswer
<1>8. CASE AdvanceHead(r)
  <2> DEFINE o == Attempt(r)
  <2>1. /\ pc[r] = "cas" /\ Len(log) = etag[r] /\ log' = Append(log, o)
        /\ inFlight' = inFlight /\ base'[r] = base[r] /\ attempts'[r] = attempts[r]
        /\ stage'[r] = stage[r] /\ cur'[r] = cur[r]
        /\ UNCHANGED <<since, confirmed, refused>>
        /\ \/ r \in Durable /\ pc'[r] = "record" /\ answer'[r] = answer[r]
           \/ pc'[r] = "done" /\ answer'[r] = "committed"
    BY <1>8, <1>t
       DEF AdvanceHead, Return, bucketVars, journalVars, loadVars, callVars,
       ghostVars, TypeOK
  <2>2. o \in Op /\ o.req = r /\ o.base = base[r]
    BY <1>t, AttemptType DEF Attempt
  <2>3. o.base = Len(log)
    BY <2>1, <2>2 DEF CoreInv, LoadInv, BaseInv
  <2>4. \A k \in DOMAIN log : log[k].req # r
    BY <2>1, <2>2, <2>3, FirstToLand
  <2>5. /\ ~Fresh(r) /\ CleanUpTo(r, o.base) /\ answer[r] = "none"
    BY <2>1, <2>2 DEF Fresh, Loading, Attempting, DecidedInv, AnswerInv
  <2>6. ~Overtaken(r) /\ ~Landed(r) /\ r \notin refused
    BY <2>3, <2>4, <2>5 DEF Overtaken, CleanUpTo, Landed, AnswerInv
  <2>7. Landed(r)'
    BY <2>1, <2>2, <1>t, Appended DEF Landed
  <2> HIDE DEF o
  <2>8. DecidedInv(r)'
    BY <2>1, <2>2, <2>3, <2>5, LandDecided
  <2>9. AnswerInv(r)'
    <3>1. CASE pc'[r] = "done"
      BY <3>1, <2>1, <2>2, <2>7, <1>t, ReturnAnswer
    <3>2. CASE pc'[r] # "done"
      <4>1. pc'[r] = "record" /\ answer'[r] = "none" /\ pc[r] # "done"
        BY <2>1, <2>5, <3>2
      <4>2. QED
        BY <4>1, <2>1, <2>2, <2>7, <1>t, GoingAnswer
    <3>3. QED
      BY <3>1, <3>2
  <2>10. Told(r)' \in {Told(r), "committed"}
    BY <2>1 DEF Told
  <2>11. QED
    BY <2>1, <2>2, <2>6, <2>8, <2>9, <2>10, <1>t, <1>o, MapsCommit
<1>9. CASE HeadRejected(r)
  <2>1. /\ UNCHANGED <<log, inFlight, since, answer, confirmed, refused>>
        /\ base'[r] = base[r] /\ attempts'[r] = attempts[r] /\ stage'[r] = "rebase"
        /\ pc[r] = "cas" /\ pc'[r] = "head"
    BY <1>9, <1>t DEF HeadRejected, bucketVars, journalVars, loadVars,
       callVars, ghostVars, TypeOK
  <2>2. /\ pc'[r] \notin {"search", "prepare", "verify", "done", "record"}
        /\ pc[r] # "done" /\ (Attempting(r)' => Attempting(r))
        /\ (Fresh(r)' => Fresh(r))
    BY <2>1 DEF Attempting, Fresh, Loading
  <2>3. answer[r] = "none"
    BY <2>2 DEF AnswerInv
  <2>4. DecidedInv(r)'
    BY <2>1, <2>2, QuietDecided
  <2>5. AnswerInv(r)'
    BY <2>1, <2>2, <2>3, <1>t, GoingAnswer
  <2>6. Told(r)' = Told(r)
    BY <2>1 DEF Told
  <2>7. QED
    BY <2>1, <2>4, <2>5, <2>6, <1>t, <1>o, MapsAnswer
<1>10. CASE RecordCommitted(r)
  <2>1. /\ UNCHANGED <<log, inFlight, since>> /\ refused' = refused
        /\ base'[r] = base[r] /\ attempts'[r] = attempts[r] /\ pc'[r] = "done"
        /\ answer'[r] = "committed" /\ pc[r] # "done"
    BY <1>10, <1>t DEF RecordCommitted, Return, bucketVars, journalVars,
       loadVars, callVars, ghostVars, TypeOK
  <2>2. answer[r] = "none" /\ ~Attempting(r)' /\ ~Fresh(r)'
    BY <2>1 DEF AnswerInv, Attempting, Fresh, Loading
  <2>3. DecidedInv(r)'
    BY <2>1, <2>2, QuietDecided
  <2>4. Landed(r)
    BY <1>10 DEF RecordCommitted, AnswerInv
  <2>5. Landed(r)'
    BY <2>1, <2>4 DEF Landed
  <2>6. AnswerInv(r)'
    BY <2>1, <2>5, <1>t, ReturnAnswer
  <2>7. Told(r)' = Told(r) \/ Told(r)' = "committed"
    BY <2>1, <2>2 DEF Told
  <2>8. QED
    BY <2>1, <2>3, <2>4, <2>6, <2>7, <1>t, <1>o, MapsAnswer
<1>11. CASE VerifyOwn(r)
  <2>1. /\ UNCHANGED <<log, inFlight, since>> /\ refused' = refused
        /\ base'[r] = base[r] /\ attempts'[r] = attempts[r] /\ pc'[r] = "done"
        /\ answer'[r] = "committed" /\ pc[r] # "done"
    BY <1>11, <1>t DEF VerifyOwn, Return, bucketVars, journalVars, loadVars,
       callVars, ghostVars, TypeOK
  <2>2. answer[r] = "none" /\ ~Attempting(r)' /\ ~Fresh(r)'
    BY <2>1 DEF AnswerInv, Attempting, Fresh, Loading
  <2>3. DecidedInv(r)'
    BY <2>1, <2>2, QuietDecided
  <2>4. Landed(r)
    <3>1. PICK k \in (base[r] + 1)..cur[r] : log[k] = Attempt(r)
      BY <1>11 DEF VerifyOwn, ContainsOwn
    <3>2. base[r] \in Nat /\ cur[r] \in Nat /\ cur[r] <= Len(log) /\ DOMAIN log = 1..Len(log)
      BY <1>t, RequestType DEF CoreInv, LoadInv
    <3>3. k \in DOMAIN log /\ log[k].req = r
      BY <3>1, <3>2, <1>t, RequestType DEF Attempt
    <3>4. QED
      BY <3>3 DEF Landed
  <2>5. Landed(r)'
    BY <2>1, <2>4 DEF Landed
  <2>6. AnswerInv(r)'
    BY <2>1, <2>5, <1>t, ReturnAnswer
  <2>7. Told(r)' = Told(r) \/ Told(r)' = "committed"
    BY <2>1, <2>2 DEF Told
  <2>8. QED
    BY <2>1, <2>3, <2>4, <2>6, <2>7, <1>t, <1>o, MapsAnswer
<1>12. CASE VerifyRebase(r)
  <2>1. CASE ~ForeignSinceBase(r) /\ tries[r] + 1 < MaxCommitAttempts
    <3>1. /\ UNCHANGED <<log, inFlight, since, answer, confirmed, refused>>
          /\ base'[r] = base[r] /\ attempts'[r] = attempts[r] /\ stage'[r] = stage[r]
          /\ cur'[r] = cur[r] /\ pc[r] = "verify" /\ pc'[r] = "prepare"
      BY <1>12, <2>1, <1>t
         DEF VerifyRebase, bucketVars, journalVars, loadVars, callVars,
         ghostVars, TypeOK
    <3>2. /\ Attempting(r) /\ stage[r] = "rebase" /\ answer[r] = "none"
      BY <3>1 DEF RequestInv, StageInv, Attempting, AnswerInv
    <3>3. r \in Durable => attempts[r] # <<>>
      BY <3>2 DEF RequestInv, JournalInv, Names
    <3>4. base[r] \in Nat /\ since[r] <= base[r] /\ base[r] <= cur[r] /\ CleanUpTo(r, base[r])
      BY <3>1, <3>2, <1>t, RequestType DEF CoreInv, BaseInv, DecidedInv
    <3>5. \A k \in (base[r] + 1)..cur[r] : ~SameTarget(log[k], r)
      BY <1>12, <2>1 DEF ForeignSinceBase
    <3>6. DecidedInv(r)'
      BY <3>1, <3>2, <3>3, <3>4, <3>5, CleanDecided
    <3>7. AnswerInv(r)'
      BY <3>1, <3>2, <1>t, GoingAnswer
    <3>8. Told(r)' = Told(r)
      BY <3>1 DEF Told
    <3>9. QED
      BY <3>1, <3>6, <3>7, <3>8, <1>t, <1>o, MapsAnswer
  <2>2. CASE ~ForeignSinceBase(r) /\ ~(tries[r] + 1 < MaxCommitAttempts)
    <3>1. /\ UNCHANGED <<log, inFlight, since, confirmed>> /\ refused' = refused
          /\ base'[r] = base[r] /\ attempts'[r] = attempts[r] /\ pc'[r] = "done"
          /\ answer'[r] = "error" /\ pc[r] # "done"
      BY <1>12, <2>2, <1>t DEF VerifyRebase, Return, bucketVars, journalVars,
         loadVars, callVars, ghostVars, TypeOK
    <3>2. answer[r] = "none" /\ ~Attempting(r)' /\ ~Fresh(r)'
      BY <3>1 DEF AnswerInv, Attempting, Fresh, Loading
    <3>3. DecidedInv(r)'
      BY <3>1, <3>2, QuietDecided
    <3>4. AnswerInv(r)'
      BY <3>1, <1>t, ReturnAnswer
    <3>5. Told(r)' = Told(r)
      BY <3>1, <3>2 DEF Told
    <3>6. QED
      BY <3>1, <3>3, <3>4, <3>5, <1>t, <1>o, MapsAnswer
  <2>3. CASE ForeignSinceBase(r)
    <3>1. /\ UNCHANGED <<log, inFlight, since, confirmed>> /\ refused' = refused \cup {r}
          /\ base'[r] = base[r] /\ attempts'[r] = attempts[r] /\ pc'[r] = "done"
          /\ answer'[r] = "conflict" /\ pc[r] # "done"
      BY <1>12, <2>3, <1>t DEF VerifyRebase, Return, bucketVars, journalVars,
         loadVars, callVars, ghostVars, TypeOK
    <3>2. answer[r] = "none" /\ ~Attempting(r)' /\ ~Fresh(r)'
      BY <3>1 DEF AnswerInv, Attempting, Fresh, Loading
    <3>3. DecidedInv(r)'
      BY <3>1, <3>2, QuietDecided
    <3>4. ~Landed(r) /\ Overtaken(r) /\ (r \in Durable => attempts[r] # <<>>)
      <4>1. pc[r] = "verify" /\ SinceCommitted(r) /\ Attempting(r)
        BY <1>12 DEF VerifyRebase, Attempting
      <4>2. ~Landed(r)
        BY <4>1, NothingLanded DEF Landed
      <4>3. PICK j \in (base[r] + 1)..cur[r] : SameTarget(log[j], r)
        BY <2>3 DEF ForeignSinceBase
      <4>4. /\ since[r] \in Nat /\ base[r] \in Nat /\ cur[r] \in Nat /\ Len(log) \in Nat
            /\ cur[r] <= Len(log) /\ since[r] <= base[r]
        BY <4>1, <1>t DEF TypeOK, CoreInv, LoadInv, DecidedInv
      <4>5. Overtaken(r)
        BY <4>3, <4>4 DEF Overtaken
      <4>6. r \in Durable => attempts[r] # <<>>
        BY <4>1 DEF RequestInv, JournalInv, Names
      <4>7. QED
        BY <4>2, <4>5, <4>6
    <3>5. Overtaken(r)'
      BY <3>1, <3>4 DEF Overtaken
    <3>6. AnswerInv(r)'
      BY <3>1, <3>4, <3>5, <1>t, ReturnAnswer
    <3>7. Told(r)' = "conflict"
      BY <3>1 DEF Told
    <3>8. QED
      BY <3>1, <3>3, <3>4, <3>6, <3>7, <1>t, <1>o, MapsAnswer
  <2>4. QED
    BY <2>1, <2>2, <2>3
<1>13. CASE VerifyUnverifiable(r)
  <2>1. /\ UNCHANGED <<log, inFlight, since, confirmed>> /\ refused' = refused
        /\ base'[r] = base[r] /\ attempts'[r] = attempts[r] /\ pc'[r] = "done"
        /\ answer'[r] = "unverifiable" /\ pc[r] # "done"
    BY <1>13, <1>t DEF VerifyUnverifiable, Return, bucketVars, journalVars,
       loadVars, callVars, ghostVars, TypeOK
  <2>2. answer[r] = "none" /\ ~Attempting(r)' /\ ~Fresh(r)'
    BY <2>1 DEF AnswerInv, Attempting, Fresh, Loading
  <2>3. DecidedInv(r)'
    BY <2>1, <2>2, QuietDecided
  <2>4. AnswerInv(r)'
    BY <2>1, <1>t, ReturnAnswer
  <2>5. Told(r)' = Told(r)
    BY <2>1, <2>2 DEF Told
  <2>6. QED
    BY <2>1, <2>3, <2>4, <2>5, <1>t, <1>o, MapsAnswer
<1>14. CASE Start(r)
  <2>1. /\ UNCHANGED <<log, inFlight, since, answer, confirmed, refused>>
        /\ base'[r] = base[r] /\ attempts'[r] = attempts[r]
        /\ stage'[r] = FirstStage(r) /\ pc[r] = "idle" /\ pc'[r] = "head"
    BY <1>14, <1>t
       DEF Start, bucketVars, journalVars, loadVars, callVars, ghostVars, TypeOK
  <2>2. DecidedInv(r)'
    BY <2>1, StartDecided
  <2>3. answer[r] = "none"
    BY <2>1 DEF AnswerInv
  <2>4. AnswerInv(r)'
    BY <2>1, <2>3, <1>t, GoingAnswer
  <2>5. Told(r)' = Told(r)
    BY <2>1 DEF Told
  <2>6. QED
    BY <2>1, <2>2, <2>4, <2>5, <1>t, <1>o, MapsAnswer
<1>15. CASE Retry(r)
  <2>1. /\ UNCHANGED <<log, inFlight, since, confirmed, refused>>
        /\ base'[r] = base[r] /\ attempts'[r] = attempts[r] /\ r \in Durable
        /\ pc'[r] = "idle" /\ answer[r] # "committed" /\ answer'[r] = "none"
    BY <1>15, <1>t
       DEF Retry, bucketVars, journalVars, loadVars, callVars, ghostVars, TypeOK
  <2>2. ~Attempting(r)' /\ ~Fresh(r)'
    BY <2>1 DEF Attempting, Fresh, Loading
  <2>3. DecidedInv(r)'
    BY <2>1, <2>2, QuietDecided
  <2>4. AnswerInv(r)'
    BY <2>1, <1>t, GoingAnswer
  <2>5. Told(r)' = Told(r)
    BY <2>1 DEF Told
  <2>6. QED
    BY <2>1, <2>3, <2>4, <2>5, <1>t, <1>o, MapsAnswer
<1>16. CASE HeadBefore(r)
  <2>1. CASE log # <<>>
    <3>1. /\ UNCHANGED <<log, inFlight, since, answer, confirmed, refused>>
          /\ base'[r] = base[r] /\ attempts'[r] = attempts[r] /\ stage'[r] = stage[r]
          /\ pc[r] = "head" /\ pc'[r] = "get"
      BY <1>16, <2>1, <1>t DEF HeadBefore, bucketVars, journalVars, loadVars,
         callVars, ghostVars, TypeOK
    <3>2. /\ pc'[r] \notin {"search", "prepare", "verify", "done", "record"}
          /\ pc[r] # "done" /\ (Attempting(r)' => Attempting(r))
          /\ (Fresh(r)' => Fresh(r))
      BY <3>1 DEF Attempting, Fresh, Loading
    <3>3. answer[r] = "none"
      BY <3>2 DEF AnswerInv
    <3>4. DecidedInv(r)'
      BY <3>1, <3>2, QuietDecided
    <3>5. AnswerInv(r)'
      BY <3>1, <3>2, <3>3, <1>t, GoingAnswer
    <3>6. Told(r)' = Told(r)
      BY <3>1 DEF Told
    <3>7. QED
      BY <3>1, <3>4, <3>5, <3>6, <1>t, <1>o, MapsAnswer
  <2>2. CASE log = <<>>
    <3>1. /\ UNCHANGED <<log, inFlight, answer, confirmed, refused>>
          /\ base'[r] = base[r] /\ attempts'[r] = attempts[r] /\ stage'[r] = stage[r]
          /\ cur'[r] = 0 /\ pc'[r] = AfterLoad(r) /\ pc[r] \in {"head", "recheck"}
          /\ since' = IF stage[r] = "start" THEN [since EXCEPT ![r] = 0] ELSE since
      BY <1>16, <2>2, <1>t DEF HeadBefore, DecideOn, bucketVars, journalVars,
         loadVars, callVars, ghostVars, TypeOK
    <3>2. 0 = Len(log)
      BY <2>2
    <3>3. /\ Loading(r) /\ pc[r] # "done" /\ pc'[r] \notin {"done", "record"}
          /\ since'[r] = IF stage[r] = "start" THEN Len(log) ELSE since[r]
          /\ (stage[r] = "start" => Fresh(r)) /\ answer[r] = "none"
      BY <3>1, <3>2, <1>t, AfterLoadType DEF Loading, Fresh, AnswerInv, TypeOK
    <3>4. DecidedInv(r)'
      BY <3>1, <3>2, <3>3, LoadedDecided
    <3>5. AnswerInv(r)'
      BY <3>1, <3>3, <1>t, GoingAnswer
    <3>6. Told(r)' = Told(r)
      BY <3>1 DEF Told
    <3>7. CASE stage[r] = "start"
      <4>1. ~Landed(r) /\ r \notin refused
        BY <3>3, <3>7 DEF RequestInv, FreshInv, Landed, AnswerInv, DecidedInv
      <4>2. since' = [since EXCEPT ![r] = Len(log)]
        BY <3>1, <3>2, <3>7
      <4>3. QED
        BY <3>1, <3>4, <3>5, <3>6, <4>1, <4>2, <1>t, <1>o, MapsDecide
    <3>8. CASE stage[r] # "start"
      BY <3>1, <3>4, <3>5, <3>6, <3>8, <1>t, <1>o, MapsAnswer
    <3>9. QED
      BY <3>7, <3>8
  <2>3. QED
    BY <2>1, <2>2
<1>17. CASE HeadStable(r)
  <2>1. /\ UNCHANGED <<log, inFlight, answer, confirmed, refused>>
        /\ base'[r] = base[r] /\ attempts'[r] = attempts[r] /\ stage'[r] = stage[r]
        /\ cur'[r] = content[r] /\ pc'[r] = AfterLoad(r) /\ pc[r] \in {"head", "recheck"}
        /\ since' = IF stage[r] = "start" THEN [since EXCEPT ![r] = content[r]] ELSE since
    BY <1>17, <1>t DEF HeadStable, DecideOn, bucketVars, journalVars, loadVars,
       callVars, ghostVars, TypeOK
  <2>2. content[r] = Len(log)
    BY <1>17, <1>t DEF HeadStable, Unmoved, CoreInv, LoadInv, TypeOK
  <2>3. /\ Loading(r) /\ pc[r] # "done" /\ pc'[r] \notin {"done", "record"}
        /\ since'[r] = IF stage[r] = "start" THEN Len(log) ELSE since[r]
        /\ (stage[r] = "start" => Fresh(r)) /\ answer[r] = "none"
    BY <2>1, <2>2, <1>t, AfterLoadType DEF Loading, Fresh, AnswerInv, TypeOK
  <2>4. DecidedInv(r)'
    BY <2>1, <2>2, <2>3, LoadedDecided
  <2>5. AnswerInv(r)'
    BY <2>1, <2>3, <1>t, GoingAnswer
  <2>6. Told(r)' = Told(r)
    BY <2>1 DEF Told
  <2>7. CASE stage[r] = "start"
    <3>1. ~Landed(r) /\ r \notin refused
      BY <2>3, <2>7 DEF RequestInv, FreshInv, Landed, AnswerInv, DecidedInv
    <3>2. since' = [since EXCEPT ![r] = Len(log)]
      BY <2>1, <2>2, <2>7
    <3>3. QED
      BY <2>1, <2>4, <2>5, <2>6, <3>1, <3>2, <1>t, <1>o, MapsDecide
  <2>8. CASE stage[r] # "start"
    BY <2>1, <2>4, <2>5, <2>6, <2>8, <1>t, <1>o, MapsAnswer
  <2>9. QED
    BY <2>7, <2>8
<1>18. CASE Fail(r)
  <2>1. /\ UNCHANGED <<log, since, confirmed, refused>>
        /\ base'[r] = base[r] /\ attempts'[r] = attempts[r] /\ stage'[r] = stage[r]
        /\ pc'[r] = "done" /\ answer'[r] = "error"
        /\ pc[r] # "done" \/ answer[r] = "committed"
        /\ pc[r] # "cas" => inFlight' = inFlight
    BY <1>18, <1>t
       DEF Fail, Running, Return, bucketVars, journalVars, loadVars, callVars,
       ghostVars, TypeOK
  <2>2. ~Attempting(r)' /\ ~Fresh(r)'
    BY <2>1 DEF Attempting, Fresh, Loading
  <2>3. DecidedInv(r)'
    <3>1. CASE pc[r] = "cas"
      <4>1. \A m \in inFlight' : m \in inFlight \/ m.op = Attempt(r)
        BY <1>t, Footprint
      <4>2. QED
        BY <2>1, <3>1, <4>1, LeftDecided
    <3>2. CASE pc[r] # "cas"
      BY <2>1, <2>2, <3>2, QuietDecided
    <3>3. QED
      BY <3>1, <3>2
  <2>4. AnswerInv(r)'
    BY <2>1, <1>t, ReturnAnswer
  <2>5. Told(r)' = Told(r) \/ (Told(r) = "committed" /\ Told(r)' = "nothing")
    BY <2>1 DEF Told, AnswerInv
  <2>6. QED
    BY <2>1, <2>3, <2>4, <2>5, <1>t, <1>o, MapsAnswer
<1>19. CASE ResendHead(r)
  <2>1. /\ UNCHANGED <<log, since, answer, confirmed, refused>>
        /\ base'[r] = base[r] /\ attempts'[r] = attempts[r]
        /\ pc[r] = "cas" /\ pc'[r] = "cas"
    BY <1>19, <1>t
       DEF ResendHead, bucketVars, journalVars, loadVars, callVars, ghostVars,
       TypeOK
  <2>2. \A m \in inFlight' : m \in inFlight \/ m.op = Attempt(r)
    BY <1>t, Footprint
  <2>3. DecidedInv(r)'
    BY <2>1, <2>2, LeftDecided
  <2>4. answer[r] = "none"
    BY <2>1 DEF AnswerInv
  <2>5. AnswerInv(r)'
    BY <2>1, <2>4, <1>t, GoingAnswer
  <2>6. Told(r)' = Told(r)
    BY <2>1 DEF Told
  <2>7. QED
    BY <2>1, <2>3, <2>5, <2>6, <1>t, <1>o, MapsAnswer
<1>20. QED
  BY <1>1, <1>2, <1>3, <1>4, <1>5, <1>6, <1>7, <1>8, <1>9, <1>10,
   <1>11, <1>12, <1>13, <1>14, <1>15, <1>16, <1>17, <1>18, <1>19
  DEF StepOf, Progress

(* Every step of OpLog keeps the invariant and is a step or a stutter of   *)
(* CommitLog.                                                              *)
LEMMA RefinementStep ==
  RefinementInv /\ [Next]_vars => RefinementInv' /\ [Abstract!Next]_(Abstract!vars)
<1> SUFFICES ASSUME RefinementInv, [Next]_vars
             PROVE  RefinementInv' /\ [Abstract!Next]_(Abstract!vars)
  OBVIOUS
<1>c. /\ LandingInv /\ CoreInv /\ TypeOK /\ \A q \in Requests : RequestInv(q)
      /\ \A q \in Requests : DecidedInv(q) /\ AnswerInv(q)
  BY DEF RefinementInv, LandingInv, CoreInv
<1>n. LandingInv'
  BY <1>c, LandingStep
<1> DEFINE Goal == /\ \A q \in Requests : DecidedInv(q)' /\ AnswerInv(q)'
                   /\ [Abstract!Next]_(Abstract!vars)
<1>1. ASSUME NEW r \in Requests, StepOf(r) PROVE Goal
  <2>1. DecidedInv(r)' /\ AnswerInv(r)' /\ [Abstract!Next]_(Abstract!vars)
    BY <1>1, <1>c, OwnMaps
  <2>2. ASSUME NEW q \in Requests, q # r PROVE DecidedInv(q)' /\ AnswerInv(q)'
    <3>1. Untouched(q) /\ Unheard(q)
      BY <1>1, <1>c, <2>2, Footprint, AnswerFootprint
    <3>2. Attempt(r) \in Op /\ Attempt(r).req = r
      BY <1>c, AttemptType DEF Attempt
    <3>3. NothingNew(q)
      BY <1>1, <1>c, <2>2, <3>2, Footprint DEF NothingNew
    <3>4. QED
      BY <3>1, <3>3, <1>c, OtherDecided
  <2>3. QED
    BY <2>1, <2>2
<1>2. ASSUME NEW m \in inFlight, LatePut(m) PROVE Goal
  <2> DEFINE o == m.op
             r == m.op.req
  <2>1. /\ log' = Append(log, o) /\ inFlight' \subseteq inFlight /\ m.etag = Len(log)
        /\ \A q \in Requests : Untouched(q) /\ Unheard(q)
        /\ UNCHANGED <<since, pc, base, attempts, stage, cur, answer, confirmed, refused>>
    BY <1>2 DEF LatePut, journalVars, loadVars, callVars, ghostVars, Untouched, Unheard
  <2>2. o \in Op /\ r \in Requests /\ o.req = r /\ o.base = Len(log)
    BY <2>1, <1>c, InFlightType DEF CoreInv, LandsOnBase
  <2>3. \A k \in DOMAIN log : log[k].req # r
    BY <2>2, <1>c, FirstToLand
  <2>4. ~Fresh(r) /\ CleanUpTo(r, o.base)
    BY <2>2, <1>c DEF RequestInv, FreshInv, DecidedInv
  <2>5. ~Overtaken(r) /\ ~Landed(r) /\ r \notin refused
    BY <2>2, <2>3, <2>4, <1>c DEF Overtaken, CleanUpTo, Landed, AnswerInv
  <2>6. \A q \in Requests : Told(q)' = Told(q)
    BY <2>1 DEF Told
  <2> HIDE DEF o, r
  <2>7. Abstract!Next
    BY <2>1, <2>2, <2>5, <2>6, <1>c, MapsCommit
  <2>8. DecidedInv(r)'
    BY <2>1, <2>2, <2>4, <1>c, LandDecided
  <2>9. AnswerInv(r)'
    <3>1. AnswerInv(r) /\ DecidedInv(r)
      BY <2>2, <1>c
    <3>2. (Overtaken(r) => Overtaken(r)') /\ (Landed(r) => Landed(r)')
      BY <2>1, <2>2, <3>1, <1>c, CleanStable DEF DecidedInv
    <3>3. QED
      BY <2>1, <3>1, <3>2 DEF AnswerInv
  <2>10. ASSUME NEW q \in Requests, q # r PROVE DecidedInv(q)' /\ AnswerInv(q)'
    <3>1. NothingNew(q)
      BY <2>1, <2>2, <2>10 DEF NothingNew
    <3>2. QED
      BY <2>1, <3>1, <1>c, OtherDecided
  <2>11. QED
    BY <2>7, <2>8, <2>9, <2>10
<1>3. ASSUME (\E i \in DOMAIN log : Prune(i)) \/ UNCHANGED vars PROVE Goal
  <2>1. UNCHANGED <<log, inFlight, since, pc, base, attempts, stage, cur, answer,
                    confirmed, refused>>
    BY <1>3 DEF Prune, vars, bucketVars, journalVars, loadVars, callVars, ghostVars
  <2>2. \A q \in Requests : Untouched(q) /\ Unheard(q) /\ NothingNew(q)
    BY <2>1 DEF Untouched, Unheard, NothingNew
  <2>3. \A q \in Requests : DecidedInv(q)' /\ AnswerInv(q)'
    BY <2>2, <1>c, OtherDecided
  <2>4. ToldAll' = ToldAll /\ Committed' = Committed
    BY <2>1 DEF ToldAll, Told, Committed
  <2>5. UNCHANGED Abstract!vars
    BY <2>1, <2>4 DEF Abstract!vars, ToldAll, Committed
  <2>6. QED
    BY <2>3, <2>5
<1>4. Goal
  BY <1>1, <1>2, <1>3 DEF Next, StepOf
<1>5. QED
  BY <1>n, <1>4 DEF RefinementInv

(* Nothing is committed, decided or told at first. *)
LEMMA RefinementInit == Init => RefinementInv /\ Abstract!Init
<1> SUFFICES ASSUME Init PROVE RefinementInv /\ Abstract!Init
  OBVIOUS
<1>1. ASSUME NEW r \in Requests PROVE DecidedInv(r) /\ AnswerInv(r)
  BY DEF Init, DecidedInv, AnswerInv, Attempting, Loading
<1>2. Committed = <<>> /\ ToldAll = [r \in Requests |-> "nothing"]
  BY DEF Init, Committed, ToldAll, Told
<1>3. Abstract!Init
  BY <1>2 DEF Abstract!Init, Init, Committed, ToldAll
<1>4. QED
  BY <1>1, <1>3, LandingInit DEF RefinementInv

(* OpLog implements CommitLog: a request is linearised at the head PUT     *)
(* that the bucket accepts, with nothing committed for its target between  *)
(* the head it was decided on and its own operation, however often it was  *)
(* rebased (ops.rs 177-187 and 390-398), and its caller is told committed  *)
(* or conflict only when it is so, for any number of requests, faults,     *)
(* late head PUTs and prunings and any limits.                             *)
THEOREM Implements == Spec => ImplementsCommitLog
<1>1. QED
  BY RefinementInit, RefinementStep, PTL DEF Spec, ImplementsCommitLog, Abstract!Spec
=============================================================================
