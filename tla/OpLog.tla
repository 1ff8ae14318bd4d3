------------------------------- MODULE OpLog -------------------------------
(***************************************************************************)
(* The operation log of a bucket: `OperationLog` in                        *)
(* src-core/src/metadata/ops.rs with the commit journal of                 *)
(* src-core/src/fs_mutations/remote_commit.rs.                             *)
(*                                                                         *)
(* Several requests, of any devices, append one operation each.  The head  *)
(* object meta/heads/current names the newest committed operation and      *)
(* every operation names its predecessor in base_head, so the log is a     *)
(* chain.  A request writes its operation object, then moves the head with *)
(* a conditional PUT.  Each S3 call is a step of its own; replies may be   *)
(* lost, a PUT may arrive long after its client gave up, and the process   *)
(* may stop anywhere.                                                      *)
(*                                                                         *)
(* The sequence log holds every operation the head ever named, oldest      *)
(* first.  A head value is the position of its operation in log, 0 for a   *)
(* missing head object; its ETag is the same number, since no value of the *)
(* head is ever written twice.  An operation is the pair of its request    *)
(* and its base_head: one request never builds two operations on the same  *)
(* base (ops.rs 347-360 takes the pending one again instead).              *)
(*                                                                         *)
(* A walk from the head down base_head visits positions of log in          *)
(* decreasing order (that is ChainUnbroken below) and is one step: the     *)
(* operations never change, so the reads of one walk only race with the    *)
(* deletions of Prune, which may happen in any order.                      *)
(***************************************************************************)
EXTENDS Integers, Sequences, FiniteSets

CONSTANTS
  Requests,              \* the changes that devices want to commit
  Durable,               \* those with a journal: they go through commit_durable
  Files,
  TargetOf,              \* target_file_id of a request
  MaxCommitAttempts,     \* MAX_COMMIT_ATTEMPTS
  MaxHeadLoadAttempts,   \* MAX_HEAD_LOAD_ATTEMPTS
  MaxRebaseWalkOps,      \* MAX_REBASE_WALK_OPS
  MaxDurableWalkOps,     \* MAX_DURABLE_WALK_OPS
  MaxFaults              \* bound: how many calls may fail or processes stop

ASSUME DurableAssumption == Durable \subseteq Requests
ASSUME TargetAssumption  == TargetOf \in [Requests -> Files]
ASSUME LimitAssumption   ==
  /\ MaxCommitAttempts \in Nat \ {0}
  /\ MaxHeadLoadAttempts \in Nat \ {0}
  /\ MaxRebaseWalkOps \in Nat \ {0}
  /\ MaxDurableWalkOps \in Nat \ {0}
  /\ MaxFaults \in Nat

VARIABLES
  (* The bucket and the network. *)
  log,        \* every operation the head ever named, oldest first
  stored,     \* operation objects now under meta/ops
  pruned,     \* operation objects compaction deleted
  inFlight,   \* head PUTs that still travel after their client gave up on them
  (* The journal of a durable request; it survives the process. *)
  attempts,   \* attempts[r]: the base_head of each recorded attempt
  confirmed,  \* confirmed[r]: base_head of committed_op_id, or NoBase
  (* The memory of the call that serves request r. *)
  pc,
  stage,      \* what the head is being loaded for
  seen,       \* seen[r]: ETag of the first HEAD of load_head
  content,    \* content[r]: head value read between the two HEADs
  cur,        \* current_head
  etag,       \* current_head_etag
  base,       \* base_head of the attempt under way
  tries,      \* completed attempts of this call
  loads,      \* completed tries of this load_head_consistent
  answer,     \* what the call returned
  (* History and bound. *)
  since,      \* since[r]: the head the request was decided on
  refused,    \* requests ever answered with a verified conflict
  faults

bucketVars  == <<log, stored, pruned, inFlight>>
journalVars == <<attempts, confirmed>>
loadVars    == <<stage, seen, content, cur, etag, loads>>
callVars    == <<pc, base, tries, answer>>
ghostVars   == <<since, refused>>
vars == <<bucketVars, journalVars, loadVars, callVars, ghostVars, faults>>

NoBase == -1

Op == [req : Requests, base : Nat]

HeadPut == [op : Op, etag : Nat]

Phases == {"idle", "head", "get", "recheck", "prepare", "write", "cas",
           "verify", "search", "record", "done"}

Answers == {"none", "committed", "conflict", "unverifiable", "error"}

Running(r) == pc[r] \notin {"idle", "done"}

\* The operation of the attempt under way.
Attempt(r) == [req |-> r, base |-> base[r]]

\* The operations the journal of r names.
Recorded(r) == {[req |-> r, base |-> attempts[r][i]] : i \in DOMAIN attempts[r]}

LogSet == {log[i] : i \in DOMAIN log}

SameTarget(o, r) == TargetOf[o.req] = TargetOf[r]

TypeOK ==
  /\ log \in Seq(Op)
  /\ stored \subseteq Op
  /\ pruned \subseteq Op
  /\ inFlight \subseteq HeadPut
  /\ attempts \in [Requests -> Seq(Nat)]
  /\ confirmed \in [Requests -> Nat \cup {NoBase}]
  /\ pc \in [Requests -> Phases]
  /\ stage \in [Requests -> {"start", "search", "rebase"}]
  /\ seen \in [Requests -> Nat]
  /\ content \in [Requests -> Nat]
  /\ cur \in [Requests -> Nat]
  /\ etag \in [Requests -> Nat]
  /\ base \in [Requests -> Nat]
  /\ tries \in [Requests -> Nat]
  /\ loads \in [Requests -> Nat]
  /\ answer \in [Requests -> Answers]
  /\ since \in [Requests -> Nat]
  /\ refused \subseteq Requests
  /\ faults \in 0..MaxFaults

Init ==
  /\ log = <<>>
  /\ stored = {}
  /\ pruned = {}
  /\ inFlight = {}
  /\ attempts = [r \in Requests |-> <<>>]
  /\ confirmed = [r \in Requests |-> NoBase]
  /\ pc = [r \in Requests |-> "idle"]
  /\ stage = [r \in Requests |-> "start"]
  /\ seen = [r \in Requests |-> 0]
  /\ content = [r \in Requests |-> 0]
  /\ cur = [r \in Requests |-> 0]
  /\ etag = [r \in Requests |-> 0]
  /\ base = [r \in Requests |-> 0]
  /\ tries = [r \in Requests |-> 0]
  /\ loads = [r \in Requests |-> 0]
  /\ answer = [r \in Requests |-> "none"]
  /\ since = [r \in Requests |-> 0]
  /\ refused = {}
  /\ faults = 0

-----------------------------------------------------------------------------
(* Starting a call.                                                        *)

\* The journal decides whether earlier attempts are searched first.
FirstStage(r) == IF attempts[r] = <<>> THEN "start" ELSE "search"

(* A call of commit or of commit_durable.  The log object is a new one, so *)
(* its head is not loaded.                                                 *)
Start(r) ==
  /\ pc[r] = "idle"
  /\ pc' = [pc EXCEPT ![r] = "head"]
  /\ stage' = [stage EXCEPT ![r] = FirstStage(r)]
  /\ tries' = [tries EXCEPT ![r] = 0]
  /\ loads' = [loads EXCEPT ![r] = 0]
  /\ UNCHANGED <<bucketVars, journalVars, seen, content, cur, etag, base,
                 answer, ghostVars, faults>>

(* Return a to the caller and forget the call's memory. *)
Return(r, a) ==
  /\ pc' = [pc EXCEPT ![r] = "done"]
  /\ answer' = [answer EXCEPT ![r] = a]
  /\ refused' = IF a = "conflict" THEN refused \cup {r} ELSE refused

(* The sync cycle repeats the publication of an intent that is not         *)
(* committed yet; only a durable request is issued again as the same one.  *)
Retry(r) ==
  /\ r \in Durable
  /\ pc[r] = "done"
  /\ answer[r] # "committed"
  /\ pc' = [pc EXCEPT ![r] = "idle"]
  /\ answer' = [answer EXCEPT ![r] = "none"]
  /\ UNCHANGED <<bucketVars, journalVars, loadVars, base, tries, ghostVars, faults>>

-----------------------------------------------------------------------------
(* load_head: HEAD, GET, HEAD; a head that moved in between is read again. *)

(* What follows a loaded head. *)
AfterLoad(r) ==
  CASE stage[r] = "start"  -> "prepare"
    [] stage[r] = "search" -> "search"
    [] stage[r] = "rebase" -> "verify"

(* The request is decided on the head that its first attempt builds on.    *)
DecideOn(r, h) ==
  since' = IF stage[r] = "start" THEN [since EXCEPT ![r] = h] ELSE since

HeadBefore(r) ==
  /\ pc[r] = "head"
  /\ IF log = <<>>
     THEN /\ cur' = [cur EXCEPT ![r] = 0]
          /\ etag' = [etag EXCEPT ![r] = 0]
          /\ pc' = [pc EXCEPT ![r] = AfterLoad(r)]
          /\ DecideOn(r, 0)
          /\ UNCHANGED seen
     ELSE /\ seen' = [seen EXCEPT ![r] = Len(log)]
          /\ pc' = [pc EXCEPT ![r] = "get"]
          /\ UNCHANGED <<cur, etag, since>>
  /\ UNCHANGED <<bucketVars, journalVars, stage, content, loads, base, tries,
                 answer, refused, faults>>

GetHead(r) ==
  /\ pc[r] = "get"
  /\ content' = [content EXCEPT ![r] = Len(log)]
  /\ pc' = [pc EXCEPT ![r] = "recheck"]
  /\ UNCHANGED <<bucketVars, journalVars, stage, seen, cur, etag, loads, base,
                 tries, answer, ghostVars, faults>>

\* Mutant: the ETags of the two HEADs are not compared.
Unmoved_Assumed(r) == TRUE

Unmoved(r) == seen[r] = Len(log)

(* The ETag is taken from the second HEAD. *)
HeadStable(r) ==
  /\ pc[r] = "recheck"
  /\ Unmoved(r)
  /\ cur' = [cur EXCEPT ![r] = content[r]]
  /\ etag' = [etag EXCEPT ![r] = Len(log)]
  /\ pc' = [pc EXCEPT ![r] = AfterLoad(r)]
  /\ loads' = [loads EXCEPT ![r] = 0]
  /\ seen' = [seen EXCEPT ![r] = 0]
  /\ content' = [content EXCEPT ![r] = 0]
  /\ DecideOn(r, content[r])
  /\ UNCHANGED <<bucketVars, journalVars, stage, base, tries, answer, refused,
                 faults>>

HeadMoved(r) ==
  /\ pc[r] = "recheck"
  /\ ~Unmoved(r)
  /\ IF loads[r] + 1 < MaxHeadLoadAttempts
     THEN /\ loads' = [loads EXCEPT ![r] = @ + 1]
          /\ pc' = [pc EXCEPT ![r] = "head"]
          /\ UNCHANGED <<answer, refused>>
     ELSE /\ Return(r, "error")
          /\ UNCHANGED loads
  /\ UNCHANGED <<bucketVars, journalVars, stage, seen, content, cur, etag, base,
                 tries, since, faults>>

-----------------------------------------------------------------------------
(* committed_attempt: are the journal's attempts in the chain?             *)

Floor(r) == attempts[r][1]

\* The walk from current_head reads down to position k without a gap.
ReadDownTo(r, k) ==
  /\ cur[r] - k < MaxDurableWalkOps
  /\ \A i \in k..cur[r] : log[i] \in stored

OwnFound(r, k) ==
  /\ k \in (Floor(r) + 1)..cur[r]
  /\ log[k] \in Recorded(r)
  /\ ReadDownTo(r, k)

\* The floor itself is read too; the chain start has no operation to read.
OwnAbsent(r) ==
  /\ \A k \in (Floor(r) + 1)..cur[r] : log[k] \notin Recorded(r)
  /\ \/ cur[r] = 0
     \/ ReadDownTo(r, IF Floor(r) = 0 THEN 1 ELSE Floor(r))

\* Mutant: only the newest operation is compared with the target.
ForeignAfterFloor_HeadOnly(r) == cur[r] > Floor(r) /\ SameTarget(log[cur[r]], r)

ForeignAfterFloor(r) ==
  \E k \in (Floor(r) + 1)..cur[r] : SameTarget(log[k], r)

SearchFound(r) ==
  /\ pc[r] = "search"
  /\ \E k \in 1..Len(log) :
       /\ OwnFound(r, k)
       /\ confirmed' = [confirmed EXCEPT ![r] = log[k].base]
  /\ Return(r, "committed")
  /\ UNCHANGED <<bucketVars, attempts, loadVars, base, tries, since, faults>>

SearchAbsent(r) ==
  /\ pc[r] = "search"
  /\ OwnAbsent(r)
  /\ IF ForeignAfterFloor(r)
     THEN Return(r, "conflict")
     ELSE /\ pc' = [pc EXCEPT ![r] = "prepare"]
          /\ UNCHANGED <<answer, refused>>
  /\ UNCHANGED <<bucketVars, journalVars, loadVars, base, tries, since, faults>>

ConfirmedBefore(r) == confirmed[r] # NoBase

(* The chain cannot be read up to the attempts.  Only an operation the     *)
(* journal has confirmed still counts.                                     *)
SearchAmbiguous(r) ==
  /\ pc[r] = "search"
  /\ ~OwnAbsent(r)
  /\ ~\E k \in 1..Len(log) : OwnFound(r, k)
  /\ Return(r, IF ConfirmedBefore(r) THEN "committed" ELSE "unverifiable")
  /\ UNCHANGED <<bucketVars, journalVars, loadVars, base, tries, since, faults>>

-----------------------------------------------------------------------------
(* One attempt: record, write the operation, move the head.                *)

\* Mutant: attempts are not written to the journal.
RecordAttempt_Never(r) == attempts

\* commit_durable records every new attempt before any network write; the
\* pending one, whose base is the head, is in the journal already.
RecordAttempt(r) ==
  IF r \in Durable /\ [req |-> r, base |-> cur[r]] \notin Recorded(r)
  THEN [attempts EXCEPT ![r] = Append(@, cur[r])]
  ELSE attempts

\* Mutant: a missing head is recorded as no base instead of the empty one.
NextBase_NoneIsNoBase(r) == IF cur[r] = 0 THEN NoBase ELSE cur[r]

NextBase(r) == cur[r]

Prepare(r) ==
  /\ pc[r] = "prepare"
  /\ base' = [base EXCEPT ![r] = NextBase(r)]
  /\ attempts' = RecordAttempt(r)
  /\ pc' = [pc EXCEPT ![r] = "write"]
  /\ UNCHANGED <<bucketVars, confirmed, loadVars, tries, answer, ghostVars, faults>>

(* Mutant: an operation object that is already there is an error. *)
WriteOperation_NotIdempotent(r) ==
  /\ pc[r] = "write"
  /\ IF Attempt(r) \in stored
     THEN Return(r, "error") /\ UNCHANGED stored
     ELSE /\ stored' = stored \cup {Attempt(r)}
          /\ pc' = [pc EXCEPT ![r] = "cas"]
          /\ UNCHANGED <<answer, refused>>
  /\ UNCHANGED <<log, pruned, inFlight, journalVars, loadVars, base, tries,
                 since, faults>>

WriteOperation(r) ==
  /\ pc[r] = "write"
  /\ stored' = stored \cup {Attempt(r)}
  /\ pc' = [pc EXCEPT ![r] = "cas"]
  /\ UNCHANGED <<log, pruned, inFlight, journalVars, loadVars, base, tries,
                 answer, ghostVars, faults>>

(* PUT of the head, If-None-Match without a head and If-Match otherwise.   *)
AdvanceHead(r) ==
  /\ pc[r] = "cas"
  /\ Len(log) = etag[r]
  /\ log' = Append(log, Attempt(r))
  /\ IF r \in Durable
     THEN /\ pc' = [pc EXCEPT ![r] = "record"]
          /\ UNCHANGED <<answer, refused>>
     ELSE Return(r, "committed")
  /\ UNCHANGED <<stored, pruned, inFlight, journalVars, loadVars, base, tries,
                 since, faults>>

(* Mutant: the same attempt is sent again on the same stale ETag. *)
HeadRejected_NoReload(r) ==
  /\ pc[r] = "cas"
  /\ Len(log) # etag[r]
  /\ pc' = [pc EXCEPT ![r] = "write"]
  /\ UNCHANGED <<bucketVars, journalVars, loadVars, base, tries, answer,
                 ghostVars, faults>>

(* 412: the head is loaded again to see what was committed meanwhile.      *)
HeadRejected(r) ==
  /\ pc[r] = "cas"
  /\ Len(log) # etag[r]
  /\ pc' = [pc EXCEPT ![r] = "head"]
  /\ stage' = [stage EXCEPT ![r] = "rebase"]
  /\ loads' = [loads EXCEPT ![r] = 0]
  /\ UNCHANGED <<bucketVars, journalVars, seen, content, cur, etag, base, tries,
                 answer, ghostVars, faults>>

RecordCommitted(r) ==
  /\ pc[r] = "record"
  /\ confirmed' = [confirmed EXCEPT ![r] = base[r]]
  /\ Return(r, "committed")
  /\ UNCHANGED <<bucketVars, attempts, loadVars, base, tries, since, faults>>

-----------------------------------------------------------------------------
(* operations_since: what was committed between the attempt's base and the *)
(* head that rejected it?                                                  *)

\* Operations above position k are read, the one at k only by its name.
SinceReadable(r, k) ==
  /\ cur[r] - k < MaxRebaseWalkOps
  /\ \A i \in (k + 1)..cur[r] : log[i] \in stored

ContainsOwn(r) ==
  \E k \in (base[r] + 1)..cur[r] : log[k] = Attempt(r) /\ SinceReadable(r, k)

\* Mutant: the walk does not look for the attempt itself.
SinceCommitted_SkipsOwn(r) == SinceReadable(r, base[r])

(* A missing base_head is reached by reading the first operation.          *)
SinceCommitted(r) ==
  /\ \A k \in (base[r] + 1)..cur[r] : log[k] # Attempt(r)
  /\ SinceReadable(r, base[r]) \/ (base[r] = 0 /\ cur[r] = MaxRebaseWalkOps
                                   /\ \A i \in 1..cur[r] : log[i] \in stored)

ForeignSinceBase(r) ==
  \E k \in (base[r] + 1)..cur[r] : SameTarget(log[k], r)

(* The reply to the head PUT was lost: the attempt is committed.           *)
VerifyOwn(r) ==
  /\ pc[r] = "verify"
  /\ ContainsOwn(r)
  /\ confirmed' = IF r \in Durable THEN [confirmed EXCEPT ![r] = base[r]] ELSE confirmed
  /\ Return(r, "committed")
  /\ UNCHANGED <<bucketVars, attempts, loadVars, base, tries, since, faults>>

(* The attempt lost: its operation object is deleted (a failed deletion is *)
(* only logged) and the next attempt builds on the new head, unless the    *)
(* target changed or the attempts are used up.                             *)
VerifyRebase(r) ==
  /\ pc[r] = "verify"
  /\ SinceCommitted(r)
  /\ stored' \in {stored, stored \ {Attempt(r)}}
  /\ IF ForeignSinceBase(r)
     THEN Return(r, "conflict") /\ UNCHANGED tries
     ELSE IF tries[r] + 1 < MaxCommitAttempts
     THEN /\ tries' = [tries EXCEPT ![r] = @ + 1]
          /\ pc' = [pc EXCEPT ![r] = "prepare"]
          /\ UNCHANGED <<answer, refused>>
     ELSE Return(r, "error") /\ UNCHANGED tries
  /\ UNCHANGED <<log, pruned, inFlight, journalVars, loadVars, base, since, faults>>

(* Without the chain nothing proves that the head never names the attempt, *)
(* so its operation object stays.                                          *)
VerifyUnverifiable(r) ==
  /\ pc[r] = "verify"
  /\ ~ContainsOwn(r)
  /\ ~SinceCommitted(r)
  /\ Return(r, "unverifiable")
  /\ UNCHANGED <<bucketVars, journalVars, loadVars, base, tries, since, faults>>

-----------------------------------------------------------------------------
(* Faults and the environment.                                             *)

(* A call fails with an error other than a failed precondition, or the     *)
(* process stops: the caller is left without the result, the request that  *)
(* was being sent may or may not take effect, and a head PUT may do so     *)
(* long after.  Of a process that stopped after the call returned only the *)
(* journal is left as well.                                                *)
Fail(r) ==
  /\ faults < MaxFaults
  /\ Running(r) \/ (r \in Durable /\ pc[r] = "done" /\ answer[r] = "committed")
  /\ faults' = faults + 1
  /\ Return(r, "error")
  /\ stored' \in IF pc[r] = "write" THEN {stored, stored \cup {Attempt(r)}} ELSE {stored}
  /\ inFlight' \in IF pc[r] = "cas"
                   THEN {inFlight, inFlight \cup {[op |-> Attempt(r), etag |-> etag[r]]}}
                   ELSE {inFlight}
  /\ UNCHANGED <<log, pruned, journalVars, loadVars, base, tries, since>>

(* with_retry of s3/client.rs sends the head PUT again after a retryable   *)
(* error, while the first one may still arrive.                            *)
ResendHead(r) ==
  /\ faults < MaxFaults
  /\ pc[r] = "cas"
  /\ faults' = faults + 1
  /\ inFlight' = inFlight \cup {[op |-> Attempt(r), etag |-> etag[r]]}
  /\ UNCHANGED <<log, stored, pruned, journalVars, loadVars, callVars, ghostVars>>

(* The bucket applies a head PUT whose client no longer waits for it.      *)
LatePut(m) ==
  /\ m \in inFlight
  /\ m.etag = Len(log)
  /\ log' = Append(log, m.op)
  /\ inFlight' = inFlight \ {m}
  /\ UNCHANGED <<stored, pruned, journalVars, loadVars, callVars, ghostVars, faults>>

(* OpLogCompactor deletes an operation below the newest one.               *)
Prune(i) ==
  /\ i \in 1..(Len(log) - 1)
  /\ log[i] \in stored
  /\ stored' = stored \ {log[i]}
  /\ pruned' = pruned \cup {log[i]}
  /\ UNCHANGED <<log, inFlight, journalVars, loadVars, callVars, ghostVars, faults>>

-----------------------------------------------------------------------------
(* What the code does by itself once a call has started. *)
Progress(r) ==
  \/ HeadBefore(r) \/ GetHead(r) \/ HeadStable(r) \/ HeadMoved(r)
  \/ SearchFound(r) \/ SearchAbsent(r) \/ SearchAmbiguous(r)
  \/ Prepare(r) \/ WriteOperation(r)
  \/ AdvanceHead(r) \/ HeadRejected(r) \/ RecordCommitted(r)
  \/ VerifyOwn(r) \/ VerifyRebase(r) \/ VerifyUnverifiable(r)

Next ==
  \/ \E r \in Requests : Progress(r) \/ Start(r) \/ Retry(r) \/ Fail(r) \/ ResendHead(r)
  \/ \E m \in inFlight : LatePut(m)
  \/ \E i \in DOMAIN log : Prune(i)

Spec == Init /\ [][Next]_vars

(* A started call runs on its executor; the sync cycle calls the intake of *)
(* durable requests again and again.  Faults, late PUTs, pruning and the   *)
(* start of an ordinary commit owe nothing.                                *)
Fairness ==
  /\ \A r \in Requests : WF_vars(Progress(r))
  /\ \A r \in Durable : WF_vars(Start(r) \/ Retry(r))

FairSpec == Spec /\ Fairness

-----------------------------------------------------------------------------
(* Safety.                                                                 *)

(* Every committed operation names the one the head named before it, so    *)
(* the walk from the head visits all of them: an operation whose base_head *)
(* and head condition came from two different heads (load_head, ops.rs     *)
(* 97-102) would cut the operations between them out of the log.           *)
ChainUnbroken == \A i \in DOMAIN log : log[i].base = i - 1

(* A request takes effect at most once, over all its attempts, lost        *)
(* replies, late PUTs and restarts of its process (commit, commit_durable  *)
(* and the journal).                                                       *)
CommittedOnce ==
  \A i, j \in DOMAIN log : log[i].req = log[j].req => i = j

(* The object of a committed operation is only ever deleted by compaction, *)
(* never as the orphan of an attempt that lost (discard_orphan_operation). *)
CommittedReadable == LogSet \subseteq stored \cup pruned

-----------------------------------------------------------------------------
(* Implementation of CommitLog.                                            *)

\* What the caller of r may rely on: a verified conflict outlives the call.
Told(r) ==
  IF r \in refused THEN "conflict"
  ELSE IF answer[r] = "committed" THEN "committed" ELSE "nothing"

Abstract == INSTANCE CommitLog WITH
  committed <- [i \in DOMAIN log |-> log[i].req],
  decidedOn <- since,
  told <- [r \in Requests |-> Told(r)]

(* The log implements the promise of CommitLog: each request is linearised *)
(* at the head PUT that the bucket accepts, nothing is committed for its   *)
(* target between the head it was decided on and its own operation,        *)
(* however often it was rebased (ops.rs 177-187 and 390-398), and a caller *)
(* is told committed or conflict only when it is so.                       *)
ImplementsCommitLog == Abstract!Spec

-----------------------------------------------------------------------------
(* Liveness.                                                               *)

(* Every call ends with an answer: the loops of commit, load_head and the  *)
(* walks are bounded, whatever the other devices commit meanwhile.         *)
CallsReturn == \A r \in Requests : Running(r) ~> pc[r] = "done"

(* A durable request is settled at last: it is committed, refused for a    *)
(* newer change of its file, or compaction took away the proof.            *)
Settled(r) == answer[r] \in {"committed", "conflict", "unverifiable"}

DurableSettles == \A r \in Durable : <>Settled(r)
=============================================================================
