------------------------- MODULE OpLogLandingProofs -------------------------
(***************************************************************************)
(* Machine-checked proof that a request of OpLog takes effect at most      *)
(* once, for any number of requests, faults and late head PUTs.            *)
(*                                                                         *)
(* A head PUT lands only while the log is as long as the base of its       *)
(* operation (OpLogProofs).  What can still land of a request, its attempt *)
(* and the head PUTs it left behind, has no base above an operation of it  *)
(* that already landed (LandedInv), so it cannot land again.  That         *)
(* survives a new attempt because the search for the earlier ones reads    *)
(* the chain down to the oldest base in the journal (JournalInv), and a    *)
(* rebased call reads it down to the base of the attempt that lost.        *)
(*                                                                         *)
(* Each part of the invariant is about one request.  A step of another one *)
(* leaves what it speaks of alone (OtherStep), so the proof has one lemma  *)
(* per kind of step of the request itself.                                 *)
(***************************************************************************)
EXTENDS OpLogProofs

\* The attempt of r is being committed, or its rejection is being looked into.
Attempting(r) ==
  \/ pc[r] \in {"write", "cas", "verify"}
  \/ Loading(r) /\ stage[r] = "rebase"

\* r has its first attempt still to come.
Fresh(r) ==
  \/ r \notin Durable /\ pc[r] = "idle"
  \/ (Loading(r) \/ pc[r] = "prepare") /\ stage[r] = "start"

\* The head is loaded for the search through the journal's attempts.
Searching(r) == pc[r] = "search" \/ (Loading(r) /\ stage[r] = "search")

\* The journal of r names an operation with base b.
Names(r, b) == \E i \in DOMAIN attempts[r] : attempts[r][i] = b

\* What the head was loaded for.
StageInv(r) == /\ pc[r] = "search" => stage[r] = "search"
               /\ pc[r] = "verify" => stage[r] = "rebase"

\* The journal of a durable request names all its operations, and none is
\* older than the first one.
JournalInv(r) ==
  /\ r \notin Durable => attempts[r] = <<>>
  /\ \A i \in DOMAIN attempts[r] :
       /\ attempts[r][1] <= attempts[r][i]
       /\ attempts[r][i] <= Len(log)
       /\ pc[r] \in {"search", "prepare", "verify"} => attempts[r][i] <= cur[r]
  /\ Searching(r) => r \in Durable /\ attempts[r] # <<>>
  /\ r \in Durable =>
       /\ Attempting(r) => Names(r, base[r])
       /\ \A k \in DOMAIN log : log[k].req = r => Names(r, log[k].base)
       /\ \A m \in inFlight : m.op.req = r => Names(r, m.op.base)

\* Before its first attempt a request has no operation anywhere.
FreshInv(r) ==
  Fresh(r) => /\ \A k \in DOMAIN log : log[k].req # r
              /\ \A m \in inFlight : m.op.req # r

\* An operation of r in the log is the newest one r ever tried to land.
LandedInv(r) ==
  \A k \in DOMAIN log : log[k].req = r =>
    /\ Attempting(r) => log[k].base = base[r]
    /\ pc[r] = "prepare" => log[k].base = cur[r]
    /\ pc[r] = "search" => log[k].base <= cur[r]
    /\ \A m \in inFlight : m.op.req = r => m.op.base <= log[k].base

\* The attempt under way is not older than what r left in flight.
NewestInv(r) ==
  \A m \in inFlight : m.op.req = r =>
    /\ Attempting(r) => m.op.base <= base[r]
    /\ pc[r] \in {"search", "prepare"} => m.op.base <= cur[r]

RequestInv(r) ==
  StageInv(r) /\ JournalInv(r) /\ FreshInv(r) /\ LandedInv(r) /\ NewestInv(r)

LandingInv ==
  /\ CoreInv
  /\ \A r \in Requests : RequestInv(r)
  /\ CommittedOnce

-----------------------------------------------------------------------------
(* Facts used throughout.                                                  *)

(* The types of what the invariant of a request speaks of. *)
LEMMA RequestType ==
  ASSUME TypeOK, NEW r \in Requests
  PROVE  /\ Len(log) \in Nat /\ DOMAIN log = 1..Len(log)
         /\ cur[r] \in Nat /\ base[r] \in Nat /\ attempts[r] \in Seq(Nat)
         /\ stage[r] \in {"start", "search", "rebase"} /\ pc[r] \in Phases
         /\ \A k \in DOMAIN log :
              log[k] \in Op /\ log[k].req \in Requests /\ log[k].base \in Nat
         /\ \A m \in inFlight : m.op.req \in Requests /\ m.op.base \in Nat
<1>1. \A k \in DOMAIN log : log[k] \in Op
  BY DEF TypeOK
<1>2. \A m \in inFlight : m.op.req \in Requests /\ m.op.base \in Nat
  BY InFlightType
<1>3. \A k \in DOMAIN log : log[k].req \in Requests /\ log[k].base \in Nat
  BY <1>1 DEF Op
<1>4. /\ Len(log) \in Nat /\ DOMAIN log = 1..Len(log)
      /\ cur[r] \in Nat /\ base[r] \in Nat /\ attempts[r] \in Seq(Nat)
      /\ stage[r] \in {"start", "search", "rebase"} /\ pc[r] \in Phases
  BY DEF TypeOK
<1>5. QED
  BY <1>1, <1>2, <1>3, <1>4

(* What a step of another request, or of a head PUT or a deletion, leaves  *)
(* alone of request r.                                                     *)
Untouched(r) ==
  /\ pc'[r] = pc[r] /\ stage'[r] = stage[r]
  /\ cur'[r] = cur[r] /\ base'[r] = base[r]
  /\ attempts'[r] = attempts[r]

\* The bucket and the network hold no more of r than before.
NothingNew(r) ==
  /\ \/ log' = log
     \/ \E o \in Op : o.req # r /\ log' = Append(log, o)
  /\ \A m \in inFlight' : m.op.req = r => m \in inFlight

(* The log only grows. *)
LEMMA LogGrows ==
  ASSUME TypeOK, log' = log \/ \E o \in Op : log' = Append(log, o)
  PROVE  /\ Len(log') \in Nat /\ Len(log) <= Len(log')
         /\ DOMAIN log \subseteq DOMAIN log'
         /\ \A k \in DOMAIN log : log'[k] = log[k]
<1>1. Len(log) \in Nat /\ DOMAIN log = 1..Len(log)
  BY DEF TypeOK
<1>2. CASE log' = log
  BY <1>1, <1>2
<1>3. CASE log' # log
  <2>1. PICK o \in Op : log' = Append(log, o)
    BY <1>3
  <2>2. /\ Len(log') = Len(log) + 1 /\ DOMAIN log' = 1..(Len(log) + 1)
        /\ \A k \in DOMAIN log : log'[k] = log[k]
    BY <2>1, Appended
  <2>3. QED
    BY <1>1, <2>2
<1>4. QED
  BY <1>2, <1>3

(* A step that leaves a request alone keeps its invariant. *)
LEMMA OtherStep ==
  ASSUME TypeOK, NEW r \in Requests, RequestInv(r), Untouched(r), NothingNew(r)
  PROVE  RequestInv(r)'
<1>1. /\ Len(log) \in Nat /\ Len(log') \in Nat /\ Len(log) <= Len(log')
      /\ \A k \in DOMAIN log : log'[k] = log[k]
  BY LogGrows, RequestType DEF NothingNew
<1>2. ASSUME NEW k \in DOMAIN log', log'[k].req = r
      PROVE  k \in DOMAIN log /\ log'[k] = log[k]
  <2>1. CASE log' = log
    BY <2>1, <1>2
  <2>2. ASSUME NEW o \in Op, o.req # r, log' = Append(log, o)
        PROVE  k \in DOMAIN log
    BY <2>2, <1>2, Appended
  <2>3. QED
    BY <2>1, <2>2, <1>1 DEF NothingNew
<1>3. \A m \in inFlight' : m.op.req = r => m \in inFlight
  BY DEF NothingNew
<1>4. /\ Attempting(r)' <=> Attempting(r)
      /\ Fresh(r)' <=> Fresh(r)
      /\ Searching(r)' <=> Searching(r)
  BY DEF Untouched, Attempting, Fresh, Searching, Loading
<1>5. \A b : Names(r, b)' <=> Names(r, b)
  BY DEF Untouched, Names
<1>6. attempts[r] \in Seq(Nat)
  BY RequestType
<1>7. JournalInv(r)'
  BY <1>1, <1>2, <1>3, <1>4, <1>5, <1>6 DEF RequestInv, JournalInv, Untouched
<1>8. FreshInv(r)'
  BY <1>2, <1>3, <1>4 DEF RequestInv, FreshInv
<1>9. LandedInv(r)'
  BY <1>2, <1>3, <1>4 DEF RequestInv, LandedInv, Untouched
<1>10. NewestInv(r)'
  BY <1>3, <1>4 DEF RequestInv, NewestInv, Untouched
<1>11. StageInv(r)'
  BY DEF RequestInv, StageInv, Untouched
<1>12. QED
  BY <1>7, <1>8, <1>9, <1>10, <1>11 DEF RequestInv

-----------------------------------------------------------------------------
(* Steps of the request itself.                                            *)

(* Answering, failing before anything was sent, loading on, and writing    *)
(* the operation object: nothing new is said of the request.               *)
LEMMA QuietStep ==
  ASSUME TypeOK, NEW r \in Requests, RequestInv(r),
         UNCHANGED <<log, inFlight>>, base'[r] = base[r], attempts'[r] = attempts[r],
         pc'[r] \notin {"search", "prepare", "verify"},
         Attempting(r)' => Attempting(r), Fresh(r)' => Fresh(r),
         Searching(r)' => Searching(r)
  PROVE  RequestInv(r)'
<1>1. \A b : Names(r, b)' <=> Names(r, b)
  BY DEF Names
<1>2. JournalInv(r)'
  BY <1>1 DEF RequestInv, JournalInv
<1>3. StageInv(r)' /\ FreshInv(r)' /\ LandedInv(r)' /\ NewestInv(r)'
  BY DEF RequestInv, StageInv, FreshInv, LandedInv, NewestInv
<1>4. QED
  BY <1>2, <1>3 DEF RequestInv

(* A loaded head is the newest one, so no operation of the request is      *)
(* based above it.                                                         *)
LEMMA LoadedStep ==
  ASSUME CoreInv, NEW r \in Requests, RequestInv(r), Loading(r),
         UNCHANGED <<log, inFlight>>, base'[r] = base[r], attempts'[r] = attempts[r],
         stage'[r] = stage[r], cur'[r] = Len(log), pc'[r] = AfterLoad(r)
  PROVE  RequestInv(r)'
<1>t. TypeOK
  BY DEF CoreInv
<1>1. \A b : Names(r, b)' <=> Names(r, b)
  BY DEF Names
<1>2. /\ pc'[r] = "prepare" <=> stage[r] = "start"
      /\ pc'[r] = "search" <=> stage[r] = "search"
      /\ pc'[r] = "verify" <=> stage[r] = "rebase"
      /\ pc'[r] \in {"prepare", "search", "verify"}
  BY <1>t, AfterLoadType, RequestType DEF AfterLoad
<1>3. /\ Attempting(r)' <=> Attempting(r)
      /\ Fresh(r)' <=> Fresh(r)
      /\ Searching(r)' <=> Searching(r)
  BY <1>2 DEF Attempting, Fresh, Searching, Loading
<1>4. /\ \A k \in DOMAIN log : log[k].base = k - 1 /\ k \in 1..Len(log)
      /\ \A m \in inFlight : m.op.base <= Len(log)
  BY <1>t, RequestType DEF CoreInv, ChainUnbroken, LandsOnBase
<1>5. JournalInv(r)'
  BY <1>1, <1>3 DEF RequestInv, JournalInv
<1>6. FreshInv(r)'
  BY <1>3 DEF RequestInv, FreshInv
<1>7. LandedInv(r)'
  BY <1>2, <1>3, <1>4, <1>6, <1>t, RequestType
  DEF RequestInv, LandedInv, FreshInv, Fresh, Loading
<1>8. NewestInv(r)'
  BY <1>3, <1>4 DEF RequestInv, NewestInv
<1>9. StageInv(r)'
  BY <1>2 DEF StageInv
<1>10. QED
  BY <1>5, <1>6, <1>7, <1>8, <1>9 DEF RequestInv

(* A call starts: a journal that names no attempt proves that there is     *)
(* none.                                                                   *)
LEMMA StartStep ==
  ASSUME TypeOK, NEW r \in Requests, RequestInv(r), pc[r] = "idle",
         UNCHANGED <<log, inFlight>>, base'[r] = base[r], attempts'[r] = attempts[r],
         stage'[r] = FirstStage(r), pc'[r] = "head"
  PROVE  RequestInv(r)'
<1>1. \A b : Names(r, b)' <=> Names(r, b)
  BY DEF Names
<1>2. /\ ~Attempting(r)'
      /\ Fresh(r)' <=> attempts[r] = <<>>
      /\ Searching(r)' <=> attempts[r] # <<>>
  BY DEF Attempting, Fresh, Searching, Loading, FirstStage
<1>3. JournalInv(r)'
  BY <1>1, <1>2 DEF RequestInv, JournalInv
<1>4. FreshInv(r)'
  <2>1. CASE r \in Durable /\ attempts[r] = <<>>
    <3>1. \A b : ~Names(r, b)
      BY <2>1 DEF Names
    <3>2. QED
      BY <2>1, <3>1 DEF RequestInv, JournalInv, FreshInv
  <2>2. CASE r \notin Durable
    BY <2>2 DEF RequestInv, FreshInv, Fresh
  <2>3. QED
    BY <1>2, <2>1, <2>2 DEF FreshInv
<1>5. LandedInv(r)' /\ NewestInv(r)'
  BY <1>2 DEF RequestInv, LandedInv, NewestInv
<1>6. StageInv(r)'
  BY DEF StageInv
<1>7. QED
  BY <1>3, <1>4, <1>5, <1>6 DEF RequestInv

(* The search finds none of the journal's attempts in the chain: whatever  *)
(* of them still landed did so on the head that was loaded.                *)
LEMMA LandedOnLoaded ==
  ASSUME CoreInv, NEW r \in Requests, RequestInv(r), pc[r] = "search", OwnAbsent(r),
         NEW k \in DOMAIN log, log[k].req = r
  PROVE  log[k].base = cur[r]
<1>t. TypeOK
  BY DEF CoreInv
<1>d. r \in Durable /\ attempts[r] # <<>>
  BY DEF RequestInv, JournalInv, Searching
<1>1. log[k].base = k - 1 /\ k \in 1..Len(log) /\ log[k] \in Op /\ cur[r] \in Nat
  BY <1>t, RequestType DEF CoreInv, ChainUnbroken
<1>2. PICK i \in DOMAIN attempts[r] : attempts[r][i] = log[k].base
  BY <1>d DEF RequestInv, JournalInv, Names
<1>3. attempts[r][1] <= attempts[r][i]
  BY DEF RequestInv, JournalInv
<1>4. attempts[r][1] \in Nat
  BY <1>d, <1>t, RequestType
<1>5. log[k] = [req |-> r, base |-> attempts[r][i]]
  BY <1>1, <1>2 DEF Op
<1>6. log[k] \in Recorded(r)
  BY <1>5 DEF Recorded
<1>7. k \notin (Floor(r) + 1)..cur[r]
  BY <1>6 DEF OwnAbsent
<1>8. k > cur[r]
  BY <1>1, <1>2, <1>3, <1>4, <1>7 DEF Floor
<1>9. log[k].base <= cur[r]
  BY DEF RequestInv, LandedInv
<1>10. QED
  BY <1>1, <1>8, <1>9

(* The next attempt after the search. *)
LEMMA AbsentStep ==
  ASSUME CoreInv, NEW r \in Requests, RequestInv(r), pc[r] = "search", OwnAbsent(r),
         UNCHANGED <<log, inFlight>>, base'[r] = base[r], attempts'[r] = attempts[r],
         stage'[r] = stage[r], cur'[r] = cur[r], pc'[r] = "prepare"
  PROVE  RequestInv(r)'
<1>t. TypeOK
  BY DEF CoreInv
<1>1. \A b : Names(r, b)' <=> Names(r, b)
  BY DEF Names
<1>2. r \in Durable /\ attempts[r] # <<>>
  BY DEF RequestInv, JournalInv, Searching
<1>3. ~Attempting(r)' /\ ~Searching(r)' /\ ~Fresh(r)' /\ StageInv(r)'
  BY DEF Attempting, Searching, Fresh, Loading, RequestInv, StageInv
<1>4. JournalInv(r)'
  BY <1>1, <1>2, <1>3 DEF RequestInv, JournalInv
<1>5. \A k \in DOMAIN log : log[k].req = r => log[k].base = cur[r]
  BY LandedOnLoaded
<1>6. FreshInv(r)' /\ LandedInv(r)' /\ NewestInv(r)'
  BY <1>3, <1>5 DEF RequestInv, FreshInv, LandedInv, NewestInv
<1>7. QED
  BY <1>3, <1>4, <1>6 DEF RequestInv

(* The next attempt is built on the loaded head and recorded before        *)
(* anything is sent.                                                       *)
LEMMA PrepareStep ==
  ASSUME CoreInv, NEW r \in Requests, RequestInv(r), Prepare(r)
  PROVE  RequestInv(r)'
<1>t. TypeOK
  BY DEF CoreInv
<1>1. /\ UNCHANGED <<log, inFlight>> /\ stage'[r] = stage[r] /\ cur'[r] = cur[r]
      /\ pc[r] = "prepare" /\ attempts' = RecordAttempt(r)
  BY DEF Prepare, bucketVars, loadVars
<1>2. base'[r] = cur[r] /\ pc'[r] = "write"
  BY <1>t DEF Prepare, NextBase, TypeOK
<1>3. attempts[r] \in Seq(Nat) /\ cur[r] \in Nat /\ cur[r] <= Len(log) /\ Len(log) \in Nat
  BY <1>t, RequestType DEF CoreInv, LoadInv
<1>4. Attempting(r)' /\ ~Searching(r)' /\ ~Fresh(r)' /\ StageInv(r)'
  BY <1>2 DEF Attempting, Searching, Fresh, Loading, StageInv
<1>5. r \notin Durable => attempts'[r] = attempts[r]
  BY <1>1 DEF RecordAttempt
<1>6. r \in Durable => \/ attempts'[r] = attempts[r] /\ Names(r, cur[r])
                       \/ attempts'[r] = Append(attempts[r], cur[r])
  <2>1. CASE [req |-> r, base |-> cur[r]] \in Recorded(r)
    <3>1. PICK i \in DOMAIN attempts[r] :
            [req |-> r, base |-> cur[r]] = [req |-> r, base |-> attempts[r][i]]
      BY <2>1 DEF Recorded
    <3>2. cur[r] = attempts[r][i]
      BY <3>1
    <3>3. Names(r, cur[r])
      BY <3>2 DEF Names
    <3>4. QED
      BY <1>1, <2>1, <3>3 DEF RecordAttempt
  <2>2. CASE r \in Durable /\ [req |-> r, base |-> cur[r]] \notin Recorded(r)
    <3>1. attempts' = [attempts EXCEPT ![r] = Append(@, cur[r])]
      BY <1>1, <2>2 DEF RecordAttempt
    <3>2. QED
      BY <3>1, <1>t DEF TypeOK
  <2>3. QED
    BY <2>1, <2>2
<1>7. /\ \A b : Names(r, b) => Names(r, b)'
      /\ r \in Durable => Names(r, cur[r])'
  <2>1. CASE attempts'[r] = attempts[r]
    BY <2>1, <1>1, <1>3, <1>6 DEF Names
  <2>2. CASE attempts'[r] = Append(attempts[r], cur[r])
    <3>1. /\ DOMAIN attempts[r] \subseteq DOMAIN attempts'[r]
          /\ \A i \in DOMAIN attempts[r] : attempts'[r][i] = attempts[r][i]
          /\ Len(attempts[r]) + 1 \in DOMAIN attempts'[r]
          /\ attempts'[r][Len(attempts[r]) + 1] = cur[r]
      BY <2>2, <1>3
    <3>2. QED
      BY <3>1, <1>1 DEF Names
  <2>3. QED
    BY <2>1, <2>2, <1>5, <1>6
<1>8. \A i \in DOMAIN attempts'[r] :
        attempts'[r][1] <= attempts'[r][i] /\ attempts'[r][i] <= Len(log)
  <2>1. CASE attempts'[r] = attempts[r]
    BY <2>1 DEF RequestInv, JournalInv
  <2>2. CASE attempts'[r] = Append(attempts[r], cur[r])
    <3>1. /\ \A i \in DOMAIN attempts[r] : attempts'[r][i] = attempts[r][i]
          /\ \A i \in DOMAIN attempts'[r] :
               i \in DOMAIN attempts[r] \/ attempts'[r][i] = cur[r]
          /\ attempts[r] # <<>> => 1 \in DOMAIN attempts[r]
          /\ attempts[r] = <<>> => attempts'[r][1] = cur[r] /\ DOMAIN attempts[r] = {}
      BY <2>2, <1>3
    <3>2. \A i \in DOMAIN attempts[r] :
            /\ attempts[r][1] <= attempts[r][i] /\ attempts[r][i] <= Len(log)
            /\ attempts[r][i] <= cur[r] /\ attempts[r][i] \in Nat
      BY <1>1, <1>3 DEF RequestInv, JournalInv
    <3>3. QED
      BY <3>1, <3>2, <1>3
  <2>3. QED
    BY <2>1, <2>2, <1>5, <1>6
<1>9. JournalInv(r)'
  BY <1>1, <1>2, <1>4, <1>5, <1>7, <1>8 DEF RequestInv, JournalInv
<1>10. FreshInv(r)' /\ LandedInv(r)' /\ NewestInv(r)'
  BY <1>1, <1>2, <1>4 DEF RequestInv, FreshInv, LandedInv, NewestInv
<1>11. QED
  BY <1>4, <1>9, <1>10 DEF RequestInv

(* The attempt was rejected and the chain above its base does not name it: *)
(* nothing of the request has landed.                                      *)
LEMMA NothingLanded ==
  ASSUME CoreInv, NEW r \in Requests, RequestInv(r), pc[r] = "verify", SinceCommitted(r)
  PROVE  \A k \in DOMAIN log : log[k].req # r
<1>t. TypeOK
  BY DEF CoreInv
<1> SUFFICES ASSUME NEW k \in DOMAIN log, log[k].req = r PROVE FALSE
  OBVIOUS
<1>1. log[k].base = k - 1 /\ k \in 1..Len(log) /\ log[k] \in Op
  BY <1>t, RequestType DEF CoreInv, ChainUnbroken
<1>2. log[k].base = base[r]
  BY DEF RequestInv, LandedInv, Attempting
<1>3. log[k] = Attempt(r)
  BY <1>1, <1>2 DEF Op, Attempt
<1>4. base[r] < cur[r] /\ base[r] \in Nat /\ cur[r] \in Nat
  BY <1>t, RequestType DEF CoreInv, BaseInv
<1>5. k \in (base[r] + 1)..cur[r]
  BY <1>1, <1>2, <1>4
<1>6. QED
  BY <1>3, <1>5 DEF SinceCommitted

(* The next attempt after one that lost. *)
LEMMA RebaseStep ==
  ASSUME CoreInv, NEW r \in Requests, RequestInv(r), pc[r] = "verify", SinceCommitted(r),
         UNCHANGED <<log, inFlight>>, base'[r] = base[r], attempts'[r] = attempts[r],
         stage'[r] = stage[r], cur'[r] = cur[r], pc'[r] = "prepare"
  PROVE  RequestInv(r)'
<1>t. TypeOK
  BY DEF CoreInv
<1>1. \A b : Names(r, b)' <=> Names(r, b)
  BY DEF Names
<1>2. ~Attempting(r)' /\ ~Searching(r)' /\ ~Fresh(r)' /\ StageInv(r)' /\ Attempting(r)
  BY DEF Attempting, Searching, Fresh, Loading, RequestInv, StageInv
<1>3. \A k \in DOMAIN log : log[k].req # r
  BY NothingLanded
<1>4. base[r] < cur[r] /\ base[r] \in Nat /\ cur[r] \in Nat
  BY <1>t, RequestType DEF CoreInv, BaseInv
<1>5. JournalInv(r)'
  BY <1>1, <1>2 DEF RequestInv, JournalInv
<1>6. FreshInv(r)' /\ LandedInv(r)'
  BY <1>2, <1>3 DEF FreshInv, LandedInv
<1>7. \A m \in inFlight : m.op.req = r => m.op.base <= base[r] /\ m.op.base \in Nat
  BY <1>2, <1>t, InFlightType DEF RequestInv, NewestInv
<1>8. NewestInv(r)'
  BY <1>2, <1>4, <1>7 DEF NewestInv
<1>9. QED
  BY <1>2, <1>5, <1>6, <1>8 DEF RequestInv

(* A head PUT of the request is left to travel on. *)
LEMMA LeftStep ==
  ASSUME CoreInv, NEW r \in Requests, RequestInv(r), pc[r] = "cas",
         log' = log, base'[r] = base[r], attempts'[r] = attempts[r],
         stage'[r] = stage[r], cur'[r] = cur[r], pc'[r] \in {"cas", "done"},
         \A m \in inFlight' : m \in inFlight \/ m.op = Attempt(r)
  PROVE  RequestInv(r)'
<1>t. TypeOK
  BY DEF CoreInv
<1>1. \A b : Names(r, b)' <=> Names(r, b)
  BY DEF Names
<1>2. ~Searching(r)' /\ ~Fresh(r)' /\ StageInv(r)' /\ Attempting(r)
  BY DEF Attempting, Searching, Fresh, Loading, StageInv
<1>3. \A m \in inFlight' : m \in inFlight \/ m.op.base = base[r]
  BY DEF Attempt
<1>4. base[r] \in Nat
  BY <1>t, RequestType
<1>5. JournalInv(r)'
  BY <1>1, <1>2, <1>3 DEF RequestInv, JournalInv
<1>6. FreshInv(r)'
  BY <1>2 DEF FreshInv
<1>7. LandedInv(r)'
  BY <1>2, <1>3, <1>4 DEF RequestInv, LandedInv
<1>8. NewestInv(r)'
  BY <1>2, <1>3, <1>4 DEF RequestInv, NewestInv
<1>9. QED
  BY <1>2, <1>5, <1>6, <1>7, <1>8 DEF RequestInv

-----------------------------------------------------------------------------
(* Landing.                                                                *)

(* An operation that lands is the first one of its request to do so. *)
LEMMA FirstToLand ==
  ASSUME CoreInv, NEW o \in Op, RequestInv(o.req), o.base = Len(log),
         \/ pc[o.req] = "cas" /\ o.base = base[o.req]
         \/ \E m \in inFlight : m.op = o
  PROVE  \A k \in DOMAIN log : log[k].req # o.req
<1>t. TypeOK /\ o.req \in Requests
  BY DEF CoreInv, Op
<1> SUFFICES ASSUME NEW k \in DOMAIN log, log[k].req = o.req PROVE FALSE
  OBVIOUS
<1>1. log[k].base = k - 1 /\ k \in 1..Len(log) /\ Len(log) \in Nat
  BY <1>t, RequestType DEF CoreInv, ChainUnbroken
<1>2. o.base <= log[k].base
  BY <1>t, <1>1 DEF RequestInv, LandedInv, Attempting
<1>3. QED
  BY <1>1, <1>2

(* Landing keeps the invariant of the request whose operation lands. *)
LEMMA LandStep ==
  ASSUME CoreInv, NEW o \in Op, NEW r \in Requests, o.req = r, RequestInv(r),
         o.base = Len(log), log' = Append(log, o),
         \A k \in DOMAIN log : log[k].req # r,
         r \in Durable => Names(r, o.base), ~Fresh(r),
         inFlight' \subseteq inFlight,
         base'[r] = base[r], attempts'[r] = attempts[r],
         stage'[r] = stage[r], cur'[r] = cur[r],
         \/ pc'[r] \in {"record", "done"} 
         \/ /\ pc'[r] = pc[r]
            /\ Attempting(r) => o.base <= base[r]
            /\ pc[r] \in {"search", "prepare"} => o.base <= cur[r]
  PROVE  RequestInv(r)'
<1>t. TypeOK
  BY DEF CoreInv
<1>1. \A b : Names(r, b)' <=> Names(r, b)
  BY DEF Names
<1>2. /\ Attempting(r)' => Attempting(r) /\ pc'[r] \notin {"record", "done"}
      /\ Searching(r)' => Searching(r)
      /\ ~Fresh(r)' /\ StageInv(r)'
  BY DEF Attempting, Searching, Fresh, Loading, RequestInv, StageInv
<1>3. /\ Len(log) \in Nat /\ Len(log') = Len(log) + 1
      /\ DOMAIN log = 1..Len(log) /\ DOMAIN log' = 1..(Len(log) + 1)
      /\ \A k \in DOMAIN log : log'[k] = log[k]
      /\ log'[Len(log) + 1] = o
  BY <1>t, Appended
<1>4. \A k \in DOMAIN log' : log'[k].req = r => log'[k] = o
  BY <1>3
<1>5. /\ base[r] \in Nat /\ base[r] <= Len(log)
      /\ cur[r] \in Nat /\ cur[r] <= Len(log)
      /\ attempts[r] \in Seq(Nat)
      /\ \A m \in inFlight : m.op.base <= Len(log) /\ m.op.base \in Nat
  BY <1>t, RequestType DEF CoreInv, BaseInv, LoadInv, LandsOnBase
<1>6. JournalInv(r)'
  BY <1>1, <1>2, <1>3, <1>4, <1>5 DEF RequestInv, JournalInv
<1>7. FreshInv(r)'
  BY <1>2 DEF FreshInv
<1>8. LandedInv(r)'
  <2>1. Attempting(r)' => o.base = base'[r]
    BY <1>2, <1>5
  <2>2. pc'[r] \in {"search", "prepare"} => o.base = cur'[r]
    BY <1>5
  <2>3. \A m \in inFlight' : m.op.base <= o.base
    BY <1>5
  <2>4. cur'[r] <= cur'[r]
    BY <1>5
  <2>5. QED
    BY <1>4, <2>1, <2>2, <2>3, <2>4 DEF LandedInv
<1>9. NewestInv(r)'
  BY <1>2 DEF RequestInv, NewestInv
<1>10. QED
  BY <1>2, <1>6, <1>7, <1>8, <1>9 DEF RequestInv

-----------------------------------------------------------------------------
(* Every action.                                                           *)

\* A step of the call or the process that serves r.
StepOf(r) == Progress(r) \/ Start(r) \/ Retry(r) \/ Fail(r) \/ ResendHead(r)

(* A call touches the memory and the journal of no other request, appends  *)
(* at most its attempt and leaves at most the head PUT of its attempt.     *)
LEMMA Footprint ==
  ASSUME TypeOK, NEW r \in Requests, StepOf(r)
  PROVE  /\ \A q \in Requests : q # r => Untouched(q)
         /\ log' = log \/ (AdvanceHead(r) /\ log' = Append(log, Attempt(r)))
         /\ \A m \in inFlight' : m \in inFlight \/ m.op = Attempt(r)
<1> DEFINE Local ==
      /\ \A q \in Requests : q # r => Untouched(q)
      /\ log' = log \/ (AdvanceHead(r) /\ log' = Append(log, Attempt(r)))
      /\ \A m \in inFlight' : m \in inFlight \/ m.op = Attempt(r)
<1>t. /\ pc \in [Requests -> Phases] /\ cur \in [Requests -> Nat]
      /\ stage \in [Requests -> {"start", "search", "rebase"}]
      /\ base \in [Requests -> Nat] /\ attempts \in [Requests -> Seq(Nat)]
  BY DEF TypeOK
<1>1. CASE HeadBefore(r)
  BY <1>1, <1>t DEF HeadBefore, Untouched, bucketVars, journalVars,
                      loadVars, callVars
<1>2. CASE GetHead(r)
  BY <1>2, <1>t DEF GetHead, Untouched, bucketVars, journalVars,
                      loadVars, callVars
<1>3. CASE HeadStable(r)
  BY <1>3, <1>t DEF HeadStable, Untouched, bucketVars, journalVars,
                      loadVars, callVars
<1>4. CASE HeadMoved(r)
  BY <1>4, <1>t DEF HeadMoved, Return, Untouched, bucketVars, journalVars,
                      loadVars, callVars
<1>5. CASE SearchFound(r)
  BY <1>5, <1>t DEF SearchFound, Return, Untouched, bucketVars, journalVars,
                      loadVars, callVars
<1>6. CASE SearchAbsent(r)
  BY <1>6, <1>t DEF SearchAbsent, Return, Untouched, bucketVars, journalVars,
                      loadVars, callVars
<1>7. CASE SearchAmbiguous(r)
  BY <1>7, <1>t DEF SearchAmbiguous, Return, Untouched, bucketVars, journalVars,
                      loadVars, callVars
<1>8. CASE Prepare(r)
  BY <1>8, <1>t DEF Prepare, RecordAttempt, Untouched, bucketVars, journalVars,
                      loadVars, callVars
<1>9. CASE WriteOperation(r)
  BY <1>9, <1>t DEF WriteOperation, Untouched, bucketVars, journalVars,
                      loadVars, callVars
<1>10. CASE AdvanceHead(r)
  BY <1>10, <1>t DEF AdvanceHead, Return, Untouched, bucketVars, journalVars,
                      loadVars, callVars
<1>11. CASE HeadRejected(r)
  BY <1>11, <1>t DEF HeadRejected, Untouched, bucketVars, journalVars,
                      loadVars, callVars
<1>12. CASE RecordCommitted(r)
  BY <1>12, <1>t DEF RecordCommitted, Return, Untouched, bucketVars, journalVars,
                      loadVars, callVars
<1>13. CASE VerifyOwn(r)
  BY <1>13, <1>t DEF VerifyOwn, Return, Untouched, bucketVars, journalVars,
                      loadVars, callVars
<1>14. CASE VerifyRebase(r)
  BY <1>14, <1>t DEF VerifyRebase, Return, Untouched, bucketVars, journalVars,
                      loadVars, callVars
<1>15. CASE VerifyUnverifiable(r)
  BY <1>15, <1>t DEF VerifyUnverifiable, Return, Untouched, bucketVars, journalVars,
                      loadVars, callVars
<1>16. CASE Start(r)
  BY <1>16, <1>t DEF Start, Untouched, bucketVars, journalVars,
                      loadVars, callVars
<1>17. CASE Retry(r)
  BY <1>17, <1>t DEF Retry, Untouched, bucketVars, journalVars,
                      loadVars, callVars
<1>18. CASE Fail(r)
  BY <1>18, <1>t DEF Fail, Return, Untouched, bucketVars, journalVars,
                      loadVars, callVars
<1>19. CASE ResendHead(r)
  BY <1>19, <1>t DEF ResendHead, Untouched, bucketVars, journalVars,
                      loadVars, callVars
<1>20. Local
  BY <1>1, <1>2, <1>3, <1>4, <1>5, <1>6, <1>7, <1>8, <1>9, <1>10, <1>11, <1>12,
     <1>13, <1>14, <1>15, <1>16, <1>17, <1>18, <1>19 DEF StepOf, Progress
<1>21. QED
  BY <1>20

(* Every step of a request keeps its own invariant. *)
LEMMA OwnStep ==
  ASSUME CoreInv, NEW r \in Requests, RequestInv(r), StepOf(r)
  PROVE  RequestInv(r)'
<1>t. TypeOK
  BY DEF CoreInv
<1>1. CASE GetHead(r)
  <2>1. /\ UNCHANGED <<log, inFlight>> /\ base'[r] = base[r]
        /\ attempts'[r] = attempts[r] /\ stage'[r] = stage[r]
    BY <1>1, <1>t DEF GetHead, bucketVars, journalVars, loadVars, callVars, TypeOK
  <2>2. pc[r] = "get" /\ pc'[r] = "recheck"
    BY <1>1, <1>t DEF GetHead, TypeOK
  <2>3. /\ pc'[r] \notin {"search", "prepare", "verify"}
        /\ (Attempting(r)' => Attempting(r)) /\ (Fresh(r)' => Fresh(r))
        /\ Searching(r)' => Searching(r)
    BY <2>1, <2>2 DEF Attempting, Fresh, Searching, Loading
  <2>4. QED
    BY <2>1, <2>3, <1>t, QuietStep
<1>2. CASE HeadMoved(r)
  <2>1. /\ UNCHANGED <<log, inFlight>> /\ base'[r] = base[r]
        /\ attempts'[r] = attempts[r] /\ stage'[r] = stage[r]
    BY <1>2, <1>t
       DEF HeadMoved, Return, bucketVars, journalVars, loadVars, callVars, TypeOK
  <2>2. pc[r] = "recheck" /\ pc'[r] \in {"head", "done"}
    BY <1>2, <1>t DEF HeadMoved, Return, TypeOK
  <2>3. /\ pc'[r] \notin {"search", "prepare", "verify"}
        /\ (Attempting(r)' => Attempting(r)) /\ (Fresh(r)' => Fresh(r))
        /\ Searching(r)' => Searching(r)
    BY <2>1, <2>2 DEF Attempting, Fresh, Searching, Loading
  <2>4. QED
    BY <2>1, <2>3, <1>t, QuietStep
<1>3. CASE SearchFound(r)
  <2>1. /\ UNCHANGED <<log, inFlight>> /\ base'[r] = base[r]
        /\ attempts'[r] = attempts[r] /\ stage'[r] = stage[r]
    BY <1>3, <1>t
       DEF SearchFound, Return, bucketVars, journalVars, loadVars, callVars, TypeOK
  <2>2. pc'[r] = "done"
    BY <1>3, <1>t DEF SearchFound, Return, TypeOK
  <2>3. /\ pc'[r] \notin {"search", "prepare", "verify"}
        /\ (Attempting(r)' => Attempting(r)) /\ (Fresh(r)' => Fresh(r))
        /\ Searching(r)' => Searching(r)
    BY <2>1, <2>2 DEF Attempting, Fresh, Searching, Loading
  <2>4. QED
    BY <2>1, <2>3, <1>t, QuietStep
<1>4. CASE SearchAmbiguous(r)
  <2>1. /\ UNCHANGED <<log, inFlight>> /\ base'[r] = base[r]
        /\ attempts'[r] = attempts[r] /\ stage'[r] = stage[r]
    BY <1>4, <1>t
       DEF SearchAmbiguous, Return, bucketVars, journalVars, loadVars, callVars,
       TypeOK
  <2>2. pc'[r] = "done"
    BY <1>4, <1>t DEF SearchAmbiguous, Return, TypeOK
  <2>3. /\ pc'[r] \notin {"search", "prepare", "verify"}
        /\ (Attempting(r)' => Attempting(r)) /\ (Fresh(r)' => Fresh(r))
        /\ Searching(r)' => Searching(r)
    BY <2>1, <2>2 DEF Attempting, Fresh, Searching, Loading
  <2>4. QED
    BY <2>1, <2>3, <1>t, QuietStep
<1>5. CASE RecordCommitted(r)
  <2>1. /\ UNCHANGED <<log, inFlight>> /\ base'[r] = base[r]
        /\ attempts'[r] = attempts[r] /\ stage'[r] = stage[r]
    BY <1>5, <1>t
       DEF RecordCommitted, Return, bucketVars, journalVars, loadVars, callVars,
       TypeOK
  <2>2. pc'[r] = "done"
    BY <1>5, <1>t DEF RecordCommitted, Return, TypeOK
  <2>3. /\ pc'[r] \notin {"search", "prepare", "verify"}
        /\ (Attempting(r)' => Attempting(r)) /\ (Fresh(r)' => Fresh(r))
        /\ Searching(r)' => Searching(r)
    BY <2>1, <2>2 DEF Attempting, Fresh, Searching, Loading
  <2>4. QED
    BY <2>1, <2>3, <1>t, QuietStep
<1>6. CASE VerifyOwn(r)
  <2>1. /\ UNCHANGED <<log, inFlight>> /\ base'[r] = base[r]
        /\ attempts'[r] = attempts[r] /\ stage'[r] = stage[r]
    BY <1>6, <1>t
       DEF VerifyOwn, Return, bucketVars, journalVars, loadVars, callVars, TypeOK
  <2>2. pc'[r] = "done"
    BY <1>6, <1>t DEF VerifyOwn, Return, TypeOK
  <2>3. /\ pc'[r] \notin {"search", "prepare", "verify"}
        /\ (Attempting(r)' => Attempting(r)) /\ (Fresh(r)' => Fresh(r))
        /\ Searching(r)' => Searching(r)
    BY <2>1, <2>2 DEF Attempting, Fresh, Searching, Loading
  <2>4. QED
    BY <2>1, <2>3, <1>t, QuietStep
<1>7. CASE VerifyUnverifiable(r)
  <2>1. /\ UNCHANGED <<log, inFlight>> /\ base'[r] = base[r]
        /\ attempts'[r] = attempts[r] /\ stage'[r] = stage[r]
    BY <1>7, <1>t
       DEF VerifyUnverifiable, Return, bucketVars, journalVars, loadVars,
       callVars, TypeOK
  <2>2. pc'[r] = "done"
    BY <1>7, <1>t DEF VerifyUnverifiable, Return, TypeOK
  <2>3. /\ pc'[r] \notin {"search", "prepare", "verify"}
        /\ (Attempting(r)' => Attempting(r)) /\ (Fresh(r)' => Fresh(r))
        /\ Searching(r)' => Searching(r)
    BY <2>1, <2>2 DEF Attempting, Fresh, Searching, Loading
  <2>4. QED
    BY <2>1, <2>3, <1>t, QuietStep
<1>8. CASE WriteOperation(r)
  <2>1. /\ UNCHANGED <<log, inFlight>> /\ base'[r] = base[r]
        /\ attempts'[r] = attempts[r] /\ stage'[r] = stage[r]
    BY <1>8, <1>t
       DEF WriteOperation, bucketVars, journalVars, loadVars, callVars, TypeOK
  <2>2. pc[r] = "write" /\ pc'[r] = "cas"
    BY <1>8, <1>t DEF WriteOperation, TypeOK
  <2>3. /\ pc'[r] \notin {"search", "prepare", "verify"}
        /\ (Attempting(r)' => Attempting(r)) /\ (Fresh(r)' => Fresh(r))
        /\ Searching(r)' => Searching(r)
    BY <2>1, <2>2 DEF Attempting, Fresh, Searching, Loading
  <2>4. QED
    BY <2>1, <2>3, <1>t, QuietStep
<1>9. CASE HeadRejected(r)
  <2>1. /\ UNCHANGED <<log, inFlight>> /\ base'[r] = base[r]
        /\ attempts'[r] = attempts[r] /\ stage'[r] = "rebase"
    BY <1>9, <1>t DEF HeadRejected, bucketVars, journalVars, loadVars, callVars, TypeOK
  <2>2. pc[r] = "cas" /\ pc'[r] = "head"
    BY <1>9, <1>t DEF HeadRejected, TypeOK
  <2>3. /\ pc'[r] \notin {"search", "prepare", "verify"}
        /\ (Attempting(r)' => Attempting(r)) /\ (Fresh(r)' => Fresh(r))
        /\ Searching(r)' => Searching(r)
    BY <2>1, <2>2 DEF Attempting, Fresh, Searching, Loading
  <2>4. QED
    BY <2>1, <2>3, <1>t, QuietStep
<1>10. CASE Retry(r)
  <2>1. /\ UNCHANGED <<log, inFlight>> /\ base'[r] = base[r]
        /\ attempts'[r] = attempts[r] /\ stage'[r] = stage[r]
    BY <1>10, <1>t DEF Retry, bucketVars, journalVars, loadVars, callVars, TypeOK
  <2>2. r \in Durable /\ pc'[r] = "idle"
    BY <1>10, <1>t DEF Retry, TypeOK
  <2>3. /\ pc'[r] \notin {"search", "prepare", "verify"}
        /\ (Attempting(r)' => Attempting(r)) /\ (Fresh(r)' => Fresh(r))
        /\ Searching(r)' => Searching(r)
    BY <2>1, <2>2 DEF Attempting, Fresh, Searching, Loading
  <2>4. QED
    BY <2>1, <2>3, <1>t, QuietStep
<1>11. CASE Start(r)
  <2>1. /\ UNCHANGED <<log, inFlight>> /\ base'[r] = base[r]
        /\ attempts'[r] = attempts[r] /\ stage'[r] = FirstStage(r)
        /\ pc[r] = "idle" /\ pc'[r] = "head"
    BY <1>11, <1>t DEF Start, bucketVars, journalVars, TypeOK
  <2>2. QED
    BY <2>1, <1>t, StartStep
<1>12. CASE HeadBefore(r)
  <2>1. CASE log # <<>>
    <3>1. /\ UNCHANGED <<log, inFlight>> /\ base'[r] = base[r]
          /\ attempts'[r] = attempts[r] /\ stage'[r] = stage[r]
      BY <2>1, <1>12, <1>t
         DEF HeadBefore, bucketVars, journalVars, loadVars, callVars, TypeOK
    <3>2. pc[r] = "head" /\ pc'[r] = "get"
      BY <2>1, <1>12, <1>t DEF HeadBefore, TypeOK
    <3>3. /\ pc'[r] \notin {"search", "prepare", "verify"}
          /\ (Attempting(r)' => Attempting(r)) /\ (Fresh(r)' => Fresh(r))
          /\ Searching(r)' => Searching(r)
      BY <3>1, <3>2 DEF Attempting, Fresh, Searching, Loading
    <3>4. QED
      BY <3>1, <3>3, <1>t, QuietStep
  <2>2. CASE log = <<>>
    <3>1. /\ UNCHANGED <<log, inFlight>> /\ base'[r] = base[r]
          /\ attempts'[r] = attempts[r] /\ stage'[r] = stage[r]
          /\ pc[r] = "head" /\ pc'[r] = AfterLoad(r) /\ cur'[r] = Len(log)
      BY <1>12, <2>2, <1>t DEF HeadBefore, bucketVars, journalVars, TypeOK
    <3>2. QED
      BY <3>1, LoadedStep DEF Loading
  <2>3. QED
    BY <2>1, <2>2
<1>13. CASE HeadStable(r)
  <2>1. /\ UNCHANGED <<log, inFlight>> /\ base'[r] = base[r]
        /\ attempts'[r] = attempts[r] /\ stage'[r] = stage[r]
        /\ pc[r] = "recheck" /\ pc'[r] = AfterLoad(r) /\ cur'[r] = content[r]
        /\ seen[r] = Len(log)
    BY <1>13, <1>t DEF HeadStable, Unmoved, bucketVars, journalVars, TypeOK
  <2>2. cur'[r] = Len(log)
    BY <2>1, <1>t DEF CoreInv, LoadInv, TypeOK
  <2>3. QED
    BY <2>1, <2>2, LoadedStep DEF Loading
<1>14. CASE SearchAbsent(r)
  <2>1. CASE pc'[r] = "prepare"
    <3>1. /\ UNCHANGED <<log, inFlight>> /\ base'[r] = base[r]
          /\ attempts'[r] = attempts[r] /\ stage'[r] = stage[r]
          /\ cur'[r] = cur[r] /\ pc[r] = "search" /\ OwnAbsent(r)
      BY <1>14, <1>t DEF SearchAbsent, bucketVars, journalVars, loadVars, TypeOK
    <3>2. QED
      BY <2>1, <3>1, AbsentStep
  <2>2. CASE pc'[r] # "prepare"
    <3>1. /\ UNCHANGED <<log, inFlight>> /\ base'[r] = base[r]
          /\ attempts'[r] = attempts[r] /\ stage'[r] = stage[r]
      BY <2>2, <1>14, <1>t
         DEF SearchAbsent, Return, bucketVars, journalVars, loadVars, callVars,
         TypeOK
    <3>2. pc'[r] = "done"
      BY <2>2, <1>14, <1>t DEF SearchAbsent, Return, TypeOK
    <3>3. /\ pc'[r] \notin {"search", "prepare", "verify"}
          /\ (Attempting(r)' => Attempting(r)) /\ (Fresh(r)' => Fresh(r))
          /\ Searching(r)' => Searching(r)
      BY <3>1, <3>2 DEF Attempting, Fresh, Searching, Loading
    <3>4. QED
      BY <3>1, <3>3, <1>t, QuietStep
  <2>3. QED
    BY <2>1, <2>2
<1>15. CASE VerifyRebase(r)
  <2>1. CASE pc'[r] = "prepare"
    <3>1. /\ UNCHANGED <<log, inFlight>> /\ base'[r] = base[r]
          /\ attempts'[r] = attempts[r] /\ stage'[r] = stage[r]
          /\ cur'[r] = cur[r] /\ pc[r] = "verify" /\ SinceCommitted(r)
      BY <1>15, <1>t DEF VerifyRebase, bucketVars, journalVars, loadVars, TypeOK
    <3>2. QED
      BY <2>1, <3>1, RebaseStep
  <2>2. CASE pc'[r] # "prepare"
    <3>1. /\ UNCHANGED <<log, inFlight>> /\ base'[r] = base[r]
          /\ attempts'[r] = attempts[r] /\ stage'[r] = stage[r]
      BY <2>2, <1>15, <1>t
         DEF VerifyRebase, Return, bucketVars, journalVars, loadVars, callVars,
         TypeOK
    <3>2. pc'[r] = "done"
      BY <2>2, <1>15, <1>t DEF VerifyRebase, Return, TypeOK
    <3>3. /\ pc'[r] \notin {"search", "prepare", "verify"}
          /\ (Attempting(r)' => Attempting(r)) /\ (Fresh(r)' => Fresh(r))
          /\ Searching(r)' => Searching(r)
      BY <3>1, <3>2 DEF Attempting, Fresh, Searching, Loading
    <3>4. QED
      BY <3>1, <3>3, <1>t, QuietStep
  <2>3. QED
    BY <2>1, <2>2
<1>16. CASE Prepare(r)
  BY <1>16, PrepareStep
<1>17. CASE AdvanceHead(r)
  <2> DEFINE o == Attempt(r)
  <2>1. /\ pc[r] = "cas" /\ Len(log) = etag[r] /\ log' = Append(log, o)
        /\ inFlight' = inFlight /\ base'[r] = base[r] /\ attempts'[r] = attempts[r]
        /\ stage'[r] = stage[r] /\ cur'[r] = cur[r]
        /\ pc'[r] \in {"record", "done"}
    BY <1>17, <1>t DEF AdvanceHead, Return, journalVars, loadVars, TypeOK
  <2>2. o \in Op /\ o.req = r /\ o.base = base[r]
    BY <1>t, AttemptType DEF Attempt
  <2>3. o.base = Len(log)
    BY <2>1, <2>2 DEF CoreInv, LoadInv, BaseInv
  <2>4. \A k \in DOMAIN log : log[k].req # r
    BY <2>1, <2>2, <2>3, FirstToLand
  <2>5. ~Fresh(r) /\ (r \in Durable => Names(r, o.base))
    BY <2>1, <2>2 DEF Fresh, Loading, Attempting, RequestInv, JournalInv
  <2> HIDE DEF o
  <2>6. QED
    BY <2>1, <2>2, <2>3, <2>4, <2>5, LandStep
<1>18. CASE Fail(r)
  <2>1. CASE pc[r] = "cas"
    <3>1. /\ log' = log /\ base'[r] = base[r] /\ attempts'[r] = attempts[r]
          /\ stage'[r] = stage[r] /\ cur'[r] = cur[r] /\ pc'[r] = "done"
      BY <1>18, <1>t DEF Fail, Return, journalVars, loadVars, TypeOK
    <3>2. \A m \in inFlight' : m \in inFlight \/ m.op = Attempt(r)
      BY <1>t, Footprint
    <3>3. QED
      BY <2>1, <3>1, <3>2, LeftStep
  <2>2. CASE pc[r] # "cas"
    <3>1. /\ UNCHANGED <<log, inFlight>> /\ base'[r] = base[r]
          /\ attempts'[r] = attempts[r] /\ stage'[r] = stage[r]
      BY <2>2, <1>18, <1>t
         DEF Fail, Return, bucketVars, journalVars, loadVars, callVars, TypeOK
    <3>2. pc'[r] = "done"
      BY <2>2, <1>18, <1>t DEF Fail, Return, TypeOK
    <3>3. /\ pc'[r] \notin {"search", "prepare", "verify"}
          /\ (Attempting(r)' => Attempting(r)) /\ (Fresh(r)' => Fresh(r))
          /\ Searching(r)' => Searching(r)
      BY <3>1, <3>2 DEF Attempting, Fresh, Searching, Loading
    <3>4. QED
      BY <3>1, <3>3, <1>t, QuietStep
  <2>3. QED
    BY <2>1, <2>2
<1>19. CASE ResendHead(r)
  <2>1. /\ log' = log /\ base'[r] = base[r] /\ attempts'[r] = attempts[r]
        /\ stage'[r] = stage[r] /\ cur'[r] = cur[r]
        /\ pc[r] = "cas" /\ pc'[r] = "cas"
    BY <1>19, <1>t DEF ResendHead, journalVars, loadVars, callVars, TypeOK
  <2>2. \A m \in inFlight' : m \in inFlight \/ m.op = Attempt(r)
    BY <1>t, Footprint
  <2>3. QED
    BY <2>1, <2>2, LeftStep
<1>20. QED
  BY <1>1, <1>2, <1>3, <1>4, <1>5, <1>6, <1>7, <1>8, <1>9, <1>10, <1>11, <1>12,
     <1>13, <1>14, <1>15, <1>16, <1>17, <1>18, <1>19 DEF StepOf, Progress

(* A head PUT that lands late leaves the invariant of every request. *)
LEMMA LateStep ==
  ASSUME CoreInv, NEW r \in Requests, \A q \in Requests : RequestInv(q),
         NEW m \in inFlight, LatePut(m)
  PROVE  RequestInv(r)'
<1>t. TypeOK
  BY DEF CoreInv
<1> DEFINE o == m.op
<1>1. /\ log' = Append(log, o) /\ inFlight' \subseteq inFlight /\ Untouched(r)
      /\ m.etag = Len(log)
  BY DEF LatePut, journalVars, loadVars, callVars, Untouched
<1>2. o \in Op /\ o.req \in Requests /\ o.base = Len(log)
  BY <1>1, <1>t, InFlightType DEF CoreInv, LandsOnBase
<1>3. CASE o.req # r
  BY <1>1, <1>2, <1>3, <1>t, OtherStep DEF NothingNew
<1>4. CASE o.req = r
  <2>1. \A k \in DOMAIN log : log[k].req # r
    BY <1>2, <1>4, FirstToLand
  <2>2. /\ ~Fresh(r) /\ (r \in Durable => Names(r, o.base))
        /\ Attempting(r) => o.base <= base[r]
        /\ pc[r] \in {"search", "prepare"} => o.base <= cur[r]
    BY <1>4 DEF RequestInv, FreshInv, JournalInv, NewestInv
  <2> HIDE DEF o
  <2>3. QED
    BY <1>1, <1>2, <1>4, <2>1, <2>2, LandStep DEF Untouched
<1>5. QED
  BY <1>3, <1>4

(* What lands is the first operation of its request in the log. *)
LEMMA OnceStep ==
  ASSUME CoreInv, \A q \in Requests : RequestInv(q), CommittedOnce, NEW o \in Op,
         log' = Append(log, o), o.base = Len(log),
         \/ pc[o.req] = "cas" /\ o.base = base[o.req]
         \/ \E m \in inFlight : m.op = o
  PROVE  CommittedOnce'
<1>t. TypeOK /\ o.req \in Requests
  BY DEF CoreInv, Op
<1>1. \A k \in DOMAIN log : log[k].req # o.req
  BY <1>t, FirstToLand
<1>2. /\ Len(log) \in Nat /\ DOMAIN log = 1..Len(log)
      /\ DOMAIN log' = 1..(Len(log) + 1)
      /\ \A k \in DOMAIN log : log'[k] = log[k]
      /\ log'[Len(log) + 1] = o
  BY <1>t, Appended
<1>3. QED
  BY <1>1, <1>2 DEF CommittedOnce

(* Every step keeps the invariant. *)
LEMMA LandingStep == LandingInv /\ [Next]_vars => LandingInv'
<1> SUFFICES ASSUME LandingInv, [Next]_vars PROVE LandingInv'
  OBVIOUS
<1>c. CoreInv /\ TypeOK /\ CommittedOnce /\ \A q \in Requests : RequestInv(q)
  BY DEF LandingInv, CoreInv
<1>n. CoreInv'
  BY <1>c, CoreStep
<1>1. ASSUME NEW r \in Requests, StepOf(r)
      PROVE  CommittedOnce' /\ \A q \in Requests : RequestInv(q)'
  <2>1. RequestInv(r)'
    BY <1>1, <1>c, OwnStep
  <2>2. ASSUME NEW q \in Requests, q # r PROVE RequestInv(q)'
    <3>1. Untouched(q)
      BY <1>1, <1>c, <2>2, Footprint
    <3>2. Attempt(r) \in Op /\ Attempt(r).req = r
      BY <1>c, AttemptType DEF Attempt
    <3>3. NothingNew(q)
      BY <1>1, <1>c, <2>2, <3>2, Footprint DEF NothingNew
    <3>4. QED
      BY <3>1, <3>3, <1>c, OtherStep
  <2>3. CommittedOnce'
    <3>1. CASE log' = log
      BY <3>1, <1>c DEF CommittedOnce
    <3>2. CASE AdvanceHead(r) /\ log' = Append(log, Attempt(r))
      <4>1. Attempt(r) \in Op /\ Attempt(r).req = r /\ Attempt(r).base = base[r]
        BY <1>c, AttemptType DEF Attempt
      <4>2. pc[r] = "cas" /\ base[r] = Len(log)
        BY <3>2, <1>c DEF AdvanceHead, CoreInv, LoadInv, BaseInv
      <4>3. QED
        BY <3>2, <4>1, <4>2, <1>c, OnceStep
    <3>3. QED
      BY <3>1, <3>2, <1>1, <1>c, Footprint
  <2>4. QED
    BY <2>1, <2>2, <2>3
<1>2. ASSUME NEW m \in inFlight, LatePut(m)
      PROVE  CommittedOnce' /\ \A q \in Requests : RequestInv(q)'
  <2>1. \A q \in Requests : RequestInv(q)'
    BY <1>2, <1>c, LateStep
  <2>2. m.op \in Op /\ m.op.base = Len(log) /\ log' = Append(log, m.op)
    BY <1>2, <1>c, InFlightType DEF LatePut, CoreInv, LandsOnBase
  <2>3. CommittedOnce'
    BY <2>2, <1>c, OnceStep
  <2>4. QED
    BY <2>1, <2>3
<1>3. ASSUME \/ \E i \in DOMAIN log : Prune(i)
             \/ UNCHANGED vars
      PROVE  CommittedOnce' /\ \A q \in Requests : RequestInv(q)'
  <2>1. UNCHANGED <<log, inFlight, pc, stage, cur, base, attempts>>
    BY <1>3 DEF Prune, vars, bucketVars, journalVars, loadVars, callVars
  <2>2. \A q \in Requests : Untouched(q) /\ NothingNew(q)
    BY <2>1 DEF Untouched, NothingNew
  <2>3. QED
    BY <2>1, <2>2, <1>c, OtherStep DEF CommittedOnce
<1>4. CommittedOnce' /\ \A q \in Requests : RequestInv(q)'
  BY <1>1, <1>2, <1>3 DEF Next, StepOf
<1>5. QED
  BY <1>n, <1>4 DEF LandingInv

(* Initially no request has done anything. *)
LEMMA LandingInit == Init => LandingInv
<1> SUFFICES ASSUME Init PROVE LandingInv
  OBVIOUS
<1>1. CoreInv
  BY LimitAssumption
  DEF Init, CoreInv, TypeOK, Phases, Answers, NoBase, LoadInv, BaseInv, Loading,
      LandsOnBase, ChainUnbroken
<1>2. ASSUME NEW r \in Requests PROVE RequestInv(r)
  BY DEF Init, RequestInv, StageInv, JournalInv, FreshInv, LandedInv, NewestInv,
         Attempting, Searching, Loading
<1>3. CommittedOnce
  BY DEF Init, CommittedOnce
<1>4. QED
  BY <1>1, <1>2, <1>3 DEF LandingInv

(* A request takes effect at most once, over all its attempts, lost        *)
(* replies, late head PUTs, process stops and retries, whoever else        *)
(* commits, fails or prunes meanwhile: commit and commit_durable with the  *)
(* journal of remote_commit.rs.                                            *)
THEOREM OnceHolds == Spec => []CommittedOnce
<1>1. LandingInv => CommittedOnce
  BY DEF LandingInv
<1>2. QED
  BY <1>1, LandingInit, LandingStep, PTL DEF Spec
=============================================================================
