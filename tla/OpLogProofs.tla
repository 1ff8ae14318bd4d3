---------------------------- MODULE OpLogProofs ----------------------------
(***************************************************************************)
(* Machine-checked proofs about OpLog: its variables keep their types and  *)
(* the chain is never cut, for any number of requests and faults and any   *)
(* limits.                                                                 *)
(*                                                                         *)
(* The argument for the chain: a call pairs a head with the ETag it had    *)
(* (LoadInv), its attempt builds on that head (BaseInv), and so does every *)
(* head PUT it leaves behind (LandsOnBase).  What the bucket accepts then  *)
(* builds on the newest operation.                                         *)
(***************************************************************************)
EXTENDS OpLog, TLAPS

Loading(r) == pc[r] \in {"head", "get", "recheck"}

LoadInv ==
  \A r \in Requests :
    /\ cur[r] = etag[r] /\ cur[r] <= Len(log)
    /\ pc[r] \in {"get", "recheck"} => seen[r] \in 1..Len(log)
    /\ pc[r] = "recheck" => seen[r] <= content[r] /\ content[r] <= Len(log)

BaseInv ==
  \A r \in Requests :
    /\ base[r] <= Len(log)
    /\ pc[r] \in {"write", "cas"} => base[r] = cur[r]
    /\ Loading(r) /\ stage[r] = "rebase" => base[r] < Len(log)
    /\ pc[r] = "verify" => base[r] < cur[r]

LandsOnBase ==
  \A m \in inFlight : m.etag = m.op.base /\ m.op.base <= Len(log)

-----------------------------------------------------------------------------
(* Facts used throughout.                                                  *)

(* The attempt of a request is an operation, and its head PUT a head PUT   *)
(* (CommitReceipt and the operation built in next_operation).              *)
LEMMA AttemptType ==
  ASSUME TypeOK, NEW r \in Requests
  PROVE  /\ Attempt(r) \in Op
         /\ [op |-> Attempt(r), etag |-> etag[r]] \in HeadPut
  BY DEF TypeOK, Attempt, Op, HeadPut

(* The parts of a head PUT under way have the types of their record. *)
LEMMA InFlightType ==
  ASSUME TypeOK, NEW m \in inFlight
  PROVE  m.op \in Op /\ m.etag \in Nat /\ m.op.base \in Nat /\ m.op.req \in Requests
<1>1. m \in HeadPut
  BY DEF TypeOK
<1>2. QED
  BY <1>1 DEF HeadPut, Op

(* What an accepted head PUT does to the log. *)
LEMMA Appended ==
  ASSUME TypeOK, NEW o \in Op, log' = Append(log, o)
  PROVE  /\ Len(log') = Len(log) + 1 /\ Len(log) \in Nat
         /\ DOMAIN log = 1..Len(log) /\ DOMAIN log' = 1..(Len(log) + 1)
         /\ \A k \in DOMAIN log : log'[k] = log[k]
         /\ log'[Len(log) + 1] = o
  BY DEF TypeOK

(* load_head is followed by one of three phases. *)
LEMMA AfterLoadType ==
  ASSUME TypeOK, NEW r \in Requests
  PROVE  AfterLoad(r) \in {"prepare", "search", "verify"}
<1>1. stage \in [Requests -> {"start", "search", "rebase"}]
  BY DEF TypeOK
<1>2. QED
  BY <1>1 DEF AfterLoad

-----------------------------------------------------------------------------
(* Type correctness.                                                       *)

(* Every step of every action keeps the types. *)
LEMMA TypeStep == TypeOK /\ [Next]_vars => TypeOK'
<1> SUFFICES ASSUME TypeOK, [Next]_vars PROVE TypeOK'
  OBVIOUS
<1>log. log \in Seq(Op)
  BY DEF TypeOK
<1>stored. stored \subseteq Op
  BY DEF TypeOK
<1>pruned. pruned \subseteq Op
  BY DEF TypeOK
<1>inFlight. inFlight \subseteq HeadPut
  BY DEF TypeOK
<1>attempts. attempts \in [Requests -> Seq(Nat)]
  BY DEF TypeOK
<1>confirmed. confirmed \in [Requests -> Nat \cup {NoBase}]
  BY DEF TypeOK
<1>pc. pc \in [Requests -> Phases]
  BY DEF TypeOK
<1>stage. stage \in [Requests -> {"start", "search", "rebase"}]
  BY DEF TypeOK
<1>seen. seen \in [Requests -> Nat]
  BY DEF TypeOK
<1>content. content \in [Requests -> Nat]
  BY DEF TypeOK
<1>cur. cur \in [Requests -> Nat]
  BY DEF TypeOK
<1>etag. etag \in [Requests -> Nat]
  BY DEF TypeOK
<1>base. base \in [Requests -> Nat]
  BY DEF TypeOK
<1>tries. tries \in [Requests -> Nat]
  BY DEF TypeOK
<1>loads. loads \in [Requests -> Nat]
  BY DEF TypeOK
<1>answer. answer \in [Requests -> Answers]
  BY DEF TypeOK
<1>since. since \in [Requests -> Nat]
  BY DEF TypeOK
<1>refused. refused \subseteq Requests
  BY DEF TypeOK
<1>faults. faults \in 0..MaxFaults
  BY DEF TypeOK
<1>1. ASSUME NEW r \in Requests, Start(r) PROVE TypeOK'
  <2>1. pc' \in [Requests -> Phases]
    BY <1>1, <1>pc DEF Start, FirstStage, Phases
  <2>2. stage' \in [Requests -> {"start", "search", "rebase"}]
    BY <1>1, <1>stage DEF Start, FirstStage
  <2>3. tries' \in [Requests -> Nat]
    BY <1>1, <1>tries DEF Start, FirstStage
  <2>4. loads' \in [Requests -> Nat]
    BY <1>1, <1>loads DEF Start, FirstStage
  <2>5. UNCHANGED <<bucketVars, journalVars, ghostVars, seen, content, cur,
                    etag, base, answer, faults>>
    BY <1>1 DEF Start, bucketVars, journalVars, loadVars, callVars, ghostVars
  <2>6. QED
    BY <2>1, <2>2, <2>3, <2>4, <2>5
    DEF TypeOK, bucketVars, journalVars, ghostVars
<1>2. ASSUME NEW r \in Requests, Retry(r) PROVE TypeOK'
  <2>1. pc' \in [Requests -> Phases]
    BY <1>2, <1>pc DEF Retry, Phases
  <2>2. answer' \in [Requests -> Answers]
    BY <1>2, <1>answer DEF Retry, Answers
  <2>3. UNCHANGED <<bucketVars, journalVars, loadVars, ghostVars, base,
                    tries, faults>>
    BY <1>2 DEF Retry, bucketVars, journalVars, loadVars, callVars, ghostVars
  <2>4. QED
    BY <2>1, <2>2, <2>3 DEF TypeOK, bucketVars, journalVars, loadVars, ghostVars
<1>3. ASSUME NEW r \in Requests, HeadBefore(r) PROVE TypeOK'
  <2>1. cur' \in [Requests -> Nat]
    BY <1>3, <1>cur, <1>log DEF HeadBefore, AfterLoad, DecideOn
  <2>2. etag' \in [Requests -> Nat]
    BY <1>3, <1>etag, <1>log DEF HeadBefore, AfterLoad, DecideOn
  <2>3. pc' \in [Requests -> Phases]
    <3>1. \/ pc' = [pc EXCEPT ![r] = AfterLoad(r)]
          \/ pc' = [pc EXCEPT ![r] = "get"]
      BY <1>3 DEF HeadBefore
    <3>2. AfterLoad(r) \in Phases
      BY <1>stage DEF AfterLoad, Phases
    <3>3. "get" \in Phases
      BY DEF Phases
    <3>4. QED
      BY <3>1, <3>2, <3>3, <1>pc
  <2>4. since' \in [Requests -> Nat]
    BY <1>3, <1>since, <1>log DEF HeadBefore, AfterLoad, DecideOn
  <2>5. seen' \in [Requests -> Nat]
    BY <1>3, <1>seen, <1>log DEF HeadBefore, AfterLoad, DecideOn
  <2>6. UNCHANGED <<bucketVars, journalVars, stage, content, base, tries,
                    loads, answer, refused, faults>>
    BY <1>3
    DEF HeadBefore, bucketVars, journalVars, loadVars, callVars, ghostVars
  <2>7. QED
    BY <2>1, <2>2, <2>3, <2>4, <2>5, <2>6 DEF TypeOK, bucketVars, journalVars
<1>4. ASSUME NEW r \in Requests, GetHead(r) PROVE TypeOK'
  <2>1. content' \in [Requests -> Nat]
    BY <1>4, <1>content, <1>log DEF GetHead
  <2>2. pc' \in [Requests -> Phases]
    BY <1>4, <1>pc DEF GetHead, Phases
  <2>3. UNCHANGED <<bucketVars, journalVars, ghostVars, stage, seen, cur,
                    etag, base, tries, loads, answer, faults>>
    BY <1>4 DEF GetHead, bucketVars, journalVars, loadVars, callVars, ghostVars
  <2>4. QED
    BY <2>1, <2>2, <2>3 DEF TypeOK, bucketVars, journalVars, ghostVars
<1>5. ASSUME NEW r \in Requests, HeadStable(r) PROVE TypeOK'
  <2>1. cur' \in [Requests -> Nat]
    BY <1>5, <1>cur, <1>content, <1>log DEF HeadStable, AfterLoad, DecideOn
  <2>2. etag' \in [Requests -> Nat]
    BY <1>5, <1>etag, <1>log DEF HeadStable, AfterLoad, DecideOn
  <2>3. pc' \in [Requests -> Phases]
    <3>1. pc' = [pc EXCEPT ![r] = AfterLoad(r)]
      BY <1>5 DEF HeadStable
    <3>2. AfterLoad(r) \in Phases
      BY <1>stage DEF AfterLoad, Phases
    <3>3. QED
      BY <3>1, <3>2, <1>pc
  <2>4. loads' \in [Requests -> Nat]
    BY <1>5, <1>loads DEF HeadStable, AfterLoad, DecideOn
  <2>5. seen' \in [Requests -> Nat]
    BY <1>5, <1>seen, <1>log DEF HeadStable, AfterLoad, DecideOn
  <2>6. content' \in [Requests -> Nat]
    BY <1>5, <1>content, <1>log DEF HeadStable, AfterLoad, DecideOn
  <2>7. since' \in [Requests -> Nat]
    BY <1>5, <1>since, <1>content, <1>log DEF HeadStable, AfterLoad, DecideOn
  <2>8. UNCHANGED <<bucketVars, journalVars, stage, base, tries, answer,
                    refused, faults>>
    BY <1>5
    DEF HeadStable, bucketVars, journalVars, loadVars, callVars, ghostVars
  <2>9. QED
    BY <2>1, <2>2, <2>3, <2>4, <2>5, <2>6, <2>7, <2>8
    DEF TypeOK, bucketVars, journalVars
<1>6. ASSUME NEW r \in Requests, HeadMoved(r) PROVE TypeOK'
  <2>1. loads' \in [Requests -> Nat]
    BY <1>6, <1>loads DEF HeadMoved, Return
  <2>2. pc' \in [Requests -> Phases]
    BY <1>6, <1>pc DEF HeadMoved, Return, Phases
  <2>3. answer' \in [Requests -> Answers]
    BY <1>6, <1>answer DEF HeadMoved, Return, Answers
  <2>4. refused' \subseteq Requests
    BY <1>6, <1>refused DEF HeadMoved, Return
  <2>5. UNCHANGED <<bucketVars, journalVars, stage, seen, content, cur, etag,
                    base, tries, since, faults>>
    BY <1>6
    DEF HeadMoved, bucketVars, journalVars, loadVars, callVars, ghostVars
  <2>6. QED
    BY <2>1, <2>2, <2>3, <2>4, <2>5 DEF TypeOK, bucketVars, journalVars
<1>7. ASSUME NEW r \in Requests, SearchFound(r) PROVE TypeOK'
  <2>1. confirmed' \in [Requests -> Nat \cup {NoBase}]
    <3>1. PICK k \in 1..Len(log) : confirmed' = [confirmed EXCEPT ![r] = log[k].base]
      BY <1>7 DEF SearchFound
    <3>2. log[k] \in Op
      BY <1>log
    <3>3. log[k].base \in Nat
      BY <3>2 DEF Op
    <3>4. QED
      BY <3>1, <3>3, <1>confirmed
  <2>2. pc' \in [Requests -> Phases]
    BY <1>7, <1>pc DEF SearchFound, Return, Phases
  <2>3. answer' \in [Requests -> Answers]
    BY <1>7, <1>answer DEF SearchFound, Return, Answers
  <2>4. refused' \subseteq Requests
    BY <1>7, <1>refused DEF SearchFound, Return
  <2>5. UNCHANGED <<bucketVars, loadVars, attempts, base, tries, since, faults>>
    BY <1>7
    DEF SearchFound, bucketVars, journalVars, loadVars, callVars, ghostVars
  <2>6. QED
    BY <2>1, <2>2, <2>3, <2>4, <2>5 DEF TypeOK, bucketVars, loadVars
<1>8. ASSUME NEW r \in Requests, SearchAbsent(r) PROVE TypeOK'
  <2>1. pc' \in [Requests -> Phases]
    BY <1>8, <1>pc DEF SearchAbsent, Return, Phases
  <2>2. answer' \in [Requests -> Answers]
    BY <1>8, <1>answer DEF SearchAbsent, Return, Answers
  <2>3. refused' \subseteq Requests
    BY <1>8, <1>refused DEF SearchAbsent, Return
  <2>4. UNCHANGED <<bucketVars, journalVars, loadVars, base, tries, since,
                    faults>>
    BY <1>8
    DEF SearchAbsent, bucketVars, journalVars, loadVars, callVars, ghostVars
  <2>5. QED
    BY <2>1, <2>2, <2>3, <2>4 DEF TypeOK, bucketVars, journalVars, loadVars
<1>9. ASSUME NEW r \in Requests, SearchAmbiguous(r) PROVE TypeOK'
  <2>1. pc' \in [Requests -> Phases]
    BY <1>9, <1>pc DEF SearchAmbiguous, Return, Phases
  <2>2. answer' \in [Requests -> Answers]
    BY <1>9, <1>answer DEF SearchAmbiguous, Return, Answers
  <2>3. refused' \subseteq Requests
    BY <1>9, <1>refused DEF SearchAmbiguous, Return
  <2>4. UNCHANGED <<bucketVars, journalVars, loadVars, base, tries, since,
                    faults>>
    BY <1>9
    DEF SearchAmbiguous, bucketVars, journalVars, loadVars, callVars, ghostVars
  <2>5. QED
    BY <2>1, <2>2, <2>3, <2>4 DEF TypeOK, bucketVars, journalVars, loadVars
<1>10. ASSUME NEW r \in Requests, Prepare(r) PROVE TypeOK'
  <2>1. base' \in [Requests -> Nat]
    BY <1>10, <1>base, <1>cur DEF Prepare, NextBase, RecordAttempt
  <2>2. attempts' \in [Requests -> Seq(Nat)]
    BY <1>10, <1>attempts, <1>cur DEF Prepare, NextBase, RecordAttempt
  <2>3. pc' \in [Requests -> Phases]
    BY <1>10, <1>pc DEF Prepare, NextBase, RecordAttempt, Phases
  <2>4. UNCHANGED <<bucketVars, loadVars, ghostVars, confirmed, tries,
                    answer, faults>>
    BY <1>10 DEF Prepare, bucketVars, journalVars, loadVars, callVars, ghostVars
  <2>5. QED
    BY <2>1, <2>2, <2>3, <2>4 DEF TypeOK, bucketVars, loadVars, ghostVars
<1>11. ASSUME NEW r \in Requests, WriteOperation(r) PROVE TypeOK'
  <2>1. stored' \subseteq Op
    BY <1>11, <1>stored, AttemptType DEF WriteOperation
  <2>2. pc' \in [Requests -> Phases]
    BY <1>11, <1>pc DEF WriteOperation, Phases
  <2>3. UNCHANGED <<journalVars, loadVars, ghostVars, log, pruned, inFlight,
                    base, tries, answer, faults>>
    BY <1>11
    DEF WriteOperation, bucketVars, journalVars, loadVars, callVars, ghostVars
  <2>4. QED
    BY <2>1, <2>2, <2>3 DEF TypeOK, journalVars, loadVars, ghostVars
<1>12. ASSUME NEW r \in Requests, AdvanceHead(r) PROVE TypeOK'
  <2>1. log' \in Seq(Op)
    <3>1. log' = Append(log, Attempt(r))
      BY <1>12 DEF AdvanceHead
    <3>2. Attempt(r) \in Op
      BY AttemptType
    <3>3. QED
      BY <3>1, <3>2, <1>log
  <2>2. pc' \in [Requests -> Phases]
    BY <1>12, <1>pc DEF AdvanceHead, Return, Phases
  <2>3. answer' \in [Requests -> Answers]
    BY <1>12, <1>answer DEF AdvanceHead, Return, Answers
  <2>4. refused' \subseteq Requests
    BY <1>12, <1>refused DEF AdvanceHead, Return
  <2>5. UNCHANGED <<journalVars, loadVars, stored, pruned, inFlight, base,
                    tries, since, faults>>
    BY <1>12
    DEF AdvanceHead, bucketVars, journalVars, loadVars, callVars, ghostVars
  <2>6. QED
    BY <2>1, <2>2, <2>3, <2>4, <2>5 DEF TypeOK, journalVars, loadVars
<1>13. ASSUME NEW r \in Requests, HeadRejected(r) PROVE TypeOK'
  <2>1. pc' \in [Requests -> Phases]
    BY <1>13, <1>pc DEF HeadRejected, Phases
  <2>2. stage' \in [Requests -> {"start", "search", "rebase"}]
    BY <1>13, <1>stage DEF HeadRejected
  <2>3. loads' \in [Requests -> Nat]
    BY <1>13, <1>loads DEF HeadRejected
  <2>4. UNCHANGED <<bucketVars, journalVars, ghostVars, seen, content, cur,
                    etag, base, tries, answer, faults>>
    BY <1>13
    DEF HeadRejected, bucketVars, journalVars, loadVars, callVars, ghostVars
  <2>5. QED
    BY <2>1, <2>2, <2>3, <2>4 DEF TypeOK, bucketVars, journalVars, ghostVars
<1>14. ASSUME NEW r \in Requests, RecordCommitted(r) PROVE TypeOK'
  <2>1. confirmed' \in [Requests -> Nat \cup {NoBase}]
    BY <1>14, <1>confirmed, <1>base DEF RecordCommitted, Return
  <2>2. pc' \in [Requests -> Phases]
    BY <1>14, <1>pc DEF RecordCommitted, Return, Phases
  <2>3. answer' \in [Requests -> Answers]
    BY <1>14, <1>answer DEF RecordCommitted, Return, Answers
  <2>4. refused' \subseteq Requests
    BY <1>14, <1>refused DEF RecordCommitted, Return
  <2>5. UNCHANGED <<bucketVars, loadVars, attempts, base, tries, since, faults>>
    BY <1>14
    DEF RecordCommitted, bucketVars, journalVars, loadVars, callVars, ghostVars
  <2>6. QED
    BY <2>1, <2>2, <2>3, <2>4, <2>5 DEF TypeOK, bucketVars, loadVars
<1>15. ASSUME NEW r \in Requests, VerifyOwn(r) PROVE TypeOK'
  <2>1. confirmed' \in [Requests -> Nat \cup {NoBase}]
    BY <1>15, <1>confirmed, <1>base DEF VerifyOwn, Return
  <2>2. pc' \in [Requests -> Phases]
    BY <1>15, <1>pc DEF VerifyOwn, Return, Phases
  <2>3. answer' \in [Requests -> Answers]
    BY <1>15, <1>answer DEF VerifyOwn, Return, Answers
  <2>4. refused' \subseteq Requests
    BY <1>15, <1>refused DEF VerifyOwn, Return
  <2>5. UNCHANGED <<bucketVars, loadVars, attempts, base, tries, since, faults>>
    BY <1>15
    DEF VerifyOwn, bucketVars, journalVars, loadVars, callVars, ghostVars
  <2>6. QED
    BY <2>1, <2>2, <2>3, <2>4, <2>5 DEF TypeOK, bucketVars, loadVars
<1>16. ASSUME NEW r \in Requests, VerifyRebase(r) PROVE TypeOK'
  <2>1. stored' \subseteq Op
    BY <1>16, <1>stored, AttemptType DEF VerifyRebase, Return
  <2>2. tries' \in [Requests -> Nat]
    BY <1>16, <1>tries DEF VerifyRebase, Return
  <2>3. pc' \in [Requests -> Phases]
    BY <1>16, <1>pc DEF VerifyRebase, Return, Phases
  <2>4. answer' \in [Requests -> Answers]
    BY <1>16, <1>answer DEF VerifyRebase, Return, Answers
  <2>5. refused' \subseteq Requests
    BY <1>16, <1>refused DEF VerifyRebase, Return
  <2>6. UNCHANGED <<journalVars, loadVars, log, pruned, inFlight, base,
                    since, faults>>
    BY <1>16
    DEF VerifyRebase, bucketVars, journalVars, loadVars, callVars, ghostVars
  <2>7. QED
    BY <2>1, <2>2, <2>3, <2>4, <2>5, <2>6 DEF TypeOK, journalVars, loadVars
<1>17. ASSUME NEW r \in Requests, VerifyUnverifiable(r) PROVE TypeOK'
  <2>1. pc' \in [Requests -> Phases]
    BY <1>17, <1>pc DEF VerifyUnverifiable, Return, Phases
  <2>2. answer' \in [Requests -> Answers]
    BY <1>17, <1>answer DEF VerifyUnverifiable, Return, Answers
  <2>3. refused' \subseteq Requests
    BY <1>17, <1>refused DEF VerifyUnverifiable, Return
  <2>4. UNCHANGED <<bucketVars, journalVars, loadVars, base, tries, since,
                    faults>>
    BY <1>17
    DEF VerifyUnverifiable, bucketVars, journalVars, loadVars, callVars,
        ghostVars
  <2>5. QED
    BY <2>1, <2>2, <2>3, <2>4 DEF TypeOK, bucketVars, journalVars, loadVars
<1>18. ASSUME NEW r \in Requests, Fail(r) PROVE TypeOK'
  <2>1. stored' \subseteq Op
    <3>1. stored' = stored \/ stored' = stored \cup {Attempt(r)}
      BY <1>18 DEF Fail
    <3>2. Attempt(r) \in Op
      BY AttemptType
    <3>3. QED
      BY <3>1, <3>2, <1>stored
  <2>2. inFlight' \subseteq HeadPut
    BY <1>18, <1>inFlight, AttemptType DEF Fail, Return
  <2>3. faults' \in 0..MaxFaults
    BY <1>18, <1>faults, LimitAssumption DEF Fail, Return
  <2>4. pc' \in [Requests -> Phases]
    BY <1>18, <1>pc DEF Fail, Return, Phases
  <2>5. answer' \in [Requests -> Answers]
    BY <1>18, <1>answer DEF Fail, Return, Answers
  <2>6. refused' \subseteq Requests
    BY <1>18, <1>refused DEF Fail, Return
  <2>7. UNCHANGED <<journalVars, loadVars, log, pruned, base, tries, since>>
    BY <1>18 DEF Fail, bucketVars, journalVars, loadVars, callVars, ghostVars
  <2>8. QED
    BY <2>1, <2>2, <2>3, <2>4, <2>5, <2>6, <2>7
    DEF TypeOK, journalVars, loadVars
<1>19. ASSUME NEW r \in Requests, ResendHead(r) PROVE TypeOK'
  <2>1. inFlight' \subseteq HeadPut
    BY <1>19, <1>inFlight, AttemptType DEF ResendHead
  <2>2. faults' \in 0..MaxFaults
    BY <1>19, <1>faults, LimitAssumption DEF ResendHead
  <2>3. UNCHANGED <<journalVars, loadVars, callVars, ghostVars, log, stored,
                    pruned>>
    BY <1>19
    DEF ResendHead, bucketVars, journalVars, loadVars, callVars, ghostVars
  <2>4. QED
    BY <2>1, <2>2, <2>3 DEF TypeOK, journalVars, loadVars, callVars, ghostVars
<1>20. ASSUME NEW m \in inFlight, LatePut(m) PROVE TypeOK'
  <2>1. log' \in Seq(Op)
    BY <1>20, <1>log, <1>inFlight DEF LatePut, HeadPut
  <2>2. inFlight' \subseteq HeadPut
    BY <1>20, <1>inFlight DEF LatePut, HeadPut
  <2>3. UNCHANGED <<journalVars, loadVars, callVars, ghostVars, stored,
                    pruned, faults>>
    BY <1>20 DEF LatePut, bucketVars, journalVars, loadVars, callVars, ghostVars
  <2>4. QED
    BY <2>1, <2>2, <2>3 DEF TypeOK, journalVars, loadVars, callVars, ghostVars
<1>21. ASSUME NEW i \in DOMAIN log, Prune(i) PROVE TypeOK'
  <2>1. stored' \subseteq Op
    BY <1>21, <1>stored, <1>log DEF Prune
  <2>2. pruned' \subseteq Op
    BY <1>21, <1>pruned, <1>log DEF Prune
  <2>3. UNCHANGED <<journalVars, loadVars, callVars, ghostVars, log, inFlight,
                    faults>>
    BY <1>21 DEF Prune, bucketVars, journalVars, loadVars, callVars, ghostVars
  <2>4. QED
    BY <2>1, <2>2, <2>3 DEF TypeOK, journalVars, loadVars, callVars, ghostVars
<1>22. CASE UNCHANGED vars
  BY <1>22
  DEF vars, bucketVars, journalVars, loadVars, callVars, ghostVars, TypeOK
<1>23. QED
  BY <1>1, <1>2, <1>3, <1>4, <1>5, <1>6, <1>7, <1>8, <1>9, <1>10, <1>11, <1>12,
     <1>13, <1>14, <1>15, <1>16, <1>17, <1>18, <1>19, <1>20, <1>21, <1>22
  DEF Next, Progress

(* Type correctness, for any number of requests and faults and any limits: *)
(* in particular every base_head is a head value, a missing head is the    *)
(* base 0 of next_operation and never the missing receipt of a journal.    *)
THEOREM TypeCorrect == Spec => []TypeOK
<1>1. Init => TypeOK
  BY LimitAssumption DEF Init, TypeOK, Phases, Answers, NoBase
<1>2. TypeOK /\ [Next]_vars => TypeOK'
  BY TypeStep
<1>3. QED
  BY <1>1, <1>2, PTL DEF Spec

-----------------------------------------------------------------------------
(* The chain.                                                              *)

(* The head that a call holds is one the bucket had, with its own ETag;    *)
(* the attempt under way and every head PUT that left it build on the head *)
(* they are conditional on.  That is inductive.                            *)
CoreInv == TypeOK /\ LoadInv /\ BaseInv /\ LandsOnBase /\ ChainUnbroken

(* Landing an operation disturbs nothing that other calls hold. *)
LEMMA LoadOverLanding ==
  ASSUME TypeOK, LoadInv, NEW o \in Op, log' = Append(log, o),
         UNCHANGED <<seen, content, cur, etag>>,
         \A q \in Requests : pc'[q] = pc[q] \/ pc'[q] \in {"record", "done"}
  PROVE  LoadInv'
<1>1. Len(log') = Len(log) + 1 /\ Len(log) \in Nat
  BY Appended
<1>2. ASSUME NEW q \in Requests
      PROVE  cur[q] \in Nat /\ seen[q] \in Nat /\ content[q] \in Nat
  BY DEF TypeOK
<1>3. QED
  BY <1>1, <1>2 DEF LoadInv

(* HeadBefore, whose reply decides whether the head is read at all. *)
LEMMA LoadOverHeadBefore ==
  ASSUME TypeOK, LoadInv, NEW r \in Requests, HeadBefore(r)
  PROVE  LoadInv'
<1>1. CASE log = <<>>
  <2>1. /\ cur' = [cur EXCEPT ![r] = 0] /\ etag' = [etag EXCEPT ![r] = 0]
        /\ pc' = [pc EXCEPT ![r] = AfterLoad(r)]
        /\ UNCHANGED <<seen, content, log>>
    BY <1>1 DEF HeadBefore, bucketVars
  <2>2. Len(log) \in Nat
    BY DEF TypeOK
  <2>3. ASSUME NEW q \in Requests
        PROVE  /\ cur'[q] = etag'[q] /\ cur'[q] <= Len(log)
               /\ pc'[q] = pc[q] \/ pc'[q] \in {"prepare", "search", "verify"}
    <3>1. /\ cur \in [Requests -> Nat] /\ etag \in [Requests -> Nat]
          /\ pc \in [Requests -> Phases]
      BY DEF TypeOK
    <3>2. cur'[q] = etag'[q] /\ cur'[q] <= Len(log)
      BY <2>1, <2>2, <3>1 DEF LoadInv
    <3>3. pc'[q] = pc[q] \/ pc'[q] \in {"prepare", "search", "verify"}
      BY <2>1, <3>1, AfterLoadType
    <3>4. QED
      BY <3>2, <3>3
  <2>4. Len(log') = Len(log) /\ UNCHANGED <<seen, content>>
    BY <2>1
  <2>5. QED
    BY <2>3, <2>4 DEF LoadInv
<1>2. CASE log # <<>>
  <2>1. /\ seen' = [seen EXCEPT ![r] = Len(log)] /\ pc' = [pc EXCEPT ![r] = "get"]
        /\ UNCHANGED <<cur, etag, content, log>>
    BY <1>2 DEF HeadBefore, bucketVars
  <2>2. Len(log) \in 1..Len(log)
    BY <1>2 DEF TypeOK
  <2>3. QED
    BY <2>1, <2>2 DEF LoadInv, TypeOK
<1>3. QED
  BY <1>1, <1>2

(* An accepted head PUT, of a waiting client or a late one, whose          *)
(* operation builds on the newest one continues the chain.                 *)
LEMMA ChainOverLanding ==
  ASSUME TypeOK, ChainUnbroken, NEW o \in Op, o.base = Len(log), log' = Append(log, o)
  PROVE  ChainUnbroken'
  BY Appended DEF ChainUnbroken

(* Every step of every action keeps the core invariant.  The chain itself  *)
(* changes in AdvanceHead and LatePut only.                                *)
LEMMA CoreStep == CoreInv /\ [Next]_vars => CoreInv'
<1> SUFFICES ASSUME CoreInv, [Next]_vars PROVE CoreInv'
  OBVIOUS
<1>t. TypeOK
  BY DEF CoreInv
<1>l. LoadInv
  BY DEF CoreInv
<1>b. BaseInv
  BY DEF CoreInv
<1>a. LandsOnBase
  BY DEF CoreInv
<1>c. ChainUnbroken
  BY DEF CoreInv
<1>n. TypeOK'
  BY <1>t, TypeStep
<1>1. ASSUME NEW r \in Requests, Start(r)
      PROVE  LoadInv' /\ BaseInv' /\ LandsOnBase' /\ ChainUnbroken'
  <2>1. LoadInv'
    BY <1>1, <1>t, <1>l
    DEF LoadInv, TypeOK, Start, FirstStage, bucketVars, loadVars, callVars
  <2>2. BaseInv'
    BY <1>1, <1>t, <1>l, <1>b
    DEF LoadInv, BaseInv, Loading, TypeOK, Start, FirstStage, bucketVars,
        loadVars, callVars
  <2>3. LandsOnBase'
    BY <1>1, <1>a
    DEF LandsOnBase, Start, FirstStage, bucketVars, loadVars, callVars
  <2>4. ChainUnbroken'
    BY <1>1, <1>c
    DEF ChainUnbroken, Start, FirstStage, bucketVars, loadVars, callVars
  <2>5. QED
    BY <2>1, <2>2, <2>3, <2>4
<1>2. ASSUME NEW r \in Requests, Retry(r)
      PROVE  LoadInv' /\ BaseInv' /\ LandsOnBase' /\ ChainUnbroken'
  <2>1. LoadInv'
    BY <1>2, <1>t, <1>l
    DEF LoadInv, TypeOK, Retry, bucketVars, loadVars, callVars
  <2>2. BaseInv'
    BY <1>2, <1>t, <1>l, <1>b
    DEF LoadInv, BaseInv, Loading, TypeOK, Retry, bucketVars, loadVars, callVars
  <2>3. LandsOnBase'
    BY <1>2, <1>a DEF LandsOnBase, Retry, bucketVars, loadVars, callVars
  <2>4. ChainUnbroken'
    BY <1>2, <1>c DEF ChainUnbroken, Retry, bucketVars, loadVars, callVars
  <2>5. QED
    BY <2>1, <2>2, <2>3, <2>4
<1>3. ASSUME NEW r \in Requests, HeadBefore(r)
      PROVE  LoadInv' /\ BaseInv' /\ LandsOnBase' /\ ChainUnbroken'
  <2>1. LoadInv'
    BY <1>3, <1>t, <1>l, LoadOverHeadBefore
  <2>2. BaseInv'
    BY <1>3, <1>t, <1>l, <1>b
    DEF LoadInv, BaseInv, Loading, TypeOK, HeadBefore, AfterLoad, DecideOn,
        bucketVars, loadVars, callVars
  <2>3. LandsOnBase'
    BY <1>3, <1>a
    DEF LandsOnBase, HeadBefore, AfterLoad, DecideOn, bucketVars, loadVars,
        callVars
  <2>4. ChainUnbroken'
    BY <1>3, <1>c
    DEF ChainUnbroken, HeadBefore, AfterLoad, DecideOn, bucketVars, loadVars,
        callVars
  <2>5. QED
    BY <2>1, <2>2, <2>3, <2>4
<1>4. ASSUME NEW r \in Requests, GetHead(r)
      PROVE  LoadInv' /\ BaseInv' /\ LandsOnBase' /\ ChainUnbroken'
  <2>1. LoadInv'
    BY <1>4, <1>t, <1>l
    DEF LoadInv, TypeOK, GetHead, bucketVars, loadVars, callVars
  <2>2. BaseInv'
    BY <1>4, <1>t, <1>l, <1>b
    DEF LoadInv, BaseInv, Loading, TypeOK, GetHead, bucketVars, loadVars,
        callVars
  <2>3. LandsOnBase'
    BY <1>4, <1>a DEF LandsOnBase, GetHead, bucketVars, loadVars, callVars
  <2>4. ChainUnbroken'
    BY <1>4, <1>c DEF ChainUnbroken, GetHead, bucketVars, loadVars, callVars
  <2>5. QED
    BY <2>1, <2>2, <2>3, <2>4
<1>5. ASSUME NEW r \in Requests, HeadStable(r)
      PROVE  LoadInv' /\ BaseInv' /\ LandsOnBase' /\ ChainUnbroken'
  <2>1. LoadInv'
    BY <1>5, <1>t, <1>l
    DEF LoadInv, TypeOK, HeadStable, AfterLoad, DecideOn, Unmoved, bucketVars,
        loadVars, callVars
  <2>2. BaseInv'
    BY <1>5, <1>t, <1>l, <1>b
    DEF LoadInv, BaseInv, Loading, TypeOK, HeadStable, AfterLoad, DecideOn,
        Unmoved, bucketVars, loadVars, callVars
  <2>3. LandsOnBase'
    BY <1>5, <1>a
    DEF LandsOnBase, HeadStable, AfterLoad, DecideOn, Unmoved, bucketVars,
        loadVars, callVars
  <2>4. ChainUnbroken'
    BY <1>5, <1>c
    DEF ChainUnbroken, HeadStable, AfterLoad, DecideOn, Unmoved, bucketVars,
        loadVars, callVars
  <2>5. QED
    BY <2>1, <2>2, <2>3, <2>4
<1>6. ASSUME NEW r \in Requests, HeadMoved(r)
      PROVE  LoadInv' /\ BaseInv' /\ LandsOnBase' /\ ChainUnbroken'
  <2>1. LoadInv'
    BY <1>6, <1>t, <1>l
    DEF LoadInv, TypeOK, HeadMoved, Return, Unmoved, bucketVars, loadVars,
        callVars
  <2>2. BaseInv'
    BY <1>6, <1>t, <1>l, <1>b
    DEF LoadInv, BaseInv, Loading, TypeOK, HeadMoved, Return, Unmoved,
        bucketVars, loadVars, callVars
  <2>3. LandsOnBase'
    BY <1>6, <1>a
    DEF LandsOnBase, HeadMoved, Return, Unmoved, bucketVars, loadVars, callVars
  <2>4. ChainUnbroken'
    BY <1>6, <1>c
    DEF ChainUnbroken, HeadMoved, Return, Unmoved, bucketVars, loadVars,
        callVars
  <2>5. QED
    BY <2>1, <2>2, <2>3, <2>4
<1>7. ASSUME NEW r \in Requests, SearchFound(r)
      PROVE  LoadInv' /\ BaseInv' /\ LandsOnBase' /\ ChainUnbroken'
  <2>1. LoadInv'
    BY <1>7, <1>t, <1>l
    DEF LoadInv, TypeOK, SearchFound, Return, bucketVars, loadVars, callVars
  <2>2. BaseInv'
    BY <1>7, <1>t, <1>l, <1>b
    DEF LoadInv, BaseInv, Loading, TypeOK, SearchFound, Return, bucketVars,
        loadVars, callVars
  <2>3. LandsOnBase'
    BY <1>7, <1>a
    DEF LandsOnBase, SearchFound, Return, bucketVars, loadVars, callVars
  <2>4. ChainUnbroken'
    BY <1>7, <1>c
    DEF ChainUnbroken, SearchFound, Return, bucketVars, loadVars, callVars
  <2>5. QED
    BY <2>1, <2>2, <2>3, <2>4
<1>8. ASSUME NEW r \in Requests, SearchAbsent(r)
      PROVE  LoadInv' /\ BaseInv' /\ LandsOnBase' /\ ChainUnbroken'
  <2>1. LoadInv'
    BY <1>8, <1>t, <1>l
    DEF LoadInv, TypeOK, SearchAbsent, Return, bucketVars, loadVars, callVars
  <2>2. BaseInv'
    BY <1>8, <1>t, <1>l, <1>b
    DEF LoadInv, BaseInv, Loading, TypeOK, SearchAbsent, Return, bucketVars,
        loadVars, callVars
  <2>3. LandsOnBase'
    BY <1>8, <1>a
    DEF LandsOnBase, SearchAbsent, Return, bucketVars, loadVars, callVars
  <2>4. ChainUnbroken'
    BY <1>8, <1>c
    DEF ChainUnbroken, SearchAbsent, Return, bucketVars, loadVars, callVars
  <2>5. QED
    BY <2>1, <2>2, <2>3, <2>4
<1>9. ASSUME NEW r \in Requests, SearchAmbiguous(r)
      PROVE  LoadInv' /\ BaseInv' /\ LandsOnBase' /\ ChainUnbroken'
  <2>1. LoadInv'
    BY <1>9, <1>t, <1>l
    DEF LoadInv, TypeOK, SearchAmbiguous, Return, bucketVars, loadVars, callVars
  <2>2. BaseInv'
    BY <1>9, <1>t, <1>l, <1>b
    DEF LoadInv, BaseInv, Loading, TypeOK, SearchAmbiguous, Return, bucketVars,
        loadVars, callVars
  <2>3. LandsOnBase'
    BY <1>9, <1>a
    DEF LandsOnBase, SearchAmbiguous, Return, bucketVars, loadVars, callVars
  <2>4. ChainUnbroken'
    BY <1>9, <1>c
    DEF ChainUnbroken, SearchAmbiguous, Return, bucketVars, loadVars, callVars
  <2>5. QED
    BY <2>1, <2>2, <2>3, <2>4
<1>10. ASSUME NEW r \in Requests, Prepare(r)
      PROVE  LoadInv' /\ BaseInv' /\ LandsOnBase' /\ ChainUnbroken'
  <2>1. LoadInv'
    BY <1>10, <1>t, <1>l
    DEF LoadInv, TypeOK, Prepare, NextBase, bucketVars, loadVars, callVars
  <2>2. BaseInv'
    BY <1>10, <1>t, <1>l, <1>b
    DEF LoadInv, BaseInv, Loading, TypeOK, Prepare, NextBase, bucketVars,
        loadVars, callVars
  <2>3. LandsOnBase'
    BY <1>10, <1>a
    DEF LandsOnBase, Prepare, NextBase, bucketVars, loadVars, callVars
  <2>4. ChainUnbroken'
    BY <1>10, <1>c
    DEF ChainUnbroken, Prepare, NextBase, bucketVars, loadVars, callVars
  <2>5. QED
    BY <2>1, <2>2, <2>3, <2>4
<1>11. ASSUME NEW r \in Requests, WriteOperation(r)
      PROVE  LoadInv' /\ BaseInv' /\ LandsOnBase' /\ ChainUnbroken'
  <2>1. LoadInv'
    BY <1>11, <1>t, <1>l
    DEF LoadInv, TypeOK, WriteOperation, bucketVars, loadVars, callVars
  <2>2. BaseInv'
    BY <1>11, <1>t, <1>l, <1>b
    DEF LoadInv, BaseInv, Loading, TypeOK, WriteOperation, bucketVars,
        loadVars, callVars
  <2>3. LandsOnBase'
    BY <1>11, <1>a
    DEF LandsOnBase, WriteOperation, bucketVars, loadVars, callVars
  <2>4. ChainUnbroken'
    BY <1>11, <1>c
    DEF ChainUnbroken, WriteOperation, bucketVars, loadVars, callVars
  <2>5. QED
    BY <2>1, <2>2, <2>3, <2>4
<1>12. ASSUME NEW r \in Requests, AdvanceHead(r)
      PROVE  LoadInv' /\ BaseInv' /\ LandsOnBase' /\ ChainUnbroken'
  <2>1. log' = Append(log, Attempt(r)) /\ Attempt(r) \in Op /\ inFlight' = inFlight
    BY <1>12, <1>t, AttemptType DEF AdvanceHead
  <2>2. LandsOnBase'
    BY <2>1, <1>t, <1>a, Appended, InFlightType DEF LandsOnBase
  <2>3. base[r] = Len(log)
    BY <1>12, <1>l, <1>b DEF LoadInv, BaseInv, AdvanceHead
  <2>4. ChainUnbroken'
    BY <2>1, <2>3, <1>t, <1>c, ChainOverLanding DEF Attempt
  <2>5. LoadInv'
    BY <1>12, <2>1, <1>t, <1>l, LoadOverLanding
    DEF AdvanceHead, Return, loadVars, TypeOK
  <2>6. BaseInv'
    <3>1. \A q \in Requests : pc'[q] = pc[q] \/ pc'[q] \in {"record", "done"}
      BY <1>12, <1>t DEF AdvanceHead, Return, TypeOK
    <3>2. UNCHANGED <<base, stage, cur>>
      BY <1>12 DEF AdvanceHead, loadVars
    <3>3. Len(log) \in Nat /\ Len(log') = Len(log) + 1 /\ base \in [Requests -> Nat]
      BY <2>1, <1>t, Appended DEF TypeOK
    <3>4. QED
      BY <3>1, <3>2, <3>3, <1>b DEF BaseInv, Loading
  <2>7. QED
    BY <2>2, <2>4, <2>5, <2>6
<1>13. ASSUME NEW r \in Requests, HeadRejected(r)
      PROVE  LoadInv' /\ BaseInv' /\ LandsOnBase' /\ ChainUnbroken'
  <2>1. LoadInv'
    BY <1>13, <1>t, <1>l
    DEF LoadInv, TypeOK, HeadRejected, bucketVars, loadVars, callVars
  <2>2. BaseInv'
    BY <1>13, <1>t, <1>l, <1>b
    DEF LoadInv, BaseInv, Loading, TypeOK, HeadRejected, bucketVars, loadVars,
        callVars
  <2>3. LandsOnBase'
    BY <1>13, <1>a DEF LandsOnBase, HeadRejected, bucketVars, loadVars, callVars
  <2>4. ChainUnbroken'
    BY <1>13, <1>c
    DEF ChainUnbroken, HeadRejected, bucketVars, loadVars, callVars
  <2>5. QED
    BY <2>1, <2>2, <2>3, <2>4
<1>14. ASSUME NEW r \in Requests, RecordCommitted(r)
      PROVE  LoadInv' /\ BaseInv' /\ LandsOnBase' /\ ChainUnbroken'
  <2>1. LoadInv'
    BY <1>14, <1>t, <1>l
    DEF LoadInv, TypeOK, RecordCommitted, Return, bucketVars, loadVars, callVars
  <2>2. BaseInv'
    BY <1>14, <1>t, <1>l, <1>b
    DEF LoadInv, BaseInv, Loading, TypeOK, RecordCommitted, Return, bucketVars,
        loadVars, callVars
  <2>3. LandsOnBase'
    BY <1>14, <1>a
    DEF LandsOnBase, RecordCommitted, Return, bucketVars, loadVars, callVars
  <2>4. ChainUnbroken'
    BY <1>14, <1>c
    DEF ChainUnbroken, RecordCommitted, Return, bucketVars, loadVars, callVars
  <2>5. QED
    BY <2>1, <2>2, <2>3, <2>4
<1>15. ASSUME NEW r \in Requests, VerifyOwn(r)
      PROVE  LoadInv' /\ BaseInv' /\ LandsOnBase' /\ ChainUnbroken'
  <2>1. LoadInv'
    BY <1>15, <1>t, <1>l
    DEF LoadInv, TypeOK, VerifyOwn, Return, bucketVars, loadVars, callVars
  <2>2. BaseInv'
    BY <1>15, <1>t, <1>l, <1>b
    DEF LoadInv, BaseInv, Loading, TypeOK, VerifyOwn, Return, bucketVars,
        loadVars, callVars
  <2>3. LandsOnBase'
    BY <1>15, <1>a
    DEF LandsOnBase, VerifyOwn, Return, bucketVars, loadVars, callVars
  <2>4. ChainUnbroken'
    BY <1>15, <1>c
    DEF ChainUnbroken, VerifyOwn, Return, bucketVars, loadVars, callVars
  <2>5. QED
    BY <2>1, <2>2, <2>3, <2>4
<1>16. ASSUME NEW r \in Requests, VerifyRebase(r)
      PROVE  LoadInv' /\ BaseInv' /\ LandsOnBase' /\ ChainUnbroken'
  <2>1. LoadInv'
    BY <1>16, <1>t, <1>l
    DEF LoadInv, TypeOK, VerifyRebase, Return, bucketVars, loadVars, callVars
  <2>2. BaseInv'
    BY <1>16, <1>t, <1>l, <1>b
    DEF LoadInv, BaseInv, Loading, TypeOK, VerifyRebase, Return, bucketVars,
        loadVars, callVars
  <2>3. LandsOnBase'
    BY <1>16, <1>a
    DEF LandsOnBase, VerifyRebase, Return, bucketVars, loadVars, callVars
  <2>4. ChainUnbroken'
    BY <1>16, <1>c
    DEF ChainUnbroken, VerifyRebase, Return, bucketVars, loadVars, callVars
  <2>5. QED
    BY <2>1, <2>2, <2>3, <2>4
<1>17. ASSUME NEW r \in Requests, VerifyUnverifiable(r)
      PROVE  LoadInv' /\ BaseInv' /\ LandsOnBase' /\ ChainUnbroken'
  <2>1. LoadInv'
    BY <1>17, <1>t, <1>l
    DEF LoadInv, TypeOK, VerifyUnverifiable, Return, bucketVars, loadVars,
        callVars
  <2>2. BaseInv'
    BY <1>17, <1>t, <1>l, <1>b
    DEF LoadInv, BaseInv, Loading, TypeOK, VerifyUnverifiable, Return,
        bucketVars, loadVars, callVars
  <2>3. LandsOnBase'
    BY <1>17, <1>a
    DEF LandsOnBase, VerifyUnverifiable, Return, bucketVars, loadVars, callVars
  <2>4. ChainUnbroken'
    BY <1>17, <1>c
    DEF ChainUnbroken, VerifyUnverifiable, Return, bucketVars, loadVars,
        callVars
  <2>5. QED
    BY <2>1, <2>2, <2>3, <2>4
<1>18. ASSUME NEW r \in Requests, Fail(r)
      PROVE  LoadInv' /\ BaseInv' /\ LandsOnBase' /\ ChainUnbroken'
  <2>1. LoadInv'
    BY <1>18, <1>t, <1>l
    DEF LoadInv, TypeOK, Fail, Return, bucketVars, loadVars, callVars
  <2>2. BaseInv'
    BY <1>18, <1>t, <1>l, <1>b
    DEF LoadInv, BaseInv, Loading, TypeOK, Fail, Return, bucketVars, loadVars,
        callVars
  <2>3. LandsOnBase'
    BY <1>18, <1>t, <1>l, <1>b, <1>a
    DEF LandsOnBase, LoadInv, BaseInv, TypeOK, Fail, Return, Attempt,
        bucketVars, loadVars, callVars
  <2>4. ChainUnbroken'
    BY <1>18, <1>c
    DEF ChainUnbroken, Fail, Return, bucketVars, loadVars, callVars
  <2>5. QED
    BY <2>1, <2>2, <2>3, <2>4
<1>19. ASSUME NEW r \in Requests, ResendHead(r)
      PROVE  LoadInv' /\ BaseInv' /\ LandsOnBase' /\ ChainUnbroken'
  <2>1. LoadInv'
    BY <1>19, <1>t, <1>l
    DEF LoadInv, TypeOK, ResendHead, bucketVars, loadVars, callVars
  <2>2. BaseInv'
    BY <1>19, <1>t, <1>l, <1>b
    DEF LoadInv, BaseInv, Loading, TypeOK, ResendHead, bucketVars, loadVars,
        callVars
  <2>3. LandsOnBase'
    BY <1>19, <1>t, <1>l, <1>b, <1>a
    DEF LandsOnBase, LoadInv, BaseInv, TypeOK, ResendHead, Attempt, bucketVars,
        loadVars, callVars
  <2>4. ChainUnbroken'
    BY <1>19, <1>c DEF ChainUnbroken, ResendHead, bucketVars, loadVars, callVars
  <2>5. QED
    BY <2>1, <2>2, <2>3, <2>4
<1>20. ASSUME NEW m \in inFlight, LatePut(m)
      PROVE  LoadInv' /\ BaseInv' /\ LandsOnBase' /\ ChainUnbroken'
  <2>1. log' = Append(log, m.op) /\ m.op \in Op /\ inFlight' \subseteq inFlight
    BY <1>20, <1>t, InFlightType DEF LatePut
  <2>2. LandsOnBase'
    BY <2>1, <1>t, <1>a, Appended, InFlightType DEF LandsOnBase
  <2>3. m.op.base = Len(log)
    BY <1>20, <1>a DEF LandsOnBase, LatePut
  <2>4. ChainUnbroken'
    BY <2>1, <2>3, <1>t, <1>c, ChainOverLanding
  <2>5. LoadInv'
    BY <1>20, <2>1, <1>t, <1>l, LoadOverLanding DEF LatePut, loadVars, callVars
  <2>6. BaseInv'
    BY <1>20, <2>1, <1>t, <1>b, Appended
    DEF BaseInv, Loading, LatePut, loadVars, callVars, TypeOK
  <2>7. QED
    BY <2>2, <2>4, <2>5, <2>6
<1>21. ASSUME NEW i \in DOMAIN log, Prune(i)
      PROVE  LoadInv' /\ BaseInv' /\ LandsOnBase' /\ ChainUnbroken'
  <2>1. UNCHANGED <<log, inFlight, pc, stage, seen, content, cur, etag, base>>
    BY <1>21 DEF Prune, loadVars, callVars
  <2>2. LoadInv' /\ BaseInv'
    BY <2>1, <1>l, <1>b DEF LoadInv, BaseInv, Loading
  <2>3. LandsOnBase' /\ ChainUnbroken'
    BY <2>1, <1>a, <1>c DEF LandsOnBase, ChainUnbroken
  <2>4. QED
    BY <2>2, <2>3
<1>22. CASE UNCHANGED vars
  <2>1. UNCHANGED <<log, inFlight, pc, stage, seen, content, cur, etag, base>>
    BY <1>22 DEF vars, bucketVars, loadVars, callVars
  <2>2. LoadInv' /\ BaseInv'
    BY <2>1, <1>l, <1>b DEF LoadInv, BaseInv, Loading
  <2>3. LandsOnBase' /\ ChainUnbroken'
    BY <2>1, <1>a, <1>c DEF LandsOnBase, ChainUnbroken
  <2>4. QED
    BY <1>n, <2>2, <2>3 DEF CoreInv
<1>23. QED
  BY <1>n, <1>1, <1>2, <1>3, <1>4, <1>5, <1>6, <1>7, <1>8, <1>9, <1>10, <1>11,
     <1>12, <1>13, <1>14, <1>15, <1>16, <1>17, <1>18, <1>19, <1>20, <1>21, <1>22
  DEF CoreInv, Next, Progress

(* The walk from the head visits every operation ever committed, newest    *)
(* first, whatever requests, faults, late PUTs and prunings there are:     *)
(* load_head pairs a head with its own ETag, and next_operation builds on  *)
(* the head whose ETag the head PUT is conditional on.                     *)
THEOREM ChainHolds == Spec => []ChainUnbroken
<1>1. Init => CoreInv
  BY LimitAssumption
  DEF Init, CoreInv, TypeOK, Phases, Answers, NoBase, LoadInv, BaseInv, Loading,
      LandsOnBase, ChainUnbroken
<1>2. CoreInv /\ [Next]_vars => CoreInv'
  BY CoreStep
<1>3. CoreInv => ChainUnbroken
  BY DEF CoreInv
<1>4. QED
  BY <1>1, <1>2, <1>3, PTL DEF Spec
=============================================================================
