----------------------------- MODULE CommitLog -----------------------------
(***************************************************************************)
(* What the operation log promises its callers, without a bucket: a single *)
(* sequence of committed requests that only grows.                         *)
(*                                                                         *)
(* A request is decided on the sequence as it was at some moment, takes    *)
(* effect at most once, and only while no other change of its file was     *)
(* committed after that moment.  A caller may be left without a truthful   *)
(* answer, but it is never told a wrong one.                               *)
(***************************************************************************)
EXTENDS Integers, Sequences

CONSTANTS Requests, Files, TargetOf

VARIABLES
  committed,   \* the requests that took effect, oldest first
  decidedOn,   \* decidedOn[r]: length of committed when r was decided
  told         \* told[r]: what the caller of r knows

vars == <<committed, decidedOn, told>>

Effective == {committed[i] : i \in DOMAIN committed}

Overtaken(r) ==
  \E i \in (decidedOn[r] + 1)..Len(committed) : TargetOf[committed[i]] = TargetOf[r]

Init ==
  /\ committed = <<>>
  /\ decidedOn = [r \in Requests |-> 0]
  /\ told = [r \in Requests |-> "nothing"]

(* The caller looks at the log again, as long as r may not take effect yet. *)
Decide(r) ==
  /\ r \notin Effective
  /\ told[r] # "conflict"
  /\ decidedOn' = [decidedOn EXCEPT ![r] = Len(committed)]
  /\ UNCHANGED <<committed, told>>

Commit(r) ==
  /\ r \notin Effective
  /\ told[r] # "conflict"
  /\ ~Overtaken(r)
  /\ committed' = Append(committed, r)
  /\ told' \in {told, [told EXCEPT ![r] = "committed"]}
  /\ UNCHANGED decidedOn

(* The outcome is learned after the fact, if ever. *)
LearnCommitted(r) ==
  /\ r \in Effective
  /\ told' = [told EXCEPT ![r] = "committed"]
  /\ UNCHANGED <<committed, decidedOn>>

LearnConflict(r) ==
  /\ r \notin Effective
  /\ Overtaken(r)
  /\ told' = [told EXCEPT ![r] = "conflict"]
  /\ UNCHANGED <<committed, decidedOn>>

(* The process that knew stops, and asks again later. *)
Forget(r) ==
  /\ told[r] = "committed"
  /\ told' = [told EXCEPT ![r] = "nothing"]
  /\ UNCHANGED <<committed, decidedOn>>

Next ==
  \E r \in Requests :
    Decide(r) \/ Commit(r) \/ LearnCommitted(r) \/ LearnConflict(r) \/ Forget(r)

Spec == Init /\ [][Next]_vars
=============================================================================
