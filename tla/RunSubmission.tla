---------------------------- MODULE RunSubmission ----------------------------
(***************************************************************************)
(* DurableRunEngine.submit_run, called by the threads that serve           *)
(* POST /runs, for the runs of one project: the lookup of the idempotency  *)
(* key, the admission check, and save_submission of the PostgreSQL store,  *)
(* each on a connection of its own.  A run is named by the call that       *)
(* inserted it.                                                            *)
(***************************************************************************)
EXTENDS Naturals, FiniteSets

CONSTANTS
  Calls, None,
  KeyOf,       \* the idempotency key of a call, None without one
  Threads,     \* how many calls are served at a time
  MaxQueued    \* RunQuotaConfig.max_queued_per_project

ASSUME SubmissionAssumption ==
  /\ None \notin Calls
  /\ Threads \in Nat \ {0} /\ MaxQueued \in Nat
  /\ IsFiniteSet(Calls)

VARIABLES
  pc,       \* where a call is, then the response it gave
  answer,   \* the run a 202 response tells
  run       \* the run a call has inserted

vars == <<pc, answer, run>>

(* "refused" is the 429 of the admission check.                            *)
InFlight == {"admitting", "saving"}
Responses == {"accepted", "refused"}

(* "queued" has never been claimed, "back" is queued again after a pause,  *)
(* an approval or a recovery.                                              *)
TypeOK ==
  /\ pc \in [Calls -> {"new"} \cup InFlight \cup Responses]
  /\ answer \in [Calls -> Calls \cup {None}]
  /\ run \in [Calls -> {"none", "queued", "gone", "back"}]

Init ==
  /\ pc = [c \in Calls |-> "new"]
  /\ answer = [c \in Calls |-> None]
  /\ run = [c \in Calls |-> "none"]

-----------------------------------------------------------------------------
(* The runs inserted with the key of a call.                               *)
SameKey(c) == {d \in Calls : KeyOf[c] # None /\ KeyOf[d] = KeyOf[c] /\ run[d] # "none"}

Queue == {d \in Calls : run[d] \in {"queued", "back"}}

Goto(c, to) == pc' = [pc EXCEPT ![c] = to]

Accept(c, d) ==
  /\ Goto(c, "accepted")
  /\ answer' = [answer EXCEPT ![c] = d]

Insert(c) ==
  /\ run' = [run EXCEPT ![c] = "queued"]
  /\ Accept(c, c)

LookUp(c) ==
  /\ pc[c] = "new"
  /\ Cardinality({d \in Calls : pc[d] \in InFlight}) < Threads
  /\ IF SameKey(c) # {}
     THEN \E d \in SameKey(c) : Accept(c, d)
     ELSE Goto(c, "admitting") /\ UNCHANGED answer
  /\ UNCHANGED run

CheckAdmission_OffByOne(c) ==
  /\ pc[c] = "admitting"
  /\ Goto(c, IF Cardinality(Queue) > MaxQueued THEN "refused" ELSE "saving")
  /\ UNCHANGED <<answer, run>>

CheckAdmission(c) ==
  /\ pc[c] = "admitting"
  /\ Goto(c, IF Cardinality(Queue) >= MaxQueued THEN "refused" ELSE "saving")
  /\ UNCHANGED <<answer, run>>

PostgresSave_Blind(c) ==
  /\ pc[c] = "saving"
  /\ Insert(c)

(* INSERT ... ON CONFLICT DO NOTHING, then the conflicting row.            *)
PostgresSave(c) ==
  /\ pc[c] = "saving"
  /\ IF SameKey(c) # {}
     THEN \E d \in SameKey(c) : Accept(c, d) /\ UNCHANGED run
     ELSE Insert(c)

(* A refused client submits again; so does one whose server died.          *)
Retry(c) ==
  /\ pc[c] \in InFlight \cup {"refused"}
  /\ Goto(c, "new")
  /\ UNCHANGED <<answer, run>>

(* Claims, cancellations and pauses take runs off the queue; resumes,      *)
(* approvals and recoveries bring them back, past the admission check.     *)
LeaveQueue(c) ==
  /\ c \in Queue
  /\ run' = [run EXCEPT ![c] = "gone"]
  /\ UNCHANGED <<pc, answer>>

ReturnToQueue(c) ==
  /\ run[c] = "gone"
  /\ run' = [run EXCEPT ![c] = "back"]
  /\ UNCHANGED <<pc, answer>>

Common(c) ==
  LookUp(c) \/ CheckAdmission(c) \/ Retry(c) \/ LeaveQueue(c) \/ ReturnToQueue(c)

PostgresNext == \E c \in Calls : Common(c) \/ PostgresSave(c)

PostgresSpec == Init /\ [][PostgresNext]_vars

-----------------------------------------------------------------------------
(* One run per idempotency key, and every accepted call with that key was  *)
(* told that run, also when the calls overlap.                             *)
OneRunPerKey ==
  \A c, d \in Calls :
    pc[c] = "accepted" /\ pc[d] = "accepted" /\ KeyOf[c] # None /\ KeyOf[c] = KeyOf[d]
      => answer[c] = answer[d] /\ run[answer[c]] # "none"

(* The queue limit counts a queue that concurrent calls are about to       *)
(* extend: runs never claimed exceed it by at most one per other thread.   *)
BoundedQueue ==
  Cardinality({d \in Calls : run[d] = "queued"}) <= MaxQueued + Threads - 1

=============================================================================
