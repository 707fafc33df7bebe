---------------------------- MODULE PostgresRuns ----------------------------
(***************************************************************************)
(* The durable run engine on PostgresRunStore.  Every operation of this    *)
(* store is one transaction whose UPDATE carries its own guard (or holds   *)
(* the row lock of a SELECT ... FOR UPDATE), so each is one action here.   *)
(* Operations that raise leave the database as it was and are no action,   *)
(* except when an executor learns that way that its result was refused.    *)
(***************************************************************************)
EXTENDS RunExecution

CONSTANT JobRuns   \* runs whose metadata asks for a project_job.finished event
                   \* or, for scheduled runs, a schedule_history row

ASSUME JobRunsAssumption == JobRuns \subseteq Runs

VARIABLE finished   \* status in the run's terminal event, None without event

vars == <<row, exec, stopped, toCancel, finished>>

TypeOK ==
  /\ ExecTypeOK
  /\ finished \in [Runs -> Terminal \cup {None}]

Init ==
  /\ ExecInit
  /\ finished = [r \in Runs |-> None]

(* _record_project_job_result: the event's id is derived from the run's    *)
(* id and the insert says ON CONFLICT DO NOTHING, so the first one stays.  *)
RecordJobResult(S) ==
  finished' = [r \in Runs |->
                 IF r \in S \cap JobRuns /\ finished[r] = None
                 THEN row'[r].status ELSE finished[r]]

-----------------------------------------------------------------------------
(* complete_run and timeout_run (_finish).                                 *)
StoreResult(t) ==
  LET r == exec[t].run IN
  /\ exec[t].pc = "finish"
  /\ exec[t].outcome \in {"completed", "timed_out", "failed"}
  /\ IF Owns(row[r], t)
     THEN /\ row' = [row EXCEPT ![r] = Finished(@, FinalStatus(exec[t]), t)]
          /\ Goto(t, "done")
          /\ RecordJobResult({r})
     ELSE /\ Leave(t)
          /\ UNCHANGED <<row, finished>>
  /\ UNCHANGED <<stopped, toCancel>>

ConfirmCancellation(t) ==
  LET r == exec[t].run IN
  /\ exec[t].pc = "finish"
  /\ exec[t].outcome = "cancelled"
  /\ IF Owns(row[r], t)
     THEN /\ row' = [row EXCEPT ![r] = CancelledBy(@, t)]
          /\ Goto(t, "done")
          /\ RecordJobResult({r})
     ELSE /\ Leave(t)
          /\ UNCHANGED <<row, finished>>
  /\ UNCHANGED <<stopped, toCancel>>

-----------------------------------------------------------------------------
(* The operations of API requests.                                         *)

CancelRun(r) ==
  IF row[r].status \in Terminal THEN UNCHANGED <<row, finished>>
  ELSE IF row[r].status \in Parked
  THEN /\ row' = [row EXCEPT ![r] = Cancelled(@)]
       /\ RecordJobResult({r})
  ELSE /\ row' = [row EXCEPT ![r] = Flagged(@)]
       /\ UNCHANGED finished

RequestCancellation(r) ==
  /\ CancelRun(r)
  /\ UNCHANGED <<exec, stopped, toCancel>>

PauseRun(r) ==
  /\ row[r].status \in Pausable
  /\ row' = [row EXCEPT ![r] = Paused(@)]
  /\ UNCHANGED <<exec, stopped, toCancel, finished>>

ResumeRun_Cancelled(r) ==
  /\ row[r].status \in {"paused", "cancelled"}
  /\ row' = [row EXCEPT ![r] = Requeued(@)]
  /\ UNCHANGED <<exec, stopped, toCancel, finished>>

ResumeRun(r) ==
  /\ row[r].status = "paused"
  /\ row' = [row EXCEPT ![r] = Requeued(@)]
  /\ UNCHANGED <<exec, stopped, toCancel, finished>>

RequestApproval(t) ==
  /\ Live(t)
  /\ Owns(RowOf(t), t)
  /\ row' = [row EXCEPT ![exec[t].run] = AwaitingApproval(@)]
  /\ UNCHANGED <<exec, stopped, toCancel, finished>>

ApproveRun(r) ==
  /\ row[r].status = "waiting_approval"
  /\ row' = [row EXCEPT ![r] = Requeued(@)]
  /\ UNCHANGED <<exec, stopped, toCancel, finished>>

-----------------------------------------------------------------------------
Recover_Silent ==
  \E S \in SUBSET {r \in Runs : Expired(row[r])} :
    /\ S # {}
    /\ row' = [r \in Runs |-> IF r \in S THEN Recovered(row[r]) ELSE row[r]]
    /\ UNCHANGED <<exec, stopped, toCancel, finished>>

(* recover_stale_or_interrupted: the stale rows are locked and rewritten   *)
(* in one transaction per project; rows another transaction has locked are *)
(* skipped, so any part of the stale rows may be recovered.                *)
Recover ==
  \E S \in SUBSET {r \in Runs : Expired(row[r])} :
    /\ S # {}
    /\ row' = [r \in Runs |-> IF r \in S THEN Recovered(row[r]) ELSE row[r]]
    /\ RecordJobResult({r \in S : row[r].attempt >= MaxAttempts})
    /\ UNCHANGED <<exec, stopped, toCancel>>

(* The loop of stop_worker over the runs it noted.                         *)
StopCancels(e, r) ==
  /\ r \in toCancel[e]
  /\ toCancel' = [toCancel EXCEPT ![e] = @ \ {r}]
  /\ CancelRun(r)
  /\ UNCHANGED <<exec, stopped>>

-----------------------------------------------------------------------------
(* Resumes and approvals are bounded by the supply of tokens: without a    *)
(* token left no claim could follow.                                       *)
TokenLeft == \E t \in Tokens : exec[t] = Unborn

Request(r) ==
  \/ RequestCancellation(r)
  \/ PauseRun(r)
  \/ TokenLeft /\ (ResumeRun(r) \/ ApproveRun(r))

Next ==
  \/ ExecNext /\ UNCHANGED finished
  \/ \E e \in Engines : Crash(e) /\ UNCHANGED finished
  \/ \E t \in Tokens : StoreResult(t) \/ ConfirmCancellation(t) \/ RequestApproval(t)
  \/ \E r \in Runs : Request(r)
  \/ Recover
  \/ \E e \in Engines, r \in Runs : StopCancels(e, r)

Spec == Init /\ [][Next]_vars

-----------------------------------------------------------------------------
(* Why fencing works on this store: an execution whose result was accepted *)
(* left its run terminal with the execution's own token in it, so no other *)
(* can be accepted for that run.  A process only lives while the loop of   *)
(* its execution polls it, and every execution claimed some run.           *)
Polling == Steps \ {"finish", "commit"}

ResultsAreRecorded ==
  \A t \in Tokens :
    /\ exec[t].pc # "unborn" => exec[t].run \in Runs
    /\ exec[t].proc \in Alive => exec[t].pc \in Polling
    /\ exec[t].pc = "done" => RowOf(t).status \in Terminal /\ RowOf(t).token = t

(* The project_job.finished event of a job tells its final status, and is  *)
(* there exactly when the run has one: no path to a terminal status        *)
(* forgets it, and none is announced before the row is terminal.           *)
EventTellsFinalStatus ==
  \A r \in JobRuns :
    finished[r] = IF row[r].status \in Terminal THEN row[r].status ELSE None

(* The engine on this store, seen through the status column and the event, *)
(* is the lifecycle promised to clients.                                   *)
Lifecycle == INSTANCE RunLifecycle WITH
  status <- [r \in Runs |-> row[r].status], announced <- finished

ImplementsLifecycle == Lifecycle!Spec

=============================================================================
