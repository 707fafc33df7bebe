----------------------------- MODULE SqliteRuns -----------------------------
(***************************************************************************)
(* The durable run engine on SqliteRunStore.  An operation of this store   *)
(* first reads the row through get_run, on a connection of its own, checks *)
(* what it read, and then updates the row in a second transaction.  Some   *)
(* of the updates repeat the check in their WHERE clause, others only name *)
(* the row's id.  The recovery's SELECT also runs before its transaction:  *)
(* the sqlite3 driver opens one only at the first UPDATE.  So an operation *)
(* is two actions here, and others may act between them.                   *)
(***************************************************************************)
EXTENDS RunExecution

CONSTANTS
  Requests,   \* threads that serve API requests, and stop_worker's caller
  Home        \* the engine whose process a request thread belongs to

ASSUME HomeAssumption == Home \in [Requests -> Engines]

VARIABLES
  request,    \* what a request thread is about to write, after its read
  recovery    \* the rows an engine's recovery has read and not yet updated

vars == <<row, exec, stopped, toCancel, request, recovery>>

Operations == {"cancel", "flag", "pause", "resume", "ask", "approve"}

Pending == [op: {"idle"} \cup Operations, run: Runs \cup {None},
            token: Tokens \cup {None}]

Idle == [op |-> "idle", run |-> None, token |-> None]

NothingRead == [retry |-> {}, abandon |-> {}]

TypeOK ==
  /\ ExecTypeOK
  /\ request \in [Requests -> Pending]
  /\ recovery \in [Engines -> [retry: SUBSET Runs, abandon: SUBSET Runs]]

Init ==
  /\ ExecInit
  /\ request = [q \in Requests |-> Idle]
  /\ recovery = [e \in Engines |-> NothingRead]

-----------------------------------------------------------------------------
(* complete_run and timeout_run check status and token, then check them    *)
(* again in the UPDATE.  confirm_cancellation checks the token only.       *)
ReadBeforeResult(t) ==
  /\ exec[t].pc = "finish"
  /\ exec[t].outcome # "paused"
  /\ IF IF exec[t].outcome = "cancelled" THEN RowOf(t).token = t ELSE Owns(RowOf(t), t)
     THEN Goto(t, "commit")
     ELSE Leave(t)
  /\ UNCHANGED <<row, stopped, toCancel, request, recovery>>

StoreResult_ReadTrusted(t) ==
  /\ exec[t].pc = "commit"
  /\ exec[t].outcome \in {"completed", "timed_out", "failed"}
  /\ row' = [row EXCEPT ![exec[t].run] = Finished(@, FinalStatus(exec[t]), t)]
  /\ Goto(t, "done")
  /\ UNCHANGED <<stopped, toCancel, request, recovery>>

StoreResult(t) ==
  /\ exec[t].pc = "commit"
  /\ exec[t].outcome \in {"completed", "timed_out", "failed"}
  /\ IF Owns(RowOf(t), t)
     THEN /\ row' = [row EXCEPT ![exec[t].run] = Finished(@, FinalStatus(exec[t]), t)]
          /\ Goto(t, "done")
     ELSE Leave(t) /\ UNCHANGED row
  /\ UNCHANGED <<stopped, toCancel, request, recovery>>

ConfirmCancellation(t) ==
  /\ exec[t].pc = "commit"
  /\ exec[t].outcome = "cancelled"
  /\ row' = [row EXCEPT ![exec[t].run] = CancelledBy(@, t)]
  /\ Goto(t, "done")
  /\ UNCHANGED <<stopped, toCancel, request, recovery>>

-----------------------------------------------------------------------------
(* The first half of an operation: get_run and the checks on what it read. *)

Begin(q, op, r, t) ==
  /\ request[q] = Idle
  /\ request' = [request EXCEPT ![q] = [op |-> op, run |-> r, token |-> t]]
  /\ UNCHANGED <<row, exec, stopped, recovery>>

(* request_cancellation chooses its UPDATE by the status it read.          *)
BeginCancel(q, r) ==
  /\ row[r].status \notin Terminal
  /\ Begin(q, IF row[r].status \in Parked THEN "cancel" ELSE "flag", r, None)

BeginPause(q, r) ==
  /\ row[r].status \in Pausable
  /\ Begin(q, "pause", r, None)

BeginResume(q, r) ==
  /\ row[r].status = "paused"
  /\ Begin(q, "resume", r, None)

BeginApprove(q, r) ==
  /\ row[r].status = "waiting_approval"
  /\ Begin(q, "approve", r, None)

BeginAsk(q, t) ==
  /\ Live(t)
  /\ Owns(RowOf(t), t)
  /\ Begin(q, "ask", exec[t].run, t)

-----------------------------------------------------------------------------
(* The second half: the UPDATE.  Only pause_run looks at the status again, *)
(* and request_approval at the token; the others rely on the first half.   *)

Commit(q, op) ==
  /\ request[q].op = op
  /\ request' = [request EXCEPT ![q] = Idle]
  /\ UNCHANGED <<exec, stopped, toCancel, recovery>>

Write(r, w) == row' = [row EXCEPT ![r] = w]

CommitCancel(q) ==
  LET r == request[q].run IN Commit(q, "cancel") /\ Write(r, Cancelled(row[r]))

CommitFlag(q) ==
  LET r == request[q].run IN Commit(q, "flag") /\ Write(r, Flagged(row[r]))

CommitPause(q) ==
  LET r == request[q].run IN
  /\ Commit(q, "pause")
  /\ IF row[r].status \in Pausable THEN Write(r, Paused(row[r])) ELSE UNCHANGED row

CommitResume(q) ==
  LET r == request[q].run IN Commit(q, "resume") /\ Write(r, Requeued(row[r]))

CommitApprove(q) ==
  LET r == request[q].run IN Commit(q, "approve") /\ Write(r, Requeued(row[r]))

CommitAsk(q) ==
  LET r == request[q].run IN
  /\ Commit(q, "ask")
  /\ IF row[r].token = request[q].token
     THEN Write(r, AwaitingApproval(row[r])) ELSE UNCHANGED row

-----------------------------------------------------------------------------
(* recover_stale_or_interrupted.                                           *)

RecoveryReads(e) ==
  LET S == {r \in Runs : Expired(row[r])} IN
  /\ recovery[e] = NothingRead
  /\ S # {}
  /\ recovery' = [recovery EXCEPT ![e] =
                    [retry |-> {r \in S : row[r].attempt < MaxAttempts},
                     abandon |-> {r \in S : row[r].attempt >= MaxAttempts}]]
  /\ UNCHANGED <<row, exec, stopped, toCancel, request>>

RecoveryWrites(e) ==
  /\ recovery[e] # NothingRead
  /\ row' = [r \in Runs |->
               IF r \in recovery[e].retry THEN Requeued(row[r])
               ELSE IF r \in recovery[e].abandon THEN Abandoned(row[r])
               ELSE row[r]]
  /\ recovery' = [recovery EXCEPT ![e] = NothingRead]
  /\ UNCHANGED <<exec, stopped, toCancel, request>>

(* The loop of stop_worker over the runs it noted: it passes over those    *)
(* that are terminal already.                                              *)
StopCancels(q, r) ==
  /\ r \in toCancel[Home[q]]
  /\ request[q] = Idle
  /\ toCancel' = [toCancel EXCEPT ![Home[q]] = @ \ {r}]
  /\ IF row[r].status \in Terminal
     THEN UNCHANGED <<row, exec, stopped, request, recovery>>
     ELSE BeginCancel(q, r)

(* With the process of an engine die its request threads and its recovery. *)
EngineCrash(e) ==
  /\ Crash(e)
  /\ request' = [q \in Requests |-> IF Home[q] = e THEN Idle ELSE request[q]]
  /\ recovery' = [recovery EXCEPT ![e] = NothingRead]

-----------------------------------------------------------------------------
(* Resumes and approvals are bounded by the supply of tokens.              *)
TokenLeft == \E t \in Tokens : exec[t] = Unborn

RequestBegins(q) ==
  /\ \/ \E r \in Runs : BeginCancel(q, r) \/ BeginPause(q, r)
     \/ TokenLeft /\ \E r \in Runs : BeginResume(q, r) \/ BeginApprove(q, r)
     \/ \E t \in Tokens : BeginAsk(q, t)
  /\ UNCHANGED toCancel

RequestCommits(q) ==
  \/ CommitCancel(q) \/ CommitFlag(q) \/ CommitPause(q)
  \/ CommitResume(q) \/ CommitApprove(q) \/ CommitAsk(q)

Next ==
  \/ ExecNext /\ UNCHANGED <<request, recovery>>
  \/ \E t \in Tokens : ReadBeforeResult(t) \/ StoreResult(t) \/ ConfirmCancellation(t)
  \/ \E q \in Requests : RequestBegins(q) \/ RequestCommits(q)
  \/ \E q \in Requests, r \in Runs : StopCancels(q, r)
  \/ \E e \in Engines : RecoveryReads(e) \/ RecoveryWrites(e) \/ EngineCrash(e)

Spec == Init /\ [][Next]_vars
=============================================================================
