----------------------------- MODULE RunRecords -----------------------------
(***************************************************************************)
(* One row of the `runs` table of the durable run engine, and what each    *)
(* SQL statement of the two run stores does to it.  The operators say what *)
(* a statement writes once its WHERE clause holds; who may execute it, and *)
(* under which guard, is said by the modules that use them.                *)
(*                                                                         *)
(* Of a row the model keeps the columns the control depends on.  `output`  *)
(* stands for the result columns (output, error, exit_code): it names the  *)
(* execution whose result they hold.  `stale` stands for heartbeat_at: it  *)
(* says whether the last heartbeat is older than the heartbeat timeout.    *)
(*                                                                         *)
(* A definition named D_Slip, here and in the other modules, is a mutant   *)
(* of the definition D that follows it: the code with a plausible mistake, *)
(* used only to see that a property would catch it.                        *)
(***************************************************************************)
EXTENDS Naturals

CONSTANTS
  Runs,         \* identities of the submitted runs
  Tokens,       \* worker tokens: a fresh one (a uuid) for every claim
  None,         \* SQL NULL, and the absent engine or run
  MaxAttempts   \* runs.max_attempts: save_submission inserts 3

ASSUME NoneAssumption == None \notin Runs /\ None \notin Tokens
ASSUME AttemptsAssumption == MaxAttempts \in Nat \ {0}

Terminal == {"succeeded", "failed", "cancelled", "timed_out"}

Status == {"queued", "running", "waiting_approval", "paused"} \cup Terminal

Row == [status: Status, token: Tokens \cup {None}, attempt: Nat,
        cancel: BOOLEAN, stale: BOOLEAN, output: Tokens \cup {None}]

(* A row as save_submission inserts it.                                    *)
Submitted == [status |-> "queued", token |-> None, attempt |-> 0,
              cancel |-> FALSE, stale |-> FALSE, output |-> None]

-----------------------------------------------------------------------------
(* The rows that satisfy a WHERE clause.                                   *)

Owns_AnyToken(w, t) == w.status = "running"

Owns(w, t) == w.status = "running" /\ w.token = t

Expired_AnyStatus(w) == w.stale

Expired_LastAttemptKept(w) == w.status = "running" /\ w.stale /\ w.attempt < MaxAttempts

Expired(w) == w.status = "running" /\ w.stale

(* Statuses from which request_cancellation cancels at once; from          *)
(* "running" it only raises the flag that the executor polls.              *)
Parked == {"queued", "waiting_approval", "paused"}

Pausable == {"queued", "running", "waiting_approval"}

-----------------------------------------------------------------------------
(* The row a statement leaves behind.                                      *)

ClaimedBy(w, t) == [w EXCEPT !.status = "running", !.token = t,
                             !.attempt = @ + 1, !.stale = FALSE]

Beaten(w) == [w EXCEPT !.stale = FALSE]

(* complete_run and timeout_run: the token stays in the row.               *)
Finished(w, status, t) == [w EXCEPT !.status = status, !.output = t]

Flagged(w) == [w EXCEPT !.cancel = TRUE]

Cancelled(w) == [w EXCEPT !.status = "cancelled", !.cancel = TRUE]

(* confirm_cancellation also stores what the killed process had written.   *)
CancelledBy(w, t) == [Cancelled(w) EXCEPT !.output = t]

Paused_FlagCleared(w) == [w EXCEPT !.status = "paused", !.token = None,
                                   !.cancel = FALSE]

(* pause_run drops the token, which fences the worker off, and keeps the   *)
(* cancellation flag.                                                      *)
Paused(w) == [w EXCEPT !.status = "paused", !.token = None]

AwaitingApproval(w) == [w EXCEPT !.status = "waiting_approval"]

Requeued_AttemptsReset(w) == [w EXCEPT !.status = "queued", !.token = None,
                                       !.attempt = 0]

(* resume_run, approve_run and the retry branch of the recovery.           *)
Requeued(w) == [w EXCEPT !.status = "queued", !.token = None]

(* The recovery's other branch, once every attempt is used up.             *)
Abandoned(w) == [w EXCEPT !.status = "timed_out"]

Recovered(w) == IF w.attempt < MaxAttempts THEN Requeued(w) ELSE Abandoned(w)
=============================================================================
