---------------------------- MODULE RunExecution ----------------------------
(***************************************************************************)
(* The part of the durable run engine that does not depend on the store:   *)
(* claiming a queued run, running its command in a child process, the poll *)
(* loop of ProcessRunExecutor.execute, and the start, stop and crash of an *)
(* engine.  Its database accesses are single statements in both stores     *)
(* (claim_run, record_heartbeat) or single reads (the two callbacks).      *)
(*                                                                         *)
(* Each claim starts one execution, named by the claim's worker token.     *)
(* Several engines may share a store: the worker of the API process, the   *)
(* caller of POST /runs/step, another process.                             *)
(***************************************************************************)
EXTENDS RunRecords, FiniteSets

CONSTANT Engines

VARIABLES
  row,        \* the runs table
  exec,       \* what the execution of each token is doing
  stopped,    \* DurableRunEngine._stop_event, per engine
  toCancel    \* runs stop_worker has still to request the cancellation of

execVars == <<row, exec, stopped, toCancel>>

(* The steps of one execution, in the order of the executor's loop, then   *)
(* what became of its result: "done" when the store accepted it, "gone"    *)
(* when the store refused it or there was nothing to store.                *)
Steps == {"start", "poll", "cancelCheck", "pauseCheck", "beat", "recheck",
          "finish", "commit"}
Ends == {"done", "gone"}

(* The child process: "overdue" is running past the deadline, "ok" and     *)
(* "bad" have exited by themselves with code zero and with another code,   *)
(* "killed" is dead by the engine's hand and also reports a nonzero code.  *)
Alive == {"running", "overdue"}
Exited == {"ok", "bad", "killed"}

Outcomes == {"completed", "timed_out", "cancelled", "failed", "paused"}

Execution == [run: Runs \cup {None}, engine: Engines \cup {None},
              pc: {"unborn"} \cup Steps \cup Ends,
              proc: {"none"} \cup Alive \cup Exited,
              outcome: {"none"} \cup Outcomes]

Unborn == [run |-> None, engine |-> None, pc |-> "unborn",
           proc |-> "none", outcome |-> "none"]

ExecTypeOK ==
  /\ row \in [Runs -> Row]
  /\ exec \in [Tokens -> Execution]
  /\ stopped \in [Engines -> BOOLEAN]
  /\ toCancel \in [Engines -> SUBSET Runs]

ExecInit ==
  /\ row = [r \in Runs |-> Submitted]
  /\ exec = [t \in Tokens |-> Unborn]
  /\ stopped = [e \in Engines |-> FALSE]
  /\ toCancel = [e \in Engines |-> {}]

-----------------------------------------------------------------------------
RowOf(t) == row[exec[t].run]

Live(t) == exec[t].pc \in Steps

Killed(proc) == IF proc \in Alive THEN "killed" ELSE proc

Goto(t, pc) == exec' = [exec EXCEPT ![t].pc = pc]

(* Leave the poll loop with an outcome; the process is killed unless it    *)
(* has exited by itself.                                                   *)
Concluded(x, outcome) == [x EXCEPT !.pc = "finish", !.outcome = outcome,
                                  !.proc = Killed(@)]

Conclude(t, outcome) == exec' = [exec EXCEPT ![t] = Concluded(@, outcome)]

(* An execution that stored nothing returns and leaves nothing behind.     *)
Gone(x) == [Unborn EXCEPT !.run = x.run, !.pc = "gone"]

Leave(t) == exec' = [exec EXCEPT ![t] = Gone(@)]

FinalStatus_AnyExit(x) ==
  IF x.outcome = "timed_out" THEN "timed_out"
  ELSE IF x.outcome = "completed" THEN "succeeded"
  ELSE "failed"

(* The status complete_run or timeout_run writes for an outcome: only a    *)
(* process that was seen to exit with code zero makes the run succeed.     *)
FinalStatus(x) ==
  IF x.outcome = "timed_out" THEN "timed_out"
  ELSE IF x.outcome = "completed" /\ x.proc = "ok" THEN "succeeded"
  ELSE "failed"

-----------------------------------------------------------------------------
Begun(e, r) == [Unborn EXCEPT !.run = r, !.engine = e, !.pc = "start"]

(* claim_run: one UPDATE guarded by status = 'queued', with a fresh token. *)
(* Which queued run the scheduler proposes is left open here.              *)
Claim(e, t, r) ==
  /\ exec[t] = Unborn
  /\ row[r].status = "queued"
  /\ row' = [row EXCEPT ![r] = ClaimedBy(@, t)]
  /\ exec' = [exec EXCEPT ![t] = Begun(e, r)]
  /\ UNCHANGED <<stopped, toCancel>>

StartProcess(t) ==
  /\ exec[t].pc = "start"
  /\ exec' = [exec EXCEPT ![t] = [@ EXCEPT !.pc = "poll", !.proc = "running"]]
  /\ UNCHANGED <<row, stopped, toCancel>>

(* No command, no Job Object, or Popen raises.                             *)
StartFails(t) ==
  /\ exec[t].pc = "start"
  /\ Conclude(t, "failed")
  /\ UNCHANGED <<row, stopped, toCancel>>

(* stop_worker has shut the thread pool down between the claim and the     *)
(* submit, or cancels the waiting future: the run stays claimed.           *)
NeverDispatched(t) ==
  /\ exec[t].pc = "start"
  /\ stopped[exec[t].engine]
  /\ Leave(t)
  /\ UNCHANGED <<row, stopped, toCancel>>

ProcessExits(t, how) ==
  /\ exec[t].proc \in Alive
  /\ exec' = [exec EXCEPT ![t].proc = how]
  /\ UNCHANGED <<row, stopped, toCancel>>

DeadlinePasses(t) ==
  /\ exec[t].proc = "running"
  /\ exec' = [exec EXCEPT ![t].proc = "overdue"]
  /\ UNCHANGED <<row, stopped, toCancel>>

(* One round of the loop: exit code, deadline, cancellation, pause,        *)
(* heartbeat, in this order, each a separate look at the world.            *)
Poll(t) ==
  /\ exec[t].pc = "poll"
  /\ \/ exec[t].proc \in Exited /\ Conclude(t, "completed")
     \/ exec[t].proc = "overdue" /\ Conclude(t, "timed_out")
     \/ exec[t].proc = "running" /\ Goto(t, "cancelCheck")
  /\ UNCHANGED <<row, stopped, toCancel>>

CheckCancellation(t) ==
  /\ exec[t].pc = "cancelCheck"
  /\ IF stopped[exec[t].engine] \/ RowOf(t).cancel
     THEN Conclude(t, "cancelled")
     ELSE Goto(t, "pauseCheck")
  /\ UNCHANGED <<row, stopped, toCancel>>

CheckPause(t) ==
  /\ exec[t].pc = "pauseCheck"
  /\ IF RowOf(t).status = "paused" THEN Conclude(t, "paused") ELSE Goto(t, "beat")
  /\ UNCHANGED <<row, stopped, toCancel>>

HeartbeatNotDue(t) ==
  /\ exec[t].pc = "beat"
  /\ Goto(t, "poll")
  /\ UNCHANGED <<row, stopped, toCancel>>

(* record_heartbeat: an UPDATE guarded by the token and by 'running'.      *)
RecordHeartbeat(t) ==
  /\ exec[t].pc = "beat"
  /\ \/ /\ Owns(RowOf(t), t)
        /\ row' = [row EXCEPT ![exec[t].run] = Beaten(@)]
        /\ Goto(t, "poll")
     \/ /\ ~Owns(RowOf(t), t)
        /\ Goto(t, "recheck")
        /\ UNCHANGED row
  /\ UNCHANGED <<stopped, toCancel>>

RecheckPause(t) ==
  /\ exec[t].pc = "recheck"
  /\ Conclude(t, IF RowOf(t).status = "paused" THEN "paused" ELSE "failed")
  /\ UNCHANGED <<row, stopped, toCancel>>

(* A callback raises because the database cannot be reached or is locked:  *)
(* the executor's catch-all kills the process and reports a failure.       *)
CallbackRaises(t) ==
  /\ exec[t].pc \in {"cancelCheck", "pauseCheck", "beat", "recheck"}
  /\ Conclude(t, "failed")
  /\ UNCHANGED <<row, stopped, toCancel>>

(* The same while a result is stored: nobody stores it again.              *)
ResultIsLost(t) ==
  /\ exec[t].pc \in {"finish", "commit"}
  /\ exec[t].outcome # "paused"
  /\ Leave(t)
  /\ UNCHANGED <<row, stopped, toCancel>>

(* _execute_claimed_run stores nothing for a paused run.                   *)
LeavePaused(t) ==
  /\ exec[t].pc = "finish"
  /\ exec[t].outcome = "paused"
  /\ Leave(t)
  /\ UNCHANGED <<row, stopped, toCancel>>

(* More than heartbeat_timeout_seconds without a heartbeat: the worker is  *)
(* dead, or alive and late.                                                *)
HeartbeatExpires(r) ==
  /\ row[r].status = "running"
  /\ ~row[r].stale
  /\ row' = [row EXCEPT ![r].stale = TRUE]
  /\ UNCHANGED <<exec, stopped, toCancel>>

-----------------------------------------------------------------------------
(* stop_worker raises the stop flag, kills every child process and notes   *)
(* the runs to cancel.  Executions begun through POST /runs/step are not   *)
(* in _active_runs, so any part of the executing runs may be noted.        *)
StopWorker(e) ==
  /\ ~stopped[e]
  /\ stopped' = [stopped EXCEPT ![e] = TRUE]
  /\ exec' = [t \in Tokens |->
                IF exec[t].engine = e THEN [exec[t] EXCEPT !.proc = Killed(@)]
                ELSE exec[t]]
  /\ \E S \in SUBSET {exec[t].run : t \in {u \in Tokens : Live(u) /\ exec[u].engine = e}} :
       toCancel' = [toCancel EXCEPT ![e] = S]
  /\ UNCHANGED row

StartWorker(e) ==
  /\ stopped[e]
  /\ toCancel[e] = {}
  /\ stopped' = [stopped EXCEPT ![e] = FALSE]
  /\ UNCHANGED <<row, exec, toCancel>>

(* The engine's process dies and another takes its place: its threads are  *)
(* gone and the Job Objects take the child processes with them.            *)
Crash(e) ==
  /\ \E t \in Tokens : Live(t) /\ exec[t].engine = e
  /\ exec' = [t \in Tokens |->
                IF exec[t].engine = e /\ Live(t)
                THEN Gone(exec[t])
                ELSE exec[t]]
  /\ stopped' = [stopped EXCEPT ![e] = FALSE]
  /\ toCancel' = [toCancel EXCEPT ![e] = {}]
  /\ UNCHANGED row

-----------------------------------------------------------------------------
ExecutorStep(t) ==
  \/ StartProcess(t)
  \/ StartFails(t)
  \/ Poll(t)
  \/ CheckCancellation(t)
  \/ CheckPause(t)
  \/ HeartbeatNotDue(t)
  \/ RecordHeartbeat(t)
  \/ RecheckPause(t)
  \/ LeavePaused(t)

ExecNext ==
  \/ \E e \in Engines, t \in Tokens, r \in Runs : Claim(e, t, r)
  \/ \E t \in Tokens : ExecutorStep(t)
  \/ \E t \in Tokens, how \in {"ok", "bad"} : ProcessExits(t, how)
  \/ \E t \in Tokens : NeverDispatched(t) \/ DeadlinePasses(t)
  \/ \E t \in Tokens : CallbackRaises(t) \/ ResultIsLost(t)
  \/ \E r \in Runs : HeartbeatExpires(r)
  \/ \E e \in Engines : StopWorker(e) \/ StartWorker(e)

-----------------------------------------------------------------------------
(* What is expected of the engine on either store.                         *)

(* A run that is running is running for the execution its token names.     *)
RunningIsOwned ==
  \A r \in Runs : row[r].status = "running" =>
    row[r].token \in Tokens /\ exec[row[r].token].run = r

(* A run has one result: whatever retries, requests and late workers did,  *)
(* the store accepted the result of at most one of its executions, which   *)
(* is what the fencing tokens are for.                                     *)
OneResultPerRun ==
  \A t, u \in Tokens :
    exec[t].pc = "done" /\ exec[u].pc = "done" /\ exec[t].run = exec[u].run => t = u

(* A run is only "succeeded" when the process of its last claim was seen   *)
(* to exit with code zero, and the stored output is that process's.        *)
SuccessIsHonest ==
  \A r \in Runs : row[r].status = "succeeded" =>
    LET t == row[r].token IN
    /\ t \in Tokens
    /\ exec[t].run = r /\ exec[t].pc = "done"
    /\ exec[t].outcome = "completed" /\ exec[t].proc = "ok"
    /\ row[r].output = t

(* The attempt number, which decides between a retry and "timed_out",      *)
(* counts the executions started for the run, those of resumed and         *)
(* approved runs included.                                                 *)
AttemptsAreCounted ==
  \A r \in Runs : row[r].attempt = Cardinality({t \in Tokens : exec[t].run = r})

(* A terminal run never changes again: no late worker, stale recovery or   *)
(* delayed request moves its row.                                          *)
TerminalIsFinal ==
  [][\A r \in Runs : row[r].status \in Terminal => row'[r] = row[r]]_execVars

(* A paused run does not complete: the result of the process it had when   *)
(* it was paused is not stored, however late that process is stopped.      *)
PausedNeverCompletes ==
  [][\A r \in Runs : row[r].status = "paused" =>
        row'[r].status \notin {"succeeded", "failed"}]_execVars

(* A cancellation request is never lost through a pause, a resume, a crash *)
(* or a retry: whoever executes the run next still sees it.                *)
CancellationSticks ==
  [][\A r \in Runs : row[r].cancel => row'[r].cancel]_execVars

(* A run that has ended is not queued, hence not executed, again.          *)
TerminalIsNotRequeued ==
  [][\A r \in Runs : row[r].status \in Terminal => row'[r].status # "queued"]_execVars

(* Fencing: a late worker cannot end a run that has been given to another  *)
(* one.  The row it ends carries its own token, or none.                   *)
ReassignedRunIsFenced ==
  [][\A t \in Tokens : exec[t].pc # "done" /\ exec'[t].pc = "done" =>
        RowOf(t).token \in {t, None}]_execVars
=============================================================================
