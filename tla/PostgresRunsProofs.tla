------------------------- MODULE PostgresRunsProofs -------------------------
(***************************************************************************)
(* Proofs about PostgresRuns and PostgresArchive for every set of runs,    *)
(* tokens and engines and every number of attempts: the inductive          *)
(* invariant, what a step may do to a run, the implementation of           *)
(* RunLifecycle, the count of the attempts, and what archiving leaves of   *)
(* all that.                                                               *)
(***************************************************************************)
EXTENDS PostgresArchive, FiniteSetTheorems, TLAPS

(* What each statement makes of a row.                                     *)
LEMMA RowClaimed ==
  ASSUME NEW w \in Row, NEW t \in Tokens
  PROVE  /\ ClaimedBy(w, t) \in Row
         /\ ClaimedBy(w, t).status = "running"
         /\ ClaimedBy(w, t).token = t
         /\ ClaimedBy(w, t).cancel = w.cancel
         /\ ClaimedBy(w, t).attempt = w.attempt + 1
<1>1. w.attempt + 1 \in Nat
  BY DEF Row
<1>2. ClaimedBy(w, t) \in Row
  BY <1>1, Zenon DEF Row, ClaimedBy, Status
<1>3. /\ ClaimedBy(w, t).status = "running"
      /\ ClaimedBy(w, t).token = t
      /\ ClaimedBy(w, t).cancel = w.cancel
      /\ ClaimedBy(w, t).attempt = w.attempt + 1
  BY Zenon DEF Row, ClaimedBy
<1> QED BY <1>2, <1>3

LEMMA RowBeaten ==
  ASSUME NEW w \in Row
  PROVE  /\ Beaten(w) \in Row
         /\ Beaten(w).status = w.status
         /\ Beaten(w).token = w.token
         /\ Beaten(w).cancel = w.cancel
         /\ Beaten(w).attempt = w.attempt
  BY Zenon DEF Row, Beaten

LEMMA RowFinished ==
  ASSUME NEW w \in Row, NEW t \in Tokens, NEW status \in Status
  PROVE  /\ Finished(w, status, t) \in Row
         /\ Finished(w, status, t).status = status
         /\ Finished(w, status, t).token = w.token
         /\ Finished(w, status, t).output = t
         /\ Finished(w, status, t).cancel = w.cancel
         /\ Finished(w, status, t).attempt = w.attempt
  BY Zenon DEF Row, Finished

LEMMA RowFlagged ==
  ASSUME NEW w \in Row
  PROVE  /\ Flagged(w) \in Row
         /\ Flagged(w).status = w.status
         /\ Flagged(w).token = w.token
         /\ Flagged(w).cancel
         /\ Flagged(w).attempt = w.attempt
  BY Zenon DEF Row, Flagged

LEMMA RowCancelled ==
  ASSUME NEW w \in Row
  PROVE  /\ Cancelled(w) \in Row
         /\ Cancelled(w).status = "cancelled"
         /\ Cancelled(w).token = w.token
         /\ Cancelled(w).cancel
         /\ Cancelled(w).attempt = w.attempt
  BY Zenon DEF Row, Cancelled, Status, Terminal

LEMMA RowCancelledBy ==
  ASSUME NEW w \in Row, NEW t \in Tokens
  PROVE  /\ CancelledBy(w, t) \in Row
         /\ CancelledBy(w, t).status = "cancelled"
         /\ CancelledBy(w, t).token = w.token
         /\ CancelledBy(w, t).cancel
         /\ CancelledBy(w, t).attempt = w.attempt
<1> DEFINE c == Cancelled(w)
<1>1. /\ c \in Row /\ c.status = "cancelled" /\ c.token = w.token /\ c.cancel
      /\ c.attempt = w.attempt
  BY RowCancelled
<1>2. CancelledBy(w, t) = [c EXCEPT !.output = t]
  BY DEF CancelledBy
<1> HIDE DEF c
<1> QED BY <1>1, <1>2, Zenon DEF Row

LEMMA RowPaused ==
  ASSUME NEW w \in Row
  PROVE  /\ Paused(w) \in Row
         /\ Paused(w).status = "paused"
         /\ Paused(w).cancel = w.cancel
         /\ Paused(w).attempt = w.attempt
  BY Zenon DEF Row, Paused, Status

LEMMA RowAwaiting ==
  ASSUME NEW w \in Row
  PROVE  /\ AwaitingApproval(w) \in Row
         /\ AwaitingApproval(w).status = "waiting_approval"
         /\ AwaitingApproval(w).cancel = w.cancel
         /\ AwaitingApproval(w).attempt = w.attempt
  BY Zenon DEF Row, AwaitingApproval, Status

LEMMA RowRequeued ==
  ASSUME NEW w \in Row
  PROVE  /\ Requeued(w) \in Row
         /\ Requeued(w).status = "queued"
         /\ Requeued(w).cancel = w.cancel
         /\ Requeued(w).attempt = w.attempt
  BY Zenon DEF Row, Requeued, Status

LEMMA RowAbandoned ==
  ASSUME NEW w \in Row
  PROVE  /\ Abandoned(w) \in Row
         /\ Abandoned(w).status = "timed_out"
         /\ Abandoned(w).cancel = w.cancel
         /\ Abandoned(w).attempt = w.attempt
  BY Zenon DEF Row, Abandoned, Status, Terminal

LEMMA RowRecovered ==
  ASSUME NEW w \in Row
  PROVE  /\ Recovered(w) \in Row
         /\ Recovered(w).status =
              IF w.attempt >= MaxAttempts THEN "timed_out" ELSE "queued"
         /\ Recovered(w).cancel = w.cancel
         /\ Recovered(w).attempt = w.attempt
<1>1. /\ w.attempt \in Nat
      /\ MaxAttempts \in Nat
  BY AttemptsAssumption DEF Row
<1>2. CASE w.attempt < MaxAttempts
  BY <1>1, <1>2, RowRequeued DEF Recovered
<1>3. CASE ~(w.attempt < MaxAttempts)
  BY <1>1, <1>3, RowAbandoned DEF Recovered
<1> QED BY <1>2, <1>3

LEMMA RowStale ==
  ASSUME NEW w \in Row
  PROVE  /\ [w EXCEPT !.stale = TRUE] \in Row
         /\ [w EXCEPT !.stale = TRUE].status = w.status
         /\ [w EXCEPT !.stale = TRUE].token = w.token
         /\ [w EXCEPT !.stale = TRUE].output = w.output
         /\ [w EXCEPT !.stale = TRUE].cancel = w.cancel
         /\ [w EXCEPT !.stale = TRUE].attempt = w.attempt
  BY Zenon DEF Row

(* What the steps of an execution make of it.                              *)
LEMMA ExecutionBegun ==
  ASSUME NEW r \in Runs, NEW e \in Engines
  PROVE  /\ Begun(e, r) \in Execution
         /\ Begun(e, r).run = r
         /\ Begun(e, r).pc = "start"
         /\ Begun(e, r).proc = "none"
  BY Zenon DEF Begun, Unborn, Execution, Steps

LEMMA ExecutionGone ==
  ASSUME NEW x \in Execution
  PROVE  Gone(x) \in Execution /\ Gone(x).run = x.run /\ Gone(x).pc = "gone" /\ Gone(x).proc = "none"
  BY Zenon DEF Unborn, Execution, Gone, Ends

LEMMA ExecutionGoes ==
  ASSUME NEW x \in Execution, NEW pc \in {"unborn"} \cup Steps \cup Ends
  PROVE  /\ [x EXCEPT !.pc = pc] \in Execution
         /\ [x EXCEPT !.pc = pc].run = x.run
         /\ [x EXCEPT !.pc = pc].pc = pc
         /\ [x EXCEPT !.pc = pc].proc = x.proc
         /\ [x EXCEPT !.pc = pc].outcome = x.outcome
  BY Zenon DEF Execution

LEMMA ExecutionProc ==
  ASSUME NEW x \in Execution, NEW proc \in {"none"} \cup Alive \cup Exited
  PROVE  /\ [x EXCEPT !.proc = proc] \in Execution
         /\ [x EXCEPT !.proc = proc].run = x.run
         /\ [x EXCEPT !.proc = proc].pc = x.pc
         /\ [x EXCEPT !.proc = proc].proc = proc
         /\ [x EXCEPT !.proc = proc].outcome = x.outcome
  BY Zenon DEF Execution

LEMMA ExecutionConcluded ==
  ASSUME NEW x \in Execution, NEW outcome \in Outcomes
  PROVE  /\ Concluded(x, outcome) \in Execution
         /\ Concluded(x, outcome).run = x.run
         /\ Concluded(x, outcome).pc = "finish"
         /\ Concluded(x, outcome).proc \notin Alive
<1>1. Killed(x.proc) \in {"none"} \cup Exited
  BY DEF Killed, Execution, Alive, Exited
<1>2. /\ Concluded(x, outcome) \in Execution
      /\ Concluded(x, outcome).run = x.run
      /\ Concluded(x, outcome).pc = "finish"
      /\ Concluded(x, outcome).proc = Killed(x.proc)
  BY <1>1, Zenon DEF Execution, Steps, Concluded
<1> QED BY <1>1, <1>2 DEF Alive, Exited

LEMMA ExecutionStarts ==
  ASSUME NEW x \in Execution
  PROVE  LET y == [x EXCEPT !.pc = "poll", !.proc = "running"] IN
         y \in Execution /\ y.run = x.run /\ y.pc = "poll" /\ y.proc = "running"
  BY Zenon DEF Execution, Steps, Alive

-----------------------------------------------------------------------------
(* The inductive invariant: with the type, who owns a running run, where   *)
(* accepted results are recorded, what success rests on, and the events.   *)
IInv ==
  /\ TypeOK
  /\ RunningIsOwned
  /\ ResultsAreRecorded
  /\ SuccessIsHonest
  /\ EventTellsFinalStatus

-----------------------------------------------------------------------------
(* Initially nothing is claimed, stored or announced.                      *)
LEMMA InitIInv == Init => IInv
  BY NoneAssumption, JobRunsAssumption
  DEF Init, ExecInit, IInv, TypeOK, ExecTypeOK, Row, Status, Terminal, Submitted,
      Execution, Unborn, Steps, Ends, Outcomes, Alive, Exited, RunningIsOwned,
      ResultsAreRecorded, SuccessIsHonest, EventTellsFinalStatus, Live, RowOf

(* Steps of executions, processes and engines that do not touch the table: *)
(* an execution keeps its run, and what is done stays as it is.            *)
LEMMA ExecutionsMove ==
  ASSUME IInv,
         exec' \in [Tokens -> Execution],
         stopped' \in [Engines -> BOOLEAN],
         toCancel' \in [Engines -> SUBSET Runs],
         UNCHANGED <<row, finished>>,
         \A t \in Tokens :
           /\ exec'[t].run = exec[t].run
           /\ exec'[t].pc = "done" <=> exec[t].pc = "done"
           /\ exec[t].pc = "done" => /\ exec'[t].outcome = exec[t].outcome
                                     /\ exec'[t].proc = exec[t].proc
           /\ exec'[t].pc # "unborn" => exec[t].pc # "unborn"
           /\ exec'[t].proc \in Alive => exec'[t].pc \in Polling
  PROVE  IInv'
<1>1. TypeOK'
  BY DEF IInv, TypeOK, ExecTypeOK
<1>2. RunningIsOwned'
  BY DEF IInv, RunningIsOwned
<1>3. ResultsAreRecorded'
  BY DEF IInv, ResultsAreRecorded, RowOf, Live, Polling
<1>4. SuccessIsHonest'
  BY DEF IInv, SuccessIsHonest
<1>5. EventTellsFinalStatus'
  BY DEF IInv, EventTellsFinalStatus
<1> QED BY <1>1, <1>2, <1>3, <1>4, <1>5 DEF IInv

(* The same for a step of one execution.                                   *)
LEMMA ExecutionMoves ==
  ASSUME IInv,
         NEW t \in Tokens, NEW x \in Execution,
         exec' = [exec EXCEPT ![t] = x],
         UNCHANGED <<row, stopped, toCancel, finished>>,
         exec[t].pc \in Steps,
         x.run = exec[t].run,
         x.pc \notin {"done", "unborn"},
         x.proc \in Alive => x.pc \in Polling
  PROVE  IInv'
<1>1. /\ exec \in [Tokens -> Execution]
      /\ stopped \in [Engines -> BOOLEAN]
      /\ toCancel \in [Engines -> SUBSET Runs]
  BY DEF IInv, TypeOK, ExecTypeOK
<1>2. \A u \in Tokens : exec[u].proc \in Alive => exec[u].pc \in Polling
  BY DEF IInv, ResultsAreRecorded, Live, Polling
<1>3. exec[t].pc \notin {"done", "unborn"}
  BY DEF Steps
<1> QED BY <1>1, <1>2, <1>3, ExecutionsMove

(* Steps that touch the table only: a terminal row stays, no row starts    *)
(* running, and none succeeds.                                             *)
LEMMA RowsMove ==
  ASSUME IInv,
         row' \in [Runs -> Row],
         toCancel' \in [Engines -> SUBSET Runs],
         finished' \in [Runs -> Terminal \cup {None}],
         EventTellsFinalStatus',
         UNCHANGED <<exec, stopped>>,
         \A r \in Runs :
           \/ row'[r] = row[r]
           \/ /\ row[r].status \notin Terminal
              /\ row'[r].status # "succeeded"
              /\ row'[r].status = "running" =>
                   row[r].status = "running" /\ row'[r].token = row[r].token
  PROVE  IInv'
<1>1. TypeOK'
  BY DEF IInv, TypeOK, ExecTypeOK
<1>2. RunningIsOwned'
  BY DEF IInv, RunningIsOwned
<1>3. ResultsAreRecorded'
  BY DEF IInv, ResultsAreRecorded, RowOf, Live, Polling
<1>4. SuccessIsHonest'
  BY DEF IInv, SuccessIsHonest
<1> QED BY <1>1, <1>2, <1>3, <1>4 DEF IInv

(* Runs that reach a terminal status together with their event.            *)
LEMMA Announces ==
  ASSUME IInv, NEW S \in SUBSET Runs,
         row' \in [Runs -> Row],
         RecordJobResult(S),
         \A r \in S : row[r].status \notin Terminal /\ row'[r].status \in Terminal,
         \A r \in Runs \ S : \/ row'[r].status = row[r].status
                             \/ row[r].status \notin Terminal /\ row'[r].status \notin Terminal
  PROVE  finished' \in [Runs -> Terminal \cup {None}] /\ EventTellsFinalStatus'
<1>1. finished' \in [Runs -> Terminal \cup {None}]
  BY DEF IInv, TypeOK, RecordJobResult
<1>2. ASSUME NEW r \in JobRuns
      PROVE  finished'[r] = IF row'[r].status \in Terminal THEN row'[r].status ELSE None
  <2>1. /\ r \in Runs
        /\ finished[r] = IF row[r].status \in Terminal THEN row[r].status ELSE None
    BY JobRunsAssumption DEF IInv, EventTellsFinalStatus
  <2>2. CASE r \in S
    BY <2>1, <2>2 DEF RecordJobResult
  <2>3. CASE r \notin S
    BY <2>1, <2>3 DEF RecordJobResult
  <2> QED BY <2>2, <2>3
<1> QED BY <1>1, <1>2 DEF EventTellsFinalStatus

(* Steps that let no run reach a terminal status announce nothing.         *)
LEMMA KeepsQuiet ==
  ASSUME IInv,
         UNCHANGED finished,
         \A r \in Runs : \/ row'[r].status = row[r].status
                         \/ row[r].status \notin Terminal /\ row'[r].status \notin Terminal
  PROVE  finished' \in [Runs -> Terminal \cup {None}] /\ EventTellsFinalStatus'
  BY JobRunsAssumption DEF IInv, TypeOK, EventTellsFinalStatus

-----------------------------------------------------------------------------
(* Moves of one execution: to another step, out of the loop, away.         *)
LEMMA GotoKeeps ==
  ASSUME IInv, NEW t \in Tokens, NEW pc \in Polling, exec[t].pc \in Steps, Goto(t, pc),
         UNCHANGED <<row, stopped, toCancel, finished>>
  PROVE  IInv'
<1> DEFINE x == [exec[t] EXCEPT !.pc = pc]
<1>1. exec[t] \in Execution
  BY DEF IInv, TypeOK, ExecTypeOK
<1>2. x \in Execution /\ x.run = exec[t].run /\ x.pc = pc
  BY <1>1, ExecutionGoes DEF Polling
<1>3. exec' = [exec EXCEPT ![t] = x]
  BY DEF Goto
<1>4. pc \notin {"done", "unborn"}
  BY DEF Steps, Polling
<1> HIDE DEF x
<1> QED BY <1>2, <1>3, <1>4, ExecutionMoves

LEMMA ConcludeKeeps ==
  ASSUME IInv, NEW t \in Tokens, NEW outcome \in Outcomes, exec[t].pc \in Steps,
         Conclude(t, outcome),
         UNCHANGED <<row, stopped, toCancel, finished>>
  PROVE  IInv'
<1> DEFINE x == Concluded(exec[t], outcome)
<1>1. exec[t] \in Execution
  BY DEF IInv, TypeOK, ExecTypeOK
<1>2. x \in Execution /\ x.run = exec[t].run /\ x.pc = "finish" /\ x.proc \notin Alive
  BY <1>1, ExecutionConcluded
<1>3. exec' = [exec EXCEPT ![t] = x]
  BY DEF Conclude
<1> QED BY <1>2, <1>3, ExecutionMoves

LEMMA LeaveKeeps ==
  ASSUME IInv, NEW t \in Tokens, exec[t].pc \in Steps, Leave(t),
         UNCHANGED <<row, stopped, toCancel, finished>>
  PROVE  IInv'
<1>1. exec[t] \in Execution
  BY DEF IInv, TypeOK, ExecTypeOK
<1>2. /\ Gone(exec[t]) \in Execution
      /\ Gone(exec[t]).run = exec[t].run
      /\ Gone(exec[t]).pc = "gone"
      /\ Gone(exec[t]).proc \notin Alive
  BY <1>1, ExecutionGone DEF Alive
<1>3. exec' = [exec EXCEPT ![t] = Gone(exec[t])]
  BY DEF Leave
<1> QED BY <1>2, <1>3, ExecutionMoves

-----------------------------------------------------------------------------
(* A claim gives a queued run to a token that nothing has used.            *)
LEMMA ClaimKeeps ==
  ASSUME IInv, NEW e \in Engines, NEW t \in Tokens, NEW r \in Runs,
         Claim(e, t, r), UNCHANGED finished
  PROVE  IInv'
<1> DEFINE x == Begun(e, r)
           w == ClaimedBy(row[r], t)
<1>1. /\ row' = [row EXCEPT ![r] = w]
      /\ exec' = [exec EXCEPT ![t] = x]
      /\ exec[t].run = None /\ exec[t].pc = "unborn"
      /\ row[r].status = "queued"
      /\ UNCHANGED <<stopped, toCancel>>
  BY DEF Claim, Unborn
<1>2. /\ row \in [Runs -> Row]
      /\ exec \in [Tokens -> Execution]
  BY DEF IInv, TypeOK, ExecTypeOK
<1>3. w \in Row /\ w.status = "running" /\ w.token = t
  BY <1>2, RowClaimed
<1>4. x \in Execution /\ x.run = r /\ x.pc = "start" /\ x.proc = "none"
  BY ExecutionBegun
<1> HIDE DEF x, w
<1>5. TypeOK'
  BY <1>1, <1>2, <1>3, <1>4 DEF IInv, TypeOK, ExecTypeOK
<1>6. RunningIsOwned'
  BY <1>1, <1>2, <1>3, <1>4, NoneAssumption DEF IInv, RunningIsOwned
<1>7. ResultsAreRecorded'
  BY <1>1, <1>2, <1>3, <1>4 DEF IInv, ResultsAreRecorded, RowOf, Live, Polling, Alive, Terminal, Steps
<1>8. SuccessIsHonest'
  BY <1>1, <1>2, <1>3, <1>4 DEF IInv, SuccessIsHonest
<1>9. EventTellsFinalStatus'
  BY <1>1, <1>2, <1>3, KeepsQuiet DEF Terminal
<1> QED BY <1>5, <1>6, <1>7, <1>8, <1>9 DEF IInv

(* A heartbeat touches its row, and only if the token still owns it.       *)
LEMMA HeartbeatKeeps ==
  ASSUME IInv, NEW t \in Tokens, RecordHeartbeat(t), UNCHANGED finished
  PROVE  IInv'
<1> DEFINE r == exec[t].run
           x == [exec[t] EXCEPT !.pc = "poll"]
           w == Beaten(row[r])
<1>1. /\ row \in [Runs -> Row]
      /\ exec \in [Tokens -> Execution]
      /\ exec[t].pc = "beat" /\ exec[t].pc \in Steps
      /\ r \in Runs
  BY DEF IInv, TypeOK, ExecTypeOK, RecordHeartbeat, ResultsAreRecorded, Steps
<1>2. CASE Goto(t, "recheck") /\ UNCHANGED row
  BY <1>1, <1>2, GotoKeeps DEF RecordHeartbeat, Steps, Polling
<1>3. CASE Owns(row[r], t) /\ row' = [row EXCEPT ![r] = w] /\ Goto(t, "poll")
  <2>1. x \in Execution /\ x.run = r /\ x.pc = "poll" /\ x.proc = exec[t].proc
    BY <1>1, ExecutionGoes DEF Steps
  <2>2. w \in Row /\ w.status = row[r].status /\ w.token = row[r].token
    BY <1>1, RowBeaten
  <2>3. exec' = [exec EXCEPT ![t] = x] /\ row' = [row EXCEPT ![r] = w]
    BY <1>3 DEF Goto
  <2>4. UNCHANGED <<stopped, toCancel, finished>> /\ row[r].status = "running"
    BY <1>1, <1>3 DEF RecordHeartbeat, Owns, RowOf
  <2> HIDE DEF x, w, r
  <2>5. TypeOK'
    BY <1>1, <2>1, <2>2, <2>3, <2>4 DEF IInv, TypeOK, ExecTypeOK
  <2>6. RunningIsOwned'
    BY <1>1, <2>1, <2>2, <2>3, <2>4 DEF IInv, RunningIsOwned, r
  <2>7. ResultsAreRecorded'
    BY <1>1, <2>1, <2>2, <2>3, <2>4 DEF IInv, ResultsAreRecorded, RowOf, Live, Polling, Steps, Polling, r
  <2>8. SuccessIsHonest'
    BY <1>1, <2>1, <2>2, <2>3, <2>4 DEF IInv, SuccessIsHonest, r
  <2>9. EventTellsFinalStatus'
    BY <1>1, <2>2, <2>3, <2>4, KeepsQuiet
  <2> QED BY <2>5, <2>6, <2>7, <2>8, <2>9 DEF IInv
<1> QED BY <1>2, <1>3 DEF RecordHeartbeat, RowOf

(* Steps of the executor's thread.                                         *)
LEMMA ExecutorKeeps ==
  ASSUME IInv, NEW t \in Tokens, ExecutorStep(t), UNCHANGED finished
  PROVE  IInv'
<1> USE DEF Polling, Steps, Outcomes
<1>1. CASE StartProcess(t)
  <2> DEFINE x == [exec[t] EXCEPT !.pc = "poll", !.proc = "running"]
  <2>1. exec[t] \in Execution
    BY DEF IInv, TypeOK, ExecTypeOK
  <2>2. x \in Execution /\ x.run = exec[t].run /\ x.pc = "poll" /\ x.proc = "running"
    BY <2>1, ExecutionStarts
  <2>3. exec' = [exec EXCEPT ![t] = x]
    BY <1>1 DEF StartProcess
  <2> HIDE DEF x
  <2> QED BY <1>1, <2>2, <2>3, ExecutionMoves DEF StartProcess
<1>2. CASE StartFails(t)
  BY <1>2, ConcludeKeeps DEF StartFails
<1>3. CASE Poll(t)
  <2>1. exec[t].pc \in Steps /\ UNCHANGED <<row, stopped, toCancel, finished>>
    BY <1>3 DEF Poll
  <2>2. CASE Conclude(t, "completed") \/ Conclude(t, "timed_out")
    BY <2>1, <2>2, ConcludeKeeps
  <2>3. CASE Goto(t, "cancelCheck")
    BY <2>1, <2>3, GotoKeeps
  <2> QED BY <1>3, <2>2, <2>3 DEF Poll
<1>4. CASE CheckCancellation(t)
  BY <1>4, ConcludeKeeps, GotoKeeps DEF CheckCancellation
<1>5. CASE CheckPause(t)
  BY <1>5, ConcludeKeeps, GotoKeeps DEF CheckPause
<1>6. CASE HeartbeatNotDue(t)
  BY <1>6, GotoKeeps DEF HeartbeatNotDue
<1>7. CASE RecordHeartbeat(t)
  BY <1>7, HeartbeatKeeps
<1>8. CASE RecheckPause(t)
  BY <1>8, ConcludeKeeps DEF RecheckPause
<1>9. CASE LeavePaused(t)
  BY <1>9, LeaveKeeps DEF LeavePaused
<1> QED BY <1>1, <1>2, <1>3, <1>4, <1>5, <1>6, <1>7, <1>8, <1>9 DEF ExecutorStep

(* A process exits or becomes overdue.                                     *)
LEMMA ProcessKeeps ==
  ASSUME IInv, NEW t \in Tokens, NEW proc \in {"ok", "bad", "overdue"},
         exec[t].proc \in Alive,
         exec' = [exec EXCEPT ![t].proc = proc],
         UNCHANGED <<row, stopped, toCancel, finished>>
  PROVE  IInv'
<1> DEFINE x == [exec[t] EXCEPT !.proc = proc]
<1>1. exec[t] \in Execution /\ exec[t].pc \in Polling
  BY DEF IInv, TypeOK, ExecTypeOK, ResultsAreRecorded
<1>2. x \in Execution /\ x.run = exec[t].run /\ x.pc = exec[t].pc
  BY <1>1, ExecutionProc DEF Alive, Exited
<1>3. exec' = [exec EXCEPT ![t] = x]
  OBVIOUS
<1> HIDE DEF x
<1> QED BY <1>1, <1>2, <1>3, ExecutionMoves DEF Polling, Steps

(* An engine stops, with its processes, or crashes, with its threads too.  *)
LEMMA StopKeeps ==
  ASSUME IInv, NEW e \in Engines, StopWorker(e), UNCHANGED finished
  PROVE  IInv'
<1> DEFINE X(t) == IF exec[t].engine = e THEN [exec[t] EXCEPT !.proc = Killed(@)] ELSE exec[t]
<1>1. /\ exec' = [t \in Tokens |-> X(t)]
      /\ stopped' = [stopped EXCEPT ![e] = TRUE]
      /\ UNCHANGED <<row, finished>>
  BY DEF StopWorker
<1>2. toCancel' \in [Engines -> SUBSET Runs]
  <2>1. PICK S \in SUBSET {exec[t].run : t \in {u \in Tokens : Live(u) /\ exec[u].engine = e}} :
          toCancel' = [toCancel EXCEPT ![e] = S]
    BY DEF StopWorker
  <2>2. S \subseteq Runs
    BY DEF IInv, ResultsAreRecorded, Live, Steps
  <2> QED BY <2>1, <2>2 DEF IInv, TypeOK, ExecTypeOK
<1>3. ASSUME NEW t \in Tokens
      PROVE  /\ X(t) \in Execution
             /\ X(t).run = exec[t].run
             /\ X(t).pc = exec[t].pc
             /\ X(t).proc \in Alive => exec[t].proc \in Alive
             /\ exec[t].pc = "done" => X(t).proc = exec[t].proc /\ X(t).outcome = exec[t].outcome
  <2>1. /\ exec[t] \in Execution
        /\ exec[t].pc = "done" => exec[t].proc \notin Alive
    BY DEF IInv, TypeOK, ExecTypeOK, ResultsAreRecorded, Polling, Steps
  <2>2. /\ Killed(exec[t].proc) \in {"none"} \cup Exited
        /\ exec[t].proc \notin Alive => Killed(exec[t].proc) = exec[t].proc
    BY <2>1 DEF Killed, Execution, Alive, Exited
  <2>3. CASE exec[t].engine = e
    <3> DEFINE k == Killed(exec[t].proc)
               y == [exec[t] EXCEPT !.proc = k]
    <3>1. X(t) = y
      BY <2>3
    <3>2. k \in {"none"} \cup Alive \cup Exited
      BY <2>2
    <3> HIDE DEF k, X
    <3>3. /\ y \in Execution /\ y.run = exec[t].run /\ y.pc = exec[t].pc
          /\ y.proc = k /\ y.outcome = exec[t].outcome
      BY <2>1, <3>2, ExecutionProc
    <3> HIDE DEF y
    <3> QED BY <2>1, <2>2, <3>1, <3>3 DEF k, Alive, Exited
  <2>4. CASE exec[t].engine # e
    BY <2>1, <2>4
  <2> QED BY <2>3, <2>4
<1> HIDE DEF X
<1>4. /\ stopped' \in [Engines -> BOOLEAN]
      /\ \A t \in Tokens : exec[t].proc \in Alive => exec[t].pc \in Polling
  BY <1>1 DEF IInv, TypeOK, ExecTypeOK, ResultsAreRecorded
<1> QED BY <1>1, <1>2, <1>3, <1>4, ExecutionsMove

LEMMA CrashKeeps ==
  ASSUME IInv, NEW e \in Engines, Crash(e), UNCHANGED finished
  PROVE  IInv'
<1> DEFINE X(t) == IF exec[t].engine = e /\ Live(t) THEN Gone(exec[t]) ELSE exec[t]
<1>1. /\ exec' = [t \in Tokens |-> X(t)]
      /\ stopped' \in [Engines -> BOOLEAN]
      /\ toCancel' \in [Engines -> SUBSET Runs]
      /\ UNCHANGED <<row, finished>>
  BY DEF Crash, IInv, TypeOK, ExecTypeOK
<1>2. ASSUME NEW t \in Tokens
      PROVE  /\ X(t) \in Execution
             /\ X(t).run = exec[t].run
             /\ X(t) = exec[t] \/ /\ exec[t].pc \in Steps
                                  /\ X(t).pc = "gone"
                                  /\ X(t).proc = "none"
  BY ExecutionGone DEF IInv, TypeOK, ExecTypeOK, Live
<1> HIDE DEF X
<1>3. \A t \in Tokens : exec[t].proc \in Alive => exec[t].pc \in Polling
  BY DEF IInv, ResultsAreRecorded
<1> QED BY <1>1, <1>2, <1>3, ExecutionsMove DEF Steps, Alive

-----------------------------------------------------------------------------
(* An accepted result: the row becomes terminal under the owner's token.   *)
LEMMA AcceptKeeps ==
  ASSUME IInv, NEW t \in Tokens, NEW r, r = exec[t].run, NEW w \in Row,
         exec[t].pc = "finish",
         Owns(row[r], t),
         row' = [row EXCEPT ![r] = w],
         w.status \in Terminal, w.token = t,
         w.status = "succeeded" =>
           exec[t].outcome = "completed" /\ exec[t].proc = "ok" /\ w.output = t,
         Goto(t, "done"),
         RecordJobResult({r}),
         UNCHANGED <<stopped, toCancel>>
  PROVE  IInv'
<1> DEFINE x == [exec[t] EXCEPT !.pc = "done"]
<1>1. /\ row \in [Runs -> Row]
      /\ exec \in [Tokens -> Execution]
      /\ r \in Runs
      /\ row[r].status = "running" /\ row[r].token = t
  BY DEF IInv, TypeOK, ExecTypeOK, ResultsAreRecorded, Owns
<1>2. x \in Execution /\ x.run = r /\ x.pc = "done" /\ x.proc = exec[t].proc
        /\ x.outcome = exec[t].outcome
  BY <1>1, ExecutionGoes DEF Ends
<1>3. exec' = [exec EXCEPT ![t] = x]
  BY DEF Goto
<1>4. exec[t].proc \notin Alive
  BY DEF IInv, ResultsAreRecorded, Polling
<1> HIDE DEF x
<1>5. row' \in [Runs -> Row] /\ {r} \in SUBSET Runs
  BY <1>1
<1>6. finished' \in [Runs -> Terminal \cup {None}] /\ EventTellsFinalStatus'
  BY <1>1, <1>5, Announces DEF Terminal
<1>7. TypeOK'
  BY <1>1, <1>2, <1>3, <1>5, <1>6 DEF IInv, TypeOK, ExecTypeOK
<1>8. RunningIsOwned'
  BY <1>1, <1>2, <1>3 DEF IInv, RunningIsOwned, Terminal
<1>9. ResultsAreRecorded'
  BY <1>1, <1>2, <1>3, <1>4 DEF IInv, ResultsAreRecorded, RowOf, Terminal, Polling
<1>10. SuccessIsHonest'
  BY <1>1, <1>2, <1>3 DEF IInv, SuccessIsHonest
<1> QED BY <1>6, <1>7, <1>8, <1>9, <1>10 DEF IInv

LEMMA StoreKeeps ==
  ASSUME IInv, NEW t \in Tokens, StoreResult(t)
  PROVE  IInv'
<1> DEFINE r == exec[t].run
           w == Finished(row[r], FinalStatus(exec[t]), t)
<1>1. /\ exec[t].pc = "finish" /\ exec[t].pc \in Steps
      /\ r \in Runs /\ row[r] \in Row
  BY DEF StoreResult, Steps, IInv, TypeOK, ExecTypeOK, ResultsAreRecorded
<1>2. CASE Owns(row[r], t)
  <2>1. /\ FinalStatus(exec[t]) \in Terminal \cap Status
        /\ FinalStatus(exec[t]) = "succeeded" =>
             exec[t].outcome = "completed" /\ exec[t].proc = "ok"
    BY DEF FinalStatus, Terminal, Status
  <2>2. /\ w \in Row /\ w.status = FinalStatus(exec[t])
        /\ w.token = row[r].token /\ w.output = t
    BY <1>1, <2>1, RowFinished
  <2>3. /\ row' = [row EXCEPT ![r] = w]
        /\ Goto(t, "done") /\ RecordJobResult({r}) /\ UNCHANGED <<stopped, toCancel>>
    BY <1>2 DEF StoreResult
  <2> HIDE DEF w
  <2> QED BY <1>1, <1>2, <2>1, <2>2, <2>3, AcceptKeeps DEF Owns
<1>3. CASE ~Owns(row[r], t)
  BY <1>1, <1>3, LeaveKeeps DEF StoreResult
<1> QED BY <1>2, <1>3

LEMMA ConfirmKeeps ==
  ASSUME IInv, NEW t \in Tokens, ConfirmCancellation(t)
  PROVE  IInv'
<1> DEFINE r == exec[t].run
           w == CancelledBy(row[r], t)
<1>1. /\ exec[t].pc = "finish" /\ exec[t].pc \in Steps
      /\ r \in Runs /\ row[r] \in Row
  BY DEF ConfirmCancellation, Steps, IInv, TypeOK, ExecTypeOK, ResultsAreRecorded
<1>2. CASE Owns(row[r], t)
  <2>1. w \in Row /\ w.status = "cancelled" /\ w.token = row[r].token
    BY <1>1, RowCancelledBy
  <2>2. /\ row' = [row EXCEPT ![r] = w]
        /\ Goto(t, "done") /\ RecordJobResult({r}) /\ UNCHANGED <<stopped, toCancel>>
    BY <1>2 DEF ConfirmCancellation
  <2> HIDE DEF w
  <2> QED BY <1>1, <1>2, <2>1, <2>2, AcceptKeeps DEF Owns, Terminal
<1>3. CASE ~Owns(row[r], t)
  BY <1>1, <1>3, LeaveKeeps DEF ConfirmCancellation
<1> QED BY <1>2, <1>3

-----------------------------------------------------------------------------
(* Requests, and the calls stop_worker makes for the runs it noted.        *)
LEMMA RowMoves ==
  ASSUME IInv, NEW r \in Runs, NEW w \in Row,
         row' = [row EXCEPT ![r] = w],
         row[r].status \notin Terminal, w.status \notin Terminal,
         w.status = "running" => row[r].status = "running" /\ w.token = row[r].token,
         toCancel' \in [Engines -> SUBSET Runs],
         UNCHANGED <<exec, stopped, finished>>
  PROVE  IInv'
<1>1. row \in [Runs -> Row] /\ row' \in [Runs -> Row]
  BY DEF IInv, TypeOK, ExecTypeOK
<1>2. finished' \in [Runs -> Terminal \cup {None}] /\ EventTellsFinalStatus'
  BY <1>1, KeepsQuiet
<1> QED BY <1>1, <1>2, RowsMove DEF Terminal

LEMMA CancelKeeps ==
  ASSUME IInv, NEW r \in Runs, CancelRun(r),
         toCancel' \in [Engines -> SUBSET Runs],
         UNCHANGED <<exec, stopped>>
  PROVE  IInv'
<1>1. row \in [Runs -> Row] /\ row[r] \in Row
  BY DEF IInv, TypeOK, ExecTypeOK
<1>2. CASE row[r].status \in Terminal
  <2>1. UNCHANGED <<row, finished>>
    BY <1>2 DEF CancelRun
  <2>2. finished' \in [Runs -> Terminal \cup {None}] /\ EventTellsFinalStatus'
    BY <2>1, KeepsQuiet
  <2> QED BY <1>1, <2>1, <2>2, RowsMove
<1>3. CASE row[r].status \in Parked
  <2> DEFINE w == Cancelled(row[r])
  <2>1. w \in Row /\ w.status = "cancelled"
    BY <1>1, RowCancelled
  <2>2. row' = [row EXCEPT ![r] = w] /\ RecordJobResult({r}) /\ row[r].status \notin Terminal
    BY <1>3 DEF CancelRun, Parked, Terminal
  <2> HIDE DEF w
  <2>3. row' \in [Runs -> Row] /\ {r} \in SUBSET Runs
    BY <1>1, <2>1, <2>2
  <2>4. finished' \in [Runs -> Terminal \cup {None}] /\ EventTellsFinalStatus'
    BY <1>1, <2>1, <2>2, <2>3, Announces DEF Terminal
  <2> QED BY <1>1, <2>1, <2>2, <2>3, <2>4, RowsMove
<1>4. CASE row[r].status \notin Terminal \cup Parked
  <2> DEFINE w == Flagged(row[r])
  <2>1. w \in Row /\ w.status = row[r].status /\ w.token = row[r].token
    BY <1>1, RowFlagged
  <2>2. row' = [row EXCEPT ![r] = w] /\ UNCHANGED finished
    BY <1>4 DEF CancelRun
  <2> HIDE DEF w
  <2> QED BY <1>4, <2>1, <2>2, RowMoves
<1> QED BY <1>2, <1>3, <1>4

LEMMA ParkKeeps ==
  ASSUME IInv, NEW r \in Runs, PauseRun(r) \/ ResumeRun(r) \/ ApproveRun(r)
  PROVE  IInv'
<1>1. row[r] \in Row /\ toCancel' \in [Engines -> SUBSET Runs]
  BY DEF IInv, TypeOK, ExecTypeOK, PauseRun, ResumeRun, ApproveRun
<1>2. CASE PauseRun(r)
  <2>1. Paused(row[r]) \in Row /\ Paused(row[r]).status = "paused"
    BY <1>1, RowPaused
  <2> QED BY <1>1, <1>2, <2>1, RowMoves DEF PauseRun, Pausable, Terminal
<1>3. CASE ResumeRun(r) \/ ApproveRun(r)
  <2>1. Requeued(row[r]) \in Row /\ Requeued(row[r]).status = "queued"
    BY <1>1, RowRequeued
  <2> QED BY <1>1, <1>3, <2>1, RowMoves DEF ResumeRun, ApproveRun, Terminal
<1> QED BY <1>2, <1>3

LEMMA AwaitKeeps ==
  ASSUME IInv, NEW t \in Tokens, RequestApproval(t)
  PROVE  IInv'
<1> DEFINE r == exec[t].run
<1>1. /\ r \in Runs /\ row[r] \in Row /\ row[r].status = "running"
      /\ toCancel' \in [Engines -> SUBSET Runs]
  BY DEF IInv, TypeOK, ExecTypeOK, ResultsAreRecorded, RequestApproval, Owns, RowOf, Live, Steps
<1>2. /\ AwaitingApproval(row[r]) \in Row
      /\ AwaitingApproval(row[r]).status = "waiting_approval"
  BY <1>1, RowAwaiting
<1> QED BY <1>1, <1>2, RowMoves DEF RequestApproval, Terminal

LEMMA ExpireKeeps ==
  ASSUME IInv, NEW r \in Runs, HeartbeatExpires(r), UNCHANGED finished
  PROVE  IInv'
<1> DEFINE w == [row[r] EXCEPT !.stale = TRUE]
<1>1. row[r] \in Row /\ toCancel' \in [Engines -> SUBSET Runs]
  BY DEF IInv, TypeOK, ExecTypeOK, HeartbeatExpires
<1>2. w \in Row /\ w.status = row[r].status /\ w.token = row[r].token
  BY <1>1, RowStale
<1>3. row' = [row EXCEPT ![r] = w] /\ row[r].status = "running"
  BY DEF HeartbeatExpires
<1> HIDE DEF w
<1> QED BY <1>1, <1>2, <1>3, RowMoves DEF HeartbeatExpires, Terminal

(* The recovery requeues stale runs, or times them out with their event.   *)
LEMMA RecoverKeeps ==
  ASSUME IInv, Recover
  PROVE  IInv'
<1>1. PICK S \in SUBSET {r \in Runs : Expired(row[r])} :
        /\ row' = [r \in Runs |-> IF r \in S THEN Recovered(row[r]) ELSE row[r]]
        /\ RecordJobResult({r \in S : row[r].attempt >= MaxAttempts})
        /\ UNCHANGED <<exec, stopped, toCancel>>
  BY DEF Recover
<1> DEFINE D == {r \in S : row[r].attempt >= MaxAttempts}
<1>2. ASSUME NEW r \in Runs
      PROVE  /\ row[r] \in Row
             /\ row'[r] \in Row
             /\ r \notin S => row'[r] = row[r]
             /\ r \in S => row[r].status = "running"
             /\ r \in D => row'[r].status = "timed_out"
             /\ r \in S \ D => row'[r].status = "queued"
  <2>1. row[r] \in Row
    BY DEF IInv, TypeOK, ExecTypeOK
  <2>2. row'[r] = IF r \in S THEN Recovered(row[r]) ELSE row[r]
    BY <1>1
  <2>3. r \in S => row[r].status = "running"
    BY DEF Expired
  <2> QED BY <2>1, <2>2, <2>3, RowRecovered
<1>3. /\ D \in SUBSET Runs
      /\ RecordJobResult(D)
      /\ row' \in [Runs -> Row]
      /\ toCancel' \in [Engines -> SUBSET Runs]
      /\ UNCHANGED <<exec, stopped>>
  BY <1>1, <1>2 DEF IInv, TypeOK, ExecTypeOK
<1> HIDE DEF D
<1>4. finished' \in [Runs -> Terminal \cup {None}] /\ EventTellsFinalStatus'
  BY <1>2, <1>3, Announces DEF Terminal, D
<1> QED BY <1>2, <1>3, <1>4, RowsMove DEF Terminal

-----------------------------------------------------------------------------
(* Every action of the specification, one step each.                       *)
LEMMA StepIInv == IInv /\ [Next]_vars => IInv'
<1> SUFFICES ASSUME IInv, [Next]_vars
             PROVE  IInv'
  OBVIOUS
<1>1. CASE UNCHANGED vars
  <2>1. UNCHANGED <<row, exec, stopped, toCancel, finished>>
    BY <1>1 DEF vars
  <2> QED BY <2>1, Zenon DEF IInv, TypeOK, ExecTypeOK, RunningIsOwned, ResultsAreRecorded,
             RowOf, SuccessIsHonest, EventTellsFinalStatus
<1>2. CASE ExecNext /\ UNCHANGED finished
  <2>1. ASSUME NEW e \in Engines, NEW t \in Tokens, NEW r \in Runs, Claim(e, t, r)
        PROVE  IInv'
    BY <1>2, <2>1, ClaimKeeps
  <2>2. ASSUME NEW t \in Tokens, ExecutorStep(t)
        PROVE  IInv'
    BY <1>2, <2>2, ExecutorKeeps
  <2>3. ASSUME NEW t \in Tokens, NEW how \in {"ok", "bad"}, ProcessExits(t, how)
        PROVE  IInv'
    BY <1>2, <2>3, ProcessKeeps DEF ProcessExits
  <2>4. ASSUME NEW t \in Tokens, DeadlinePasses(t)
        PROVE  IInv'
    BY <1>2, <2>4, ProcessKeeps DEF DeadlinePasses, Alive
  <2>5. ASSUME NEW t \in Tokens, NeverDispatched(t) \/ ResultIsLost(t)
        PROVE  IInv'
    BY <1>2, <2>5, LeaveKeeps DEF NeverDispatched, ResultIsLost, Steps
  <2>6. ASSUME NEW t \in Tokens, CallbackRaises(t)
        PROVE  IInv'
    BY <1>2, <2>6, ConcludeKeeps DEF CallbackRaises, Steps, Outcomes
  <2>7. ASSUME NEW r \in Runs, HeartbeatExpires(r)
        PROVE  IInv'
    BY <1>2, <2>7, ExpireKeeps
  <2>8. ASSUME NEW e \in Engines, StopWorker(e)
        PROVE  IInv'
    BY <1>2, <2>8, StopKeeps
  <2>9. ASSUME NEW e \in Engines, StartWorker(e)
        PROVE  IInv'
    BY <1>2, <2>9, ExecutionsMove
       DEF StartWorker, IInv, TypeOK, ExecTypeOK, ResultsAreRecorded
  <2> QED BY <1>2, <2>1, <2>2, <2>3, <2>4, <2>5, <2>6, <2>7, <2>8, <2>9 DEF ExecNext
<1>3. ASSUME NEW e \in Engines, Crash(e), UNCHANGED finished
      PROVE  IInv'
  BY <1>3, CrashKeeps
<1>4. ASSUME NEW t \in Tokens, StoreResult(t) \/ ConfirmCancellation(t) \/ RequestApproval(t)
      PROVE  IInv'
  BY <1>4, StoreKeeps, ConfirmKeeps, AwaitKeeps
<1>5. ASSUME NEW r \in Runs, Request(r)
      PROVE  IInv'
  <2>1. CASE RequestCancellation(r)
    BY <2>1, CancelKeeps DEF RequestCancellation, IInv, TypeOK, ExecTypeOK
  <2>2. CASE PauseRun(r) \/ ResumeRun(r) \/ ApproveRun(r)
    BY <2>2, ParkKeeps
  <2> QED BY <1>5, <2>1, <2>2 DEF Request
<1>6. CASE Recover
  BY <1>6, RecoverKeeps
<1>7. ASSUME NEW e \in Engines, NEW r \in Runs, StopCancels(e, r)
      PROVE  IInv'
  <2>1. toCancel' \in [Engines -> SUBSET Runs]
    BY <1>7 DEF StopCancels, IInv, TypeOK, ExecTypeOK
  <2> QED BY <1>7, <2>1, CancelKeeps DEF StopCancels
<1> QED BY <1>1, <1>2, <1>3, <1>4, <1>5, <1>6, <1>7 DEF Next

THEOREM AlwaysIInv == Spec => []IInv
  BY InitIInv, StepIInv, PTL DEF Spec

(* Every reachable state has the declared types.                           *)
THEOREM TypeCorrect == Spec => []TypeOK
<1>1. IInv => TypeOK
  BY DEF IInv
<1> QED BY <1>1, AlwaysIInv, PTL

(* A running run belongs to the execution its token names.                 *)
THEOREM AlwaysOwned == Spec => []RunningIsOwned
<1>1. IInv => RunningIsOwned
  BY DEF IInv
<1> QED BY <1>1, AlwaysIInv, PTL

(* Accepted results stay recorded under their token, the argument behind   *)
(* the fencing of late workers.                                            *)
THEOREM AlwaysRecorded == Spec => []ResultsAreRecorded
<1>1. IInv => ResultsAreRecorded
  BY DEF IInv
<1> QED BY <1>1, AlwaysIInv, PTL

(* No run has two accepted results: both tokens would be the row's.        *)
THEOREM AtMostOneResult == Spec => []OneResultPerRun
<1>1. IInv => OneResultPerRun
  BY DEF IInv, ResultsAreRecorded, OneResultPerRun, RowOf
<1> QED BY <1>1, AlwaysIInv, PTL

(* "succeeded" rests on an exit code of zero seen by the row's owner.      *)
THEOREM AlwaysHonest == Spec => []SuccessIsHonest
<1>1. IInv => SuccessIsHonest
  BY DEF IInv
<1> QED BY <1>1, AlwaysIInv, PTL

(* A job's event and its final status come together and agree.             *)
THEOREM AlwaysAnnounced == Spec => []EventTellsFinalStatus
<1>1. IInv => EventTellsFinalStatus
  BY DEF IInv
<1> QED BY <1>1, AlwaysIInv, PTL

-----------------------------------------------------------------------------
(* The edge a row may take in one step, and what it keeps meanwhile.       *)
Advances(w, v) ==
  /\ w.status \notin Terminal
  /\ v.status = w.status \/ <<w.status, v.status>> \in Lifecycle!Moves
  /\ w.cancel => v.cancel

(* What any step but a claim may make of a row.                            *)
Continues(w, v) == v = w \/ (Advances(w, v) /\ v.attempt = w.attempt)

(* The edges the operations of the store use.                              *)
LEMMA Edges ==
  /\ <<"queued", "running">> \in Lifecycle!Moves
  /\ \A s \in Terminal : <<"running", s>> \in Lifecycle!Moves
  /\ <<"running", "queued">> \in Lifecycle!Moves
  /\ <<"running", "waiting_approval">> \in Lifecycle!Moves
  /\ \A s \in Parked : <<s, "cancelled">> \in Lifecycle!Moves
  /\ \A s \in Pausable : <<s, "paused">> \in Lifecycle!Moves
  /\ \A s \in {"paused", "waiting_approval"} : <<s, "queued">> \in Lifecycle!Moves
  BY DEF Lifecycle!Moves, Lifecycle!StateMachine, Lifecycle!Terminal, Terminal, Parked, Pausable

LEMMA CancelAdvances ==
  ASSUME IInv, NEW q \in Runs, CancelRun(q), NEW r \in Runs
  PROVE  Continues(row[r], row'[r])
<1>1. row \in [Runs -> Row] /\ row[q] \in Row
  BY DEF IInv, TypeOK, ExecTypeOK
<1>2. /\ Cancelled(row[q]).status = "cancelled" /\ Cancelled(row[q]).cancel
      /\ Cancelled(row[q]).attempt = row[q].attempt
  BY <1>1, RowCancelled
<1>3. /\ Flagged(row[q]).status = row[q].status /\ Flagged(row[q]).cancel
      /\ Flagged(row[q]).attempt = row[q].attempt
  BY <1>1, RowFlagged
<1> QED BY <1>1, <1>2, <1>3, Edges DEF CancelRun, Continues, Advances, Parked, Terminal

LEMMA StoreAdvances ==
  ASSUME IInv, NEW t \in Tokens, StoreResult(t) \/ ConfirmCancellation(t), NEW r \in Runs
  PROVE  Continues(row[r], row'[r])
<1> DEFINE q == exec[t].run
<1>1. row \in [Runs -> Row] /\ q \in Runs /\ row[q] \in Row
  BY DEF IInv, TypeOK, ExecTypeOK, ResultsAreRecorded, StoreResult, ConfirmCancellation
<1>2. CASE StoreResult(t) /\ Owns(row[q], t)
  <2> DEFINE w == Finished(row[q], FinalStatus(exec[t]), t)
  <2>1. FinalStatus(exec[t]) \in Terminal \cap Status
    BY DEF FinalStatus, Terminal, Status
  <2>2. w.status \in Terminal /\ w.cancel = row[q].cancel /\ w.attempt = row[q].attempt
    BY <1>1, <2>1, RowFinished
  <2>3. row' = [row EXCEPT ![q] = w] /\ row[q].status = "running"
    BY <1>2 DEF StoreResult, Owns
  <2> HIDE DEF w
  <2> QED BY <1>1, <2>2, <2>3, Edges DEF Continues, Advances, Terminal
<1>3. CASE ConfirmCancellation(t) /\ Owns(row[q], t)
  <2> DEFINE w == CancelledBy(row[q], t)
  <2>1. w.status = "cancelled" /\ w.cancel /\ w.attempt = row[q].attempt
    BY <1>1, RowCancelledBy
  <2>2. row' = [row EXCEPT ![q] = w] /\ row[q].status = "running"
    BY <1>3 DEF ConfirmCancellation, Owns
  <2> HIDE DEF w
  <2> QED BY <1>1, <2>1, <2>2, Edges DEF Continues, Advances, Terminal
<1> QED BY <1>2, <1>3 DEF StoreResult, ConfirmCancellation, Continues

LEMMA ClaimAdvances ==
  ASSUME IInv, NEW e \in Engines, NEW t \in Tokens, NEW q \in Runs, Claim(e, t, q), NEW r \in Runs
  PROVE  /\ r # q => row'[r] = row[r]
         /\ r = q => Advances(row[r], row'[r]) /\ row'[r].attempt = row[r].attempt + 1
<1> DEFINE w == ClaimedBy(row[q], t)
<1>1. row \in [Runs -> Row]
  BY DEF IInv, TypeOK, ExecTypeOK
<1>2. w.status = "running" /\ w.cancel = row[q].cancel /\ w.attempt = row[q].attempt + 1
  BY <1>1, RowClaimed
<1>3. row' = [row EXCEPT ![q] = w] /\ row[q].status = "queued"
  BY DEF Claim
<1> HIDE DEF w
<1> QED BY <1>1, <1>2, <1>3, Edges DEF Advances, Terminal

Claiming == \E e \in Engines, t \in Tokens, r \in Runs : Claim(e, t, r)

LEMMA ExecAdvances ==
  ASSUME IInv, ExecNext, ~Claiming, NEW r \in Runs
  PROVE  Continues(row[r], row'[r])
<1>1. row \in [Runs -> Row]
  BY DEF IInv, TypeOK, ExecTypeOK
<1>3. ASSUME NEW t \in Tokens, RecordHeartbeat(t)
      PROVE  Continues(row[r], row'[r])
  <2> DEFINE q == exec[t].run
             w == Beaten(row[q])
  <2>1. q \in Runs
    BY <1>3 DEF IInv, ResultsAreRecorded, RecordHeartbeat
  <2>2. w.status = row[q].status /\ w.cancel = row[q].cancel /\ w.attempt = row[q].attempt
    BY <1>1, <2>1, RowBeaten
  <2>3. \/ UNCHANGED row
        \/ row' = [row EXCEPT ![q] = w] /\ row[q].status = "running"
    BY <1>3 DEF RecordHeartbeat, Owns, RowOf
  <2> HIDE DEF w
  <2> QED BY <1>1, <2>2, <2>3 DEF Continues, Advances, Terminal
<1>4. ASSUME NEW q \in Runs, HeartbeatExpires(q)
      PROVE  Continues(row[r], row'[r])
  <2> DEFINE w == [row[q] EXCEPT !.stale = TRUE]
  <2>1. w.status = row[q].status /\ w.cancel = row[q].cancel /\ w.attempt = row[q].attempt
    BY <1>1, RowStale
  <2>2. row' = [row EXCEPT ![q] = w] /\ row[q].status = "running"
    BY <1>4 DEF HeartbeatExpires
  <2> HIDE DEF w
  <2> QED BY <1>1, <2>1, <2>2 DEF Continues, Advances, Terminal
<1> QED
  BY <1>3, <1>4
  DEF Claiming, Continues, ExecNext, ExecutorStep, StartProcess, StartFails, Poll, CheckCancellation, CheckPause,
      HeartbeatNotDue, RecheckPause, LeavePaused, ProcessExits, NeverDispatched,
      DeadlinePasses, CallbackRaises, ResultIsLost, StopWorker, StartWorker

LEMMA ParkAdvances ==
  ASSUME IInv, NEW q \in Runs, PauseRun(q) \/ ResumeRun(q) \/ ApproveRun(q), NEW r \in Runs
  PROVE  Continues(row[r], row'[r])
<1>1. row \in [Runs -> Row] /\ row[q] \in Row
  BY DEF IInv, TypeOK, ExecTypeOK
<1>2. /\ Paused(row[q]).status = "paused" /\ Paused(row[q]).cancel = row[q].cancel
      /\ Paused(row[q]).attempt = row[q].attempt
  BY <1>1, RowPaused
<1>3. /\ Requeued(row[q]).status = "queued" /\ Requeued(row[q]).cancel = row[q].cancel
      /\ Requeued(row[q]).attempt = row[q].attempt
  BY <1>1, RowRequeued
<1> QED BY <1>1, <1>2, <1>3, Edges
        DEF PauseRun, ResumeRun, ApproveRun, Continues, Advances, Pausable, Terminal

LEMMA AwaitAdvances ==
  ASSUME IInv, NEW t \in Tokens, RequestApproval(t), NEW r \in Runs
  PROVE  Continues(row[r], row'[r])
<1> DEFINE q == exec[t].run
<1>1. row \in [Runs -> Row] /\ q \in Runs /\ row[q].status = "running"
  BY DEF IInv, TypeOK, ExecTypeOK, ResultsAreRecorded, RequestApproval, Live, Steps, Owns, RowOf
<1>2. /\ AwaitingApproval(row[q]).status = "waiting_approval"
      /\ AwaitingApproval(row[q]).cancel = row[q].cancel
      /\ AwaitingApproval(row[q]).attempt = row[q].attempt
  BY <1>1, RowAwaiting
<1> QED BY <1>1, <1>2, Edges DEF RequestApproval, Continues, Advances, Terminal

LEMMA RecoverAdvances ==
  ASSUME IInv, Recover, NEW r \in Runs
  PROVE  Continues(row[r], row'[r])
<1>1. PICK S \in SUBSET {q \in Runs : Expired(row[q])} :
        row' = [q \in Runs |-> IF q \in S THEN Recovered(row[q]) ELSE row[q]]
  BY DEF Recover
<1>2. row[r] \in Row
  BY DEF IInv, TypeOK, ExecTypeOK
<1>3. /\ Recovered(row[r]).status \in {"timed_out", "queued"}
      /\ Recovered(row[r]).cancel = row[r].cancel
      /\ Recovered(row[r]).attempt = row[r].attempt
  BY <1>2, RowRecovered
<1>4. r \in S => row[r].status = "running"
  BY DEF Expired
<1> QED BY <1>1, <1>3, <1>4, Edges DEF Continues, Advances, Terminal

(* No step moves a row otherwise.                                          *)
LEMMA RowContinues ==
  ASSUME IInv, [Next]_vars, ~Claiming, NEW r \in Runs
  PROVE  Continues(row[r], row'[r])
<1>1. CASE UNCHANGED vars
  BY <1>1 DEF vars, Continues
<1>2. CASE ExecNext
  BY <1>2, ExecAdvances
<1>3. ASSUME NEW e \in Engines, Crash(e)
      PROVE  Continues(row[r], row'[r])
  BY <1>3 DEF Crash, Continues
<1>4. ASSUME NEW t \in Tokens, StoreResult(t) \/ ConfirmCancellation(t) \/ RequestApproval(t)
      PROVE  Continues(row[r], row'[r])
  BY <1>4, StoreAdvances, AwaitAdvances
<1>5. ASSUME NEW q \in Runs, Request(q)
      PROVE  Continues(row[r], row'[r])
  BY <1>5, CancelAdvances, ParkAdvances DEF Request, RequestCancellation
<1>6. CASE Recover
  BY <1>6, RecoverAdvances
<1>7. ASSUME NEW e \in Engines, NEW q \in Runs, StopCancels(e, q)
      PROVE  Continues(row[r], row'[r])
  BY <1>7, CancelAdvances DEF StopCancels
<1> QED BY <1>1, <1>2, <1>3, <1>4, <1>5, <1>6, <1>7 DEF Next

LEMMA RowAdvances ==
  ASSUME IInv, [Next]_vars, NEW r \in Runs
  PROVE  row'[r] = row[r] \/ Advances(row[r], row'[r])
<1>1. CASE Claiming
  BY <1>1, ClaimAdvances DEF Claiming
<1>2. CASE ~Claiming
  BY <1>2, RowContinues DEF Continues
<1> QED BY <1>1, <1>2

-----------------------------------------------------------------------------
(* A terminal row never changes again.                                     *)
THEOREM TerminalStays == Spec => TerminalIsFinal
<1>1. ASSUME IInv, [Next]_vars, NEW r \in Runs, row[r].status \in Terminal
      PROVE  row'[r] = row[r]
  BY <1>1, RowAdvances DEF Advances
<1>2. IInv /\ [Next]_vars =>
        [\A r \in Runs : row[r].status \in Terminal => row'[r] = row[r]]_execVars
  BY <1>1
<1> QED BY <1>2, AlwaysIInv, PTL DEF Spec, TerminalIsFinal

(* A paused run only leaves its pause for the queue or as cancelled.       *)
THEOREM PausedStays == Spec => PausedNeverCompletes
<1>1. ASSUME IInv, [Next]_vars, NEW r \in Runs, row[r].status = "paused"
      PROVE  row'[r].status \notin {"succeeded", "failed"}
  BY <1>1, RowAdvances
  DEF Advances, Lifecycle!Moves, Lifecycle!StateMachine, Lifecycle!Terminal
<1>2. IInv /\ [Next]_vars =>
        [\A r \in Runs : row[r].status = "paused" =>
           row'[r].status \notin {"succeeded", "failed"}]_execVars
  BY <1>1
<1> QED BY <1>2, AlwaysIInv, PTL DEF Spec, PausedNeverCompletes

(* A requested cancellation stays requested.                               *)
THEOREM CancellationStays == Spec => CancellationSticks
<1>1. ASSUME IInv, [Next]_vars, NEW r \in Runs, row[r].cancel
      PROVE  row'[r].cancel
  BY <1>1, RowAdvances DEF Advances
<1>2. IInv /\ [Next]_vars => [\A r \in Runs : row[r].cancel => row'[r].cancel]_execVars
  BY <1>1
<1> QED BY <1>2, AlwaysIInv, PTL DEF Spec, CancellationSticks

-----------------------------------------------------------------------------
(* Only StoreResult and ConfirmCancellation of the row's owner make an     *)
(* execution "done".                                                       *)
LEMMA OwnersStore ==
  ASSUME IInv, [Next]_vars, NEW t \in Tokens, exec[t].pc # "done", exec'[t].pc = "done"
  PROVE  Owns(RowOf(t), t)
<1>1. exec \in [Tokens -> Execution]
  BY DEF IInv, TypeOK, ExecTypeOK
<1>2. ASSUME NEW u \in Tokens, NEW pc \in Polling, Goto(u, pc)
      PROVE  FALSE
  BY <1>1, <1>2, ExecutionGoes DEF Goto, Polling, Steps
<1>3. ASSUME NEW u \in Tokens, NEW outcome \in Outcomes, Conclude(u, outcome)
      PROVE  FALSE
  BY <1>1, <1>3, ExecutionConcluded DEF Conclude
<1>4. ASSUME NEW u \in Tokens, Leave(u)
      PROVE  FALSE
  BY <1>1, <1>4, ExecutionGone DEF Leave
<1>6. CASE ExecNext
  <2>1. ASSUME NEW e \in Engines, NEW u \in Tokens, NEW r \in Runs, Claim(e, u, r)
        PROVE  FALSE
    BY <1>1, <2>1, ExecutionBegun DEF Claim
  <2>2. ASSUME NEW u \in Tokens, ExecutorStep(u)
        PROVE  FALSE
    <3>1. CASE StartProcess(u)
      <4> DEFINE x == [exec[u] EXCEPT !.pc = "poll", !.proc = "running"]
      <4>1. x.pc = "poll"
        BY <1>1, ExecutionStarts
      <4>2. exec' = [exec EXCEPT ![u] = x]
        BY <3>1 DEF StartProcess
      <4> HIDE DEF x
      <4> QED BY <1>1, <4>1, <4>2
    <3> QED BY <2>2, <3>1, <1>2, <1>3, <1>4
            DEF ExecutorStep, StartFails, Poll, CheckCancellation, CheckPause, HeartbeatNotDue,
                RecordHeartbeat, RecheckPause, LeavePaused, Polling, Steps, Outcomes
  <2>3. ASSUME NEW u \in Tokens, NEW proc \in {"ok", "bad", "overdue"},
               exec' = [exec EXCEPT ![u].proc = proc]
        PROVE  FALSE
    <3> DEFINE x == [exec[u] EXCEPT !.proc = proc]
    <3>1. x.pc = exec[u].pc
      BY <1>1, ExecutionProc DEF Alive, Exited
    <3>2. exec' = [exec EXCEPT ![u] = x]
      BY <2>3
    <3> HIDE DEF x
    <3> QED BY <1>1, <3>1, <3>2
  <2>4. ASSUME NEW e \in Engines, StopWorker(e)
        PROVE  FALSE
    <3> DEFINE k == Killed(exec[t].proc)
               x == [exec[t] EXCEPT !.proc = k]
    <3>1. exec'[t] = IF exec[t].engine = e THEN x ELSE exec[t]
      BY <2>4 DEF StopWorker
    <3>2. k \in {"none"} \cup Alive \cup Exited
      BY <1>1 DEF Killed, Execution, Alive, Exited
    <3> HIDE DEF k
    <3>3. x.pc = exec[t].pc
      BY <1>1, <3>2, ExecutionProc
    <3> HIDE DEF x
    <3> QED BY <3>1, <3>3
  <2> QED BY <1>3, <1>4, <1>6, <2>1, <2>2, <2>3, <2>4
          DEF ExecNext, ProcessExits, NeverDispatched, DeadlinePasses, CallbackRaises,
              ResultIsLost, HeartbeatExpires, StartWorker, Outcomes
<1>7. ASSUME NEW e \in Engines, Crash(e)
      PROVE  FALSE
  BY <1>1, <1>7, ExecutionGone DEF Crash
<1>8. ASSUME NEW u \in Tokens, StoreResult(u) \/ ConfirmCancellation(u)
      PROVE  Owns(RowOf(t), t)
  <2>1. CASE t = u
    BY <1>4, <1>8, <2>1 DEF StoreResult, ConfirmCancellation, RowOf
  <2>2. CASE t # u
    BY <1>1, <1>8, <2>2 DEF StoreResult, ConfirmCancellation, Goto, Leave
  <2> QED BY <2>1, <2>2
<1> QED
  BY <1>6, <1>7, <1>8
  DEF Next, vars, Request, RequestCancellation, PauseRun, ResumeRun, ApproveRun,
      RequestApproval, Recover, StopCancels

(* No late worker ends a run that has been given to another one.           *)
THEOREM AlwaysFenced == Spec => ReassignedRunIsFenced
<1>1. IInv /\ [Next]_vars =>
        [\A t \in Tokens : exec[t].pc # "done" /\ exec'[t].pc = "done" =>
           RowOf(t).token \in {t, None}]_execVars
  BY OwnersStore DEF Owns
<1> QED BY <1>1, AlwaysIInv, PTL DEF Spec, ReassignedRunIsFenced

-----------------------------------------------------------------------------
(* An execution keeps the run it was claimed for, whatever else becomes of *)
(* it; only a claim gives it one.                                          *)
LEMMA RunsStay ==
  ASSUME IInv, [Next]_vars, ~Claiming, NEW t \in Tokens
  PROVE  exec'[t].run = exec[t].run
<1>1. exec \in [Tokens -> Execution]
  BY DEF IInv, TypeOK, ExecTypeOK
<1>2. ASSUME NEW u \in Tokens, NEW pc \in {"unborn"} \cup Steps \cup Ends, Goto(u, pc)
      PROVE  exec'[t].run = exec[t].run
  <2> DEFINE x == [exec[u] EXCEPT !.pc = pc]
  <2>1. x.run = exec[u].run
    BY <1>1, ExecutionGoes
  <2>2. exec' = [exec EXCEPT ![u] = x]
    BY <1>2 DEF Goto
  <2> HIDE DEF x
  <2> QED BY <1>1, <2>1, <2>2
<1>3. ASSUME NEW u \in Tokens, NEW outcome \in Outcomes, Conclude(u, outcome)
      PROVE  exec'[t].run = exec[t].run
  BY <1>1, <1>3, ExecutionConcluded DEF Conclude
<1>4. ASSUME NEW u \in Tokens, Leave(u)
      PROVE  exec'[t].run = exec[t].run
  BY <1>1, <1>4, ExecutionGone DEF Leave
<1>5. ASSUME NEW u \in Tokens, NEW proc \in {"ok", "bad", "overdue"},
             exec' = [exec EXCEPT ![u].proc = proc]
      PROVE  exec'[t].run = exec[t].run
  <2> DEFINE x == [exec[u] EXCEPT !.proc = proc]
  <2>1. x.run = exec[u].run
    BY <1>1, ExecutionProc DEF Alive, Exited
  <2>2. exec' = [exec EXCEPT ![u] = x]
    BY <1>5
  <2> HIDE DEF x
  <2> QED BY <1>1, <2>1, <2>2
<1>6. ASSUME NEW u \in Tokens, ExecutorStep(u)
      PROVE  exec'[t].run = exec[t].run
  <2>1. CASE StartProcess(u)
    <3> DEFINE x == [exec[u] EXCEPT !.pc = "poll", !.proc = "running"]
    <3>1. x.run = exec[u].run
      BY <1>1, ExecutionStarts
    <3>2. exec' = [exec EXCEPT ![u] = x]
      BY <2>1 DEF StartProcess
    <3> HIDE DEF x
    <3> QED BY <1>1, <3>1, <3>2
  <2> QED BY <1>6, <2>1, <1>2, <1>3, <1>4
          DEF ExecutorStep, StartFails, Poll, CheckCancellation, CheckPause, HeartbeatNotDue,
              RecordHeartbeat, RecheckPause, LeavePaused, Steps, Outcomes
<1>7. ASSUME NEW e \in Engines, StopWorker(e)
      PROVE  exec'[t].run = exec[t].run
  <2> DEFINE k == Killed(exec[t].proc)
             x == [exec[t] EXCEPT !.proc = k]
  <2>1. exec'[t] = IF exec[t].engine = e THEN x ELSE exec[t]
    BY <1>7 DEF StopWorker
  <2>2. k \in {"none"} \cup Alive \cup Exited
    BY <1>1 DEF Killed, Execution, Alive, Exited
  <2> HIDE DEF k
  <2>3. x.run = exec[t].run
    BY <1>1, <2>2, ExecutionProc
  <2> HIDE DEF x
  <2> QED BY <2>1, <2>3
<1>8. CASE ExecNext
  BY <1>3, <1>4, <1>5, <1>6, <1>7, <1>8
  DEF Claiming, ExecNext, ProcessExits, NeverDispatched, DeadlinePasses, CallbackRaises,
      ResultIsLost, HeartbeatExpires, StartWorker, Outcomes
<1>9. ASSUME NEW e \in Engines, Crash(e)
      PROVE  exec'[t].run = exec[t].run
  BY <1>1, <1>9, ExecutionGone DEF Crash
<1>10. ASSUME NEW u \in Tokens, StoreResult(u) \/ ConfirmCancellation(u)
       PROVE  exec'[t].run = exec[t].run
  BY <1>2, <1>4, <1>10 DEF StoreResult, ConfirmCancellation, Ends
<1> QED
  BY <1>8, <1>9, <1>10
  DEF Next, vars, Request, RequestCancellation, PauseRun, ResumeRun, ApproveRun,
      RequestApproval, Recover, StopCancels

ClaimsOf(r) == {t \in Tokens : exec[t].run = r}

(* The claims of a run are finitely many, though tokens may not be, and    *)
(* its attempt number is how many.                                         *)
Counted ==
  \A r \in Runs : IsFiniteSet(ClaimsOf(r)) /\ row[r].attempt = Cardinality(ClaimsOf(r))

LEMMA InitCounted == Init => Counted
<1> SUFFICES ASSUME Init, NEW r \in Runs
             PROVE  IsFiniteSet(ClaimsOf(r)) /\ row[r].attempt = Cardinality(ClaimsOf(r))
  BY DEF Counted
<1>1. ClaimsOf(r) = {} /\ row[r].attempt = 0
  BY NoneAssumption DEF Init, ExecInit, ClaimsOf, Unborn, Submitted
<1> QED BY <1>1, FS_EmptySet

(* A claim adds one to both, for its run alone.                            *)
LEMMA ClaimCounts ==
  ASSUME IInv, Counted, NEW e \in Engines, NEW t \in Tokens, NEW q \in Runs, Claim(e, t, q)
  PROVE  Counted'
<1> SUFFICES ASSUME NEW r \in Runs
             PROVE  IsFiniteSet(ClaimsOf(r)') /\ row'[r].attempt = Cardinality(ClaimsOf(r)')
  BY DEF Counted
<1>1. /\ exec \in [Tokens -> Execution]
      /\ exec' = [exec EXCEPT ![t] = Begun(e, q)]
      /\ exec[t].run = None
  BY DEF IInv, TypeOK, ExecTypeOK, Claim, Unborn
<1>2. Begun(e, q).run = q
  BY ExecutionBegun
<1>3. IsFiniteSet(ClaimsOf(r)) /\ row[r].attempt = Cardinality(ClaimsOf(r))
  BY DEF Counted
<1>4. CASE r = q
  <2>1. ClaimsOf(r)' = ClaimsOf(r) \cup {t} /\ t \notin ClaimsOf(r)
    BY <1>1, <1>2, <1>4, NoneAssumption DEF ClaimsOf
  <2>2. row'[r].attempt = row[r].attempt + 1
    BY <1>4, ClaimAdvances
  <2> QED BY <1>3, <2>1, <2>2, FS_AddElement
<1>5. CASE r # q
  <2>1. ClaimsOf(r)' = ClaimsOf(r)
    BY <1>1, <1>2, <1>5, NoneAssumption DEF ClaimsOf
  <2>2. row'[r].attempt = row[r].attempt
    BY <1>5, ClaimAdvances
  <2> QED BY <1>3, <2>1, <2>2
<1> QED BY <1>4, <1>5

LEMMA StepCounted == IInv /\ Counted /\ [Next]_vars => Counted'
<1> SUFFICES ASSUME IInv, Counted, [Next]_vars
             PROVE  Counted'
  OBVIOUS
<1>1. CASE Claiming
  BY <1>1, ClaimCounts DEF Claiming
<1>2. CASE ~Claiming
  <2>1. \A r \in Runs : row'[r].attempt = row[r].attempt
    BY <1>2, RowContinues DEF Continues
  <2>2. \A r \in Runs : ClaimsOf(r)' = ClaimsOf(r)
    BY <1>2, RunsStay DEF ClaimsOf
  <2> QED BY <2>1, <2>2 DEF Counted
<1> QED BY <1>1, <1>2

(* The attempt number counts the executions begun for a run: no retry,     *)
(* request or late result lets it run ahead or fall behind.                *)
THEOREM AlwaysCounted == Spec => []AttemptsAreCounted
<1>1. Spec => []Counted
  BY InitCounted, StepCounted, AlwaysIInv, PTL DEF Spec
<1>2. Counted => AttemptsAreCounted
  BY DEF Counted, AttemptsAreCounted, ClaimsOf
<1> QED BY <1>1, <1>2, PTL

-----------------------------------------------------------------------------
(* Runs without a job have no event, so the steps leave their entry alone. *)
LEMMA OthersAreSilent ==
  ASSUME [Next]_vars, finished \in [Runs -> Terminal \cup {None}], NEW r \in Runs \ JobRuns
  PROVE  finished'[r] = finished[r]
  BY DEF Next, vars, RecordJobResult, StoreResult, ConfirmCancellation, RequestApproval, Request,
         RequestCancellation, CancelRun, PauseRun, ResumeRun, ApproveRun, Recover, StopCancels

(* The store starts as the lifecycle does.                                 *)
LEMMA LifecycleStarts == Init => Lifecycle!Init
<1> SUFFICES ASSUME Init
             PROVE  Lifecycle!Init
  OBVIOUS
<1>1. \A r \in Runs : row[r].status = "queued"
  BY DEF Init, ExecInit, Submitted
<1> QED BY <1>1 DEF Init, Lifecycle!Init

(* A step of the store is a step of the lifecycle or leaves it alone.      *)
LEMMA LifecycleMoves ==
  ASSUME IInv, IInv', [Next]_vars
  PROVE  Lifecycle!Next
<1>1. /\ row' \in [Runs -> Row]
      /\ finished \in [Runs -> Terminal \cup {None}]
      /\ finished' \in [Runs -> Terminal \cup {None}]
  BY DEF IInv, TypeOK, ExecTypeOK
<1>2. [r \in Runs |-> row[r].status]' \in
        [Runs -> {"queued", "running", "waiting_approval", "paused"} \cup Lifecycle!Terminal]
  BY <1>1 DEF Row, Status, Terminal, Lifecycle!Terminal
<1>3. ASSUME NEW r \in Runs
      PROVE  \/ row'[r].status = row[r].status
             \/ <<row[r].status, row'[r].status>> \in Lifecycle!Moves
  BY RowAdvances DEF Advances
<1>4. ASSUME NEW r \in Runs
      PROVE  finished'[r] =
               IF r \in JobRuns /\ row'[r].status # row[r].status /\ row'[r].status \in Terminal
               THEN row'[r].status ELSE finished[r]
  <2>1. CASE r \notin JobRuns
    BY <1>1, <2>1, OthersAreSilent
  <2>2. CASE r \in JobRuns
    <3>1. /\ finished[r] = IF row[r].status \in Terminal THEN row[r].status ELSE None
          /\ finished'[r] = IF row'[r].status \in Terminal THEN row'[r].status ELSE None
      BY <2>2 DEF IInv, EventTellsFinalStatus
    <3>2. row[r].status \in Terminal => row'[r] = row[r]
      BY RowAdvances DEF Advances
    <3> QED BY <2>2, <3>1, <3>2
  <2> QED BY <2>1, <2>2
<1>5. finished' =
        [r \in Runs |->
           IF r \in JobRuns /\ row'[r].status # row[r].status /\ row'[r].status \in Terminal
           THEN row'[r].status ELSE finished[r]]
  BY <1>1, <1>4
<1> QED BY <1>2, <1>3, <1>5 DEF Lifecycle!Next, Lifecycle!Terminal, Terminal

(* The engine on PostgreSQL implements the lifecycle promised to clients.  *)
THEOREM Implements == Spec => ImplementsLifecycle
<1>1. IInv /\ IInv' /\ [Next]_vars =>
        [Lifecycle!Next]_<<[r \in Runs |-> row[r].status], finished>>
  BY LifecycleMoves
<1> QED BY <1>1, LifecycleStarts, AlwaysIInv, PTL DEF Spec, ImplementsLifecycle, Lifecycle!Spec

-----------------------------------------------------------------------------
(* Archiving.  Seen from the store, a step beside it is one it could take  *)
(* anyway, or an executor that goes on although its row says otherwise, or *)
(* a cancellation that stop_worker gives up.                               *)
GoesOn ==
  /\ \E t \in Tokens, pc \in Polling : exec[t].pc \in Steps /\ Goto(t, pc)
  /\ UNCHANGED <<row, stopped, toCancel, finished>>

GivesUp ==
  /\ \E e \in Engines, r \in Runs : toCancel' = [toCancel EXCEPT ![e] = @ \ {r}]
  /\ UNCHANGED <<row, exec, stopped, finished>>

LEMMA MissGoesOn ==
  ASSUME NEW t \in Tokens, Misses(t), UNCHANGED finished
  PROVE  Next \/ GoesOn
<1>1. CASE MissCancellation(t)
  <2>1. CASE stopped[exec[t].engine]
    BY <1>1, <2>1 DEF MissCancellation, CheckCancellation, ExecutorStep, ExecNext, Next
  <2>2. CASE ~stopped[exec[t].engine]
    BY <1>1, <2>2 DEF MissCancellation, GoesOn, Polling, Steps
  <2> QED BY <2>1, <2>2
<1>2. CASE MissPause(t)
  BY <1>2 DEF MissPause, GoesOn, Polling, Steps
<1>3. CASE MissHeartbeat(t)
  BY <1>3 DEF MissHeartbeat, GoesOn, Polling, Steps
<1>4. CASE MissRecheck(t)
  BY <1>4 DEF MissRecheck, CallbackRaises, ExecNext, Next
<1>5. CASE MissResult(t)
  BY <1>5 DEF MissResult, ResultIsLost, ExecNext, Next
<1> QED BY <1>1, <1>2, <1>3, <1>4, <1>5 DEF Misses

LEMMA FreshTokenIsUnborn == TokenLeft => FreshToken \in Tokens
  BY DEF TokenLeft, FreshToken

LEMMA ArchiveSteps == [ArchiveNext]_archiveVars => [Next]_vars \/ GoesOn \/ GivesUp
<1> SUFFICES ASSUME [ArchiveNext]_archiveVars
             PROVE  [Next]_vars \/ GoesOn \/ GivesUp
  OBVIOUS
<1>1. ASSUME NEW e \in Engines, NEW r \in Runs, ClaimFound(e, r), UNCHANGED finished
      PROVE  Next
  BY <1>1, FreshTokenIsUnborn DEF ClaimFound, ExecNext, Next
<1>2. ASSUME NEW t \in Tokens, Executes(t)
      PROVE  Next \/ GoesOn
  <2>1. CASE (ExecutorFinds(t) \/ ExecutorLooksAway(t)) /\ UNCHANGED finished
    BY <2>1 DEF ExecutorFinds, ExecutorLooksAway, ExecutorStep, ExecNext, Next
  <2>2. CASE Misses(t) /\ UNCHANGED finished
    BY <2>2, MissGoesOn
  <2>3. CASE ResultStored(t)
    BY <2>3 DEF ResultStored, Next
  <2> QED BY <1>2, <2>1, <2>2, <2>3 DEF Executes
<1>3. ASSUME NEW t \in Tokens, UNCHANGED finished,
             \/ NeverDispatched(t) \/ DeadlinePasses(t)
             \/ CallbackRaises(t) \/ ResultIsLost(t)
             \/ \E how \in {"ok", "bad"} : ProcessExits(t, how)
      PROVE  Next
  BY <1>3 DEF ExecNext, Next
<1>4. ASSUME NEW r \in Runs, (HeartbeatExpires(r) /\ UNCHANGED finished) \/ Request(r)
      PROVE  Next
  BY <1>4 DEF ExecNext, Next
<1>5. Found(Recover) => Next
  BY DEF Found, Next
<1>6. ASSUME NEW e \in Engines, UNCHANGED finished, StopWorker(e) \/ StartWorker(e) \/ Crash(e)
      PROVE  Next
  BY <1>6 DEF ExecNext, Next
<1>7. ASSUME NEW e \in Engines, Stops(e)
      PROVE  Next \/ GivesUp
  BY <1>7 DEF Stops, StopMisses, GivesUp, Next
<1>8. ASSUME NEW p \in Projects, Archive(p) \/ LookupsEnd(p) \/ Restore(p)
      PROVE  UNCHANGED vars
  BY <1>8 DEF Archive, LookupsEnd, Restore
<1>9. UNCHANGED archiveVars => UNCHANGED vars
  BY DEF archiveVars, vars
<1> QED BY <1>1, <1>2, <1>3, <1>4, <1>5, <1>6, <1>7, <1>8, <1>9 DEF ArchiveNext

(* So the invariants survive archiving.                                    *)
LEMMA ArchiveKeeps == IInv /\ Counted /\ [ArchiveNext]_archiveVars => IInv' /\ Counted'
<1> SUFFICES ASSUME IInv, Counted, [Next]_vars \/ GoesOn \/ GivesUp
             PROVE  IInv' /\ Counted'
  BY ArchiveSteps
<1>1. CASE [Next]_vars
  BY <1>1, StepIInv, StepCounted
<1>2. CASE GoesOn
  <2>1. PICK t \in Tokens, pc \in Polling : exec[t].pc \in Steps /\ Goto(t, pc)
    BY <1>2 DEF GoesOn
  <2>2. IInv'
    BY <1>2, <2>1, GotoKeeps DEF GoesOn
  <2> DEFINE x == [exec[t] EXCEPT !.pc = pc]
  <2>3. exec \in [Tokens -> Execution] /\ x.run = exec[t].run
    BY <2>1, ExecutionGoes DEF IInv, TypeOK, ExecTypeOK, Polling
  <2>4. exec' = [exec EXCEPT ![t] = x] /\ UNCHANGED row
    BY <1>2, <2>1 DEF Goto, GoesOn
  <2> HIDE DEF x
  <2>5. Counted'
    BY <2>3, <2>4 DEF Counted, ClaimsOf
  <2> QED BY <2>2, <2>5
<1>3. CASE GivesUp
  <2>1. toCancel' \in [Engines -> SUBSET Runs] /\ UNCHANGED <<row, exec, stopped, finished>>
    BY <1>3 DEF GivesUp, IInv, TypeOK, ExecTypeOK
  <2>2. finished' \in [Runs -> Terminal \cup {None}] /\ EventTellsFinalStatus'
    BY <2>1, KeepsQuiet
  <2>3. IInv'
    BY <2>1, <2>2, RowsMove DEF IInv, TypeOK, ExecTypeOK
  <2>4. Counted'
    BY <2>1 DEF Counted, ClaimsOf
  <2> QED BY <2>3, <2>4
<1> QED BY <1>1, <1>2, <1>3

LEMMA ArchiveIInv == ArchiveSpec => [](IInv /\ Counted)
<1>1. ArchiveInit => IInv /\ Counted
  BY InitIInv, InitCounted DEF ArchiveInit
<1> QED BY <1>1, ArchiveKeeps, PTL DEF ArchiveSpec

(* Archiving takes nothing from what the store promises of its runs: one   *)
(* result, an honest one, the attempts counted and the event in step.      *)
THEOREM PromisesOutliveArchiving ==
  ArchiveSpec => [](/\ OneResultPerRun /\ SuccessIsHonest
                    /\ AttemptsAreCounted /\ EventTellsFinalStatus)
<1>1. IInv /\ Counted => /\ OneResultPerRun /\ SuccessIsHonest
                         /\ AttemptsAreCounted /\ EventTellsFinalStatus
  BY DEF IInv, ResultsAreRecorded, OneResultPerRun, RowOf, Counted, AttemptsAreCounted, ClaimsOf
<1> QED BY <1>1, ArchiveIInv, PTL

(* Nor from the lifecycle its clients see.                                 *)
THEOREM ImplementsBesideArchiving == ArchiveSpec => ImplementsLifecycle
<1>1. ASSUME IInv, IInv', [ArchiveNext]_archiveVars
      PROVE  [Lifecycle!Next]_<<[r \in Runs |-> row[r].status], finished>>
  <2>1. CASE [Next]_vars
    BY <1>1, <2>1, LifecycleMoves
  <2>2. CASE GoesOn \/ GivesUp
    BY <2>2 DEF GoesOn, GivesUp
  <2> QED BY <1>1, <2>1, <2>2, ArchiveSteps
<1>2. ArchiveInit => Lifecycle!Init
  BY LifecycleStarts DEF ArchiveInit
<1> QED BY <1>1, <1>2, ArchiveIInv, PTL DEF ArchiveSpec, ImplementsLifecycle, Lifecycle!Spec

(* And an executor that lost its run to archiving, and still has its       *)
(* failure to report when the project is restored, cannot end the run once *)
(* the recovery has given it to another one.                               *)
THEOREM FencedBesideArchiving == ArchiveSpec => ReassignedRunIsFenced
<1>1. ASSUME IInv, [ArchiveNext]_archiveVars, NEW t \in Tokens,
             exec[t].pc # "done", exec'[t].pc = "done"
      PROVE  RowOf(t).token \in {t, None}
  <2>1. CASE [Next]_vars
    BY <1>1, <2>1, OwnersStore DEF Owns
  <2>2. CASE GoesOn
    <3>1. PICK u \in Tokens, pc \in Polling : Goto(u, pc)
      BY <2>2 DEF GoesOn
    <3>2. exec \in [Tokens -> Execution]
      BY <1>1 DEF IInv, TypeOK, ExecTypeOK
    <3>3. [exec[u] EXCEPT !.pc = pc].pc = pc /\ pc # "done"
      BY <3>2 DEF Execution, Polling, Steps
    <3>4. exec'[t].pc \in {exec[t].pc, pc}
      BY <3>1, <3>2, <3>3 DEF Goto
    <3> QED BY <1>1, <3>3, <3>4
  <2>3. CASE GivesUp
    BY <1>1, <2>3 DEF GivesUp
  <2> QED BY <1>1, <2>1, <2>2, <2>3, ArchiveSteps
<1>2. IInv /\ [ArchiveNext]_archiveVars =>
        [\A t \in Tokens : exec[t].pc # "done" /\ exec'[t].pc = "done" =>
           RowOf(t).token \in {t, None}]_execVars
  BY <1>1
<1> QED BY <1>2, ArchiveIInv, PTL DEF ArchiveSpec, ReassignedRunIsFenced

=============================================================================
