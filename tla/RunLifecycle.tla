---------------------------- MODULE RunLifecycle ----------------------------
(***************************************************************************)
(* What the durable run engine promises to a client that only looks at the *)
(* status of its runs and at the project_job.finished events: a run moves  *)
(* along the edges below, rests for good in a terminal status, and that    *)
(* status is announced once, by the step that reaches it.  Tokens,         *)
(* heartbeats, processes, retries and crashes are not visible here.        *)
(***************************************************************************)
CONSTANTS Runs, JobRuns, None

VARIABLES
  status,      \* what GET /runs/{id} shows
  announced    \* the status told by the run's event, None before

Terminal == {"succeeded", "failed", "cancelled", "timed_out"}

(* The transitions of RunStateMachine, the table the API package and its   *)
(* tests declare.                                                          *)
StateMachine ==
  {<<"queued", s>> : s \in {"running", "cancelled", "paused"}}
  \cup {<<"running", s>> : s \in Terminal \cup {"paused", "waiting_approval"}}
  \cup {<<"waiting_approval", s>> : s \in {"running", "cancelled"}}
  \cup {<<"paused", s>> : s \in {"running", "cancelled"}}

(* The edges of the run stores.  Approved and resumed runs go back to the  *)
(* queue, the recovery sends interrupted runs there, and a run that waits  *)
(* for an approval may be paused.                                          *)
Moves ==
  (StateMachine \ {<<"waiting_approval", "running">>, <<"paused", "running">>})
  \cup {<<s, "queued">> : s \in {"running", "waiting_approval", "paused"}}
  \cup {<<"waiting_approval", "paused">>}

-----------------------------------------------------------------------------
Init ==
  /\ status = [r \in Runs |-> "queued"]
  /\ announced = [r \in Runs |-> None]

(* A run that does not rest moves along an edge; a step may move several   *)
(* runs, as the recovery does.                                             *)
Next ==
  /\ status' \in [Runs -> {"queued", "running", "waiting_approval", "paused"} \cup Terminal]
  /\ \A r \in Runs : status'[r] = status[r] \/ <<status[r], status'[r]>> \in Moves
  /\ announced' = [r \in Runs |->
                     IF r \in JobRuns /\ status'[r] # status[r] /\ status'[r] \in Terminal
                     THEN status'[r] ELSE announced[r]]

Spec == Init /\ [][Next]_<<status, announced>>
=============================================================================
