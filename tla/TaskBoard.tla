------------------------------ MODULE TaskBoard ------------------------------
(***************************************************************************)
(* What the task stores promise of the board of one project: at most one   *)
(* task is in progress, it was only started when the task it depends on    *)
(* was done, and a task that is over is not opened again.  Both stores     *)
(* implement it (TaskMutations).                                           *)
(***************************************************************************)
CONSTANTS Tasks, None

VARIABLES status, needs

boardVars == <<status, needs>>

Statuses == {"absent", "todo", "in_progress", "paused", "skipped", "done", "deleted"}

BoardTypeOK ==
  /\ status \in [Tasks -> Statuses]
  /\ needs \in [Tasks -> Tasks \cup {None}]

Active == {t \in Tasks : status[t] = "in_progress"}

Ready(t) == needs[t] # None => status[needs[t]] = "done"

Init ==
  /\ status = [t \in Tasks |-> "absent"]
  /\ needs = [t \in Tasks |-> None]

Becomes(t, s) ==
  /\ status' = [status EXCEPT ![t] = s]
  /\ UNCHANGED needs

(* A new task may name any other one: a store need not know it.            *)
Create(t) ==
  /\ status[t] = "absent"
  /\ status' = [status EXCEPT ![t] = "todo"]
  /\ \E d \in Tasks \cup {None} : needs' = [needs EXCEPT ![t] = d]

Start(t) ==
  /\ status[t] \in {"todo", "paused"}
  /\ Active = {} /\ Ready(t)
  /\ Becomes(t, "in_progress")

Suspend(t) ==
  /\ status[t] = "in_progress"
  /\ \E s \in {"paused", "skipped"} : Becomes(t, s)

Finish(t) ==
  /\ status[t] \notin {"absent", "deleted"}
  /\ Becomes(t, "done")

Delete(t) ==
  /\ status[t] \notin {"absent", "deleted"}
  /\ \A u \in Active : needs[u] # t
  /\ Becomes(t, "deleted")

Next ==
  \E t \in Tasks :
    Create(t) \/ Start(t) \/ Suspend(t) \/ Finish(t) \/ Delete(t)

Spec == Init /\ [][Next]_boardVars
=============================================================================
