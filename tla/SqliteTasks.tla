----------------------------- MODULE SqliteTasks -----------------------------
(***************************************************************************)
(* TaskService, the tasks of the personal profile.  Every operation is one *)
(* BEGIN IMMEDIATE transaction, and a trigger moves the version of a row.  *)
(***************************************************************************)
EXTENDS TaskRecords

(* add_task looks nothing up: the task needed may be deleted, the new one  *)
(* itself, or one that does not exist yet.                                 *)
AddTask(t) ==
  /\ IsNew(t)
  /\ \E d \in Tasks \cup {None}, n \in 1 .. MaxSteps : Change(t, Created(d, n))

NextTask(t) ==
  /\ t \in Candidates
  /\ Change(t, Moved(t, "in_progress"))

CompleteTask(t) ==
  /\ Exists(t) /\ task[t].status # "done"
  /\ Change(t, Completed(t))

DeleteTask(t) ==
  /\ Exists(t) /\ ~Required(t)
  /\ Change(t, Moved(t, "deleted"))

PauseTask(t) ==
  /\ t \in Active
  /\ Change(t, Moved(t, "paused"))

SkipTask(t) ==
  /\ t \in Active
  /\ Change(t, Moved(t, "skipped"))

ResumeTask(t) ==
  /\ Active = {} /\ task[t].status = "paused" /\ Ready(t)
  /\ Change(t, Moved(t, "in_progress"))

(* The step counter only moves up, to any step of the task.                *)
Stepped(t, n) ==
  [task[t] EXCEPT !.done = n,
                  !.status = IF n = task[t].total THEN "done" ELSE "in_progress"]

StepTask(t) ==
  /\ task[t].status \in {"todo", "in_progress"} /\ Ready(t)
  /\ \E n \in task[t].done + 1 .. task[t].total :
       /\ n < task[t].total => Active \subseteq {t}
       /\ Change(t, Stepped(t, n))

EditTask_AnyStatus(t) ==
  /\ Exists(t)
  /\ \E n \in 1 .. MaxSteps :
       /\ n >= task[t].done
       /\ Change(t, [task[t] EXCEPT !.total = n])

EditTask(t) ==
  /\ Exists(t)
  /\ \E n \in 1 .. MaxSteps :
       /\ n >= task[t].done
       /\ task[t].status = "done" => n = task[t].done
       /\ Change(t, [task[t] EXCEPT !.total = n])

(* complete_task and step_task without a task first select the next one,   *)
(* in the same transaction: two changes of one row.                        *)
Select(t, row) ==
  /\ t \in Candidates
  /\ task[t].version + 1 < MaxVersion
  /\ task' = [task EXCEPT ![t] = [row EXCEPT !.version = task[t].version + 2]]

CompleteNext(t) == Select(t, Completed(t))

StepNext(t) ==
  \E n \in task[t].done + 1 .. task[t].total : Select(t, Stepped(t, n))

Conditional(t) ==
  \/ CompleteTask(t)
  \/ DeleteTask(t)
  \/ PauseTask(t)
  \/ SkipTask(t)
  \/ ResumeTask(t)
  \/ StepTask(t)
  \/ EditTask(t)

(* _check_task_version, in the transaction of the operation.               *)
Versioned(c) ==
  LET t == view[c].task IN
  /\ t # None
  /\ task[t].version = view[c].version
  /\ Conditional(t)
  /\ Answered(c)

Unversioned ==
  /\ \E t \in Tasks :
       \/ AddTask(t)
       \/ NextTask(t)
       \/ CompleteNext(t)
       \/ StepNext(t)
       \/ Conditional(t)
  /\ Unnoticed

SqliteTasksNext == (\E c \in Clients : Versioned(c)) \/ Unversioned
=============================================================================
