----------------------------- MODULE TaskRecords -----------------------------
(***************************************************************************)
(* The tasks of one project, as rows of the tasks table of either store,   *)
(* and the clients that change them.  A client may have read a task and    *)
(* sends the version it saw with its change; other callers (command line,  *)
(* hooks) send none.                                                       *)
(***************************************************************************)
EXTENDS Integers

CONSTANTS
  NumTasks,     \* bound: tasks ever created in the project
  Clients,
  None,
  MaxVersion,   \* bound: versions of a task
  MaxSteps      \* bound: steps of a task

(* Numbered as the stores do: one more than the greatest number so far.    *)
Tasks == 1 .. NumTasks

ASSUME TasksAssumption ==
  /\ NumTasks \in Nat /\ MaxVersion \in Nat
  /\ MaxSteps \in Nat \ {0}
  /\ None \notin Tasks /\ None \notin Clients

VARIABLES
  task,      \* the rows
  view       \* what a client has read and means to change

recordVars == <<task, view>>

Statuses == {"absent", "todo", "in_progress", "paused", "skipped", "done", "deleted"}

Row == [status: Statuses, version: Nat, needs: Tasks \cup {None}, done: Nat, total: Nat]

NoRow == [status |-> "absent", version |-> 0, needs |-> None, done |-> 0, total |-> 0]

(* fresh: the task has not changed since (known to no client).             *)
View == [task: Tasks \cup {None}, version: Nat, fresh: BOOLEAN]

Unseen == [task |-> None, version |-> 0, fresh |-> TRUE]

RecordsTypeOK ==
  /\ task \in [Tasks -> Row]
  /\ view \in [Clients -> View]

RecordsInit ==
  /\ task = [t \in Tasks |-> NoRow]
  /\ view = [c \in Clients |-> Unseen]

-----------------------------------------------------------------------------
Exists(t) == task[t].status \notin {"absent", "deleted"}

Active == {t \in Tasks : task[t].status = "in_progress"}

Ready(t) ==
  LET d == task[t].needs IN d # None => task[d].status = "done"

(* The tasks next_task may take.  Both stores order them by created_at,    *)
(* which is no order of the numbers: on PostgreSQL it is the start of the  *)
(* creating transaction, on SQLite it has a resolution of a second.        *)
Candidates ==
  IF Active = {} THEN {t \in Tasks : task[t].status = "todo" /\ Ready(t)} ELSE {}

Required_TodoOnly(t) ==
  \E u \in Tasks : task[u].needs = t /\ task[u].status = "todo"

(* A task other open tasks need: deleting it is refused.                   *)
Required(t) ==
  \E u \in Tasks : task[u].needs = t /\ task[u].status \in {"todo", "in_progress"}

IsNew(t) == task[t].status = "absent" /\ \A u \in 1 .. t - 1 : task[u].status # "absent"

Change_StatusOnly(t, row) ==
  LET moved == IF row.status = task[t].status THEN 0 ELSE 1 IN
  /\ task[t].version < MaxVersion
  /\ task' = [task EXCEPT ![t] = [row EXCEPT !.version = task[t].version + moved]]

(* Every change moves the version.  (The event that is appended in the     *)
(* same transaction is left out: no operation reads it.)                   *)
Change(t, row) ==
  /\ task[t].version < MaxVersion
  /\ task' = [task EXCEPT ![t] = [row EXCEPT !.version = task[t].version + 1]]

Moved(t, status) == [task[t] EXCEPT !.status = status]

Completed(t) == [task[t] EXCEPT !.status = "done", !.done = task[t].total]

Created(d, n) ==
  [status |-> "todo", version |-> 0, needs |-> d, done |-> 0, total |-> n]

Aged(v) ==
  IF v.task # None /\ task'[v.task] # task[v.task] THEN [v EXCEPT !.fresh = FALSE] ELSE v

(* What the clients know after a change, and after the change of client c. *)
Unnoticed == view' = [x \in Clients |-> Aged(view[x])]

Answered(c) == view' = [x \in Clients |-> IF x = c THEN Unseen ELSE Aged(view[x])]

-----------------------------------------------------------------------------
Look(c) ==
  /\ view[c] = Unseen
  /\ \E t \in Tasks :
       /\ Exists(t)
       /\ view' = [view EXCEPT ![c] = [task |-> t, version |-> task[t].version, fresh |-> TRUE]]
  /\ UNCHANGED task

(* The change is refused, or not sent.                                     *)
GiveUp(c) ==
  /\ view[c] # Unseen
  /\ view' = [view EXCEPT ![c] = Unseen]
  /\ UNCHANGED task
=============================================================================
