---------------------------- MODULE PostgresTasks ----------------------------
(***************************************************************************)
(* PostgresTaskMutations, the tasks of the team profile.  transition and   *)
(* next_task hold an advisory lock of the project to their commit; create  *)
(* holds a lock on the row of the project instead.  So a transaction is    *)
(* here what it reads and decides, then what it writes and commits, and a  *)
(* creation may commit between the two parts of a transition.              *)
(***************************************************************************)
EXTENDS TaskRecords

VARIABLES call   \* the open transaction of a client

Transitions == {"complete", "delete", "pause", "resume"}

Exclusive == Transitions \cup {"next"}

Call == [op: Exclusive \cup {"create", "none"}, task: Tasks \cup {None}]

NoCall == [op |-> "none", task |-> None]

CallsTypeOK == call \in [Clients -> Call]

Unlocked_Always == TRUE

(* The advisory lock, and the lock of the row of the project.              *)
Unlocked == \A c \in Clients : call[c].op \notin Exclusive

NobodyCreates == \A c \in Clients : call[c].op # "create"

Begin(c, op, t) ==
  /\ call[c] = NoCall
  /\ call' = [call EXCEPT ![c] = [op |-> op, task |-> t]]
  /\ UNCHANGED recordVars

End(c) == call' = [call EXCEPT ![c] = NoCall]

Valid_AnyDependency(op, t) ==
  CASE op = "complete" -> task[t].status # "done"
    [] op = "pause" -> task[t].status = "in_progress"
    [] op = "resume" -> task[t].status = "paused" /\ Active = {}
    [] op = "delete" -> ~Required(t)

Valid(op, t) ==
  CASE op = "complete" -> task[t].status # "done"
    [] op = "pause" -> task[t].status = "in_progress"
    [] op = "resume" -> task[t].status = "paused" /\ Active = {} /\ Ready(t)
    [] op = "delete" -> ~Required(t)

Target == [complete |-> "done", delete |-> "deleted", pause |-> "paused", resume |-> "in_progress"]

-----------------------------------------------------------------------------
BeginTransition(c) ==
  LET t == view[c].task IN
  /\ Unlocked
  /\ t # None
  /\ Exists(t)
  /\ task[t].version = view[c].version
  /\ \E op \in Transitions : Valid(op, t) /\ Begin(c, op, t)

Transition(c) ==
  LET op == call[c].op
      t == call[c].task
  IN
  /\ op \in Transitions
  /\ Change(t, IF op = "complete" THEN Completed(t) ELSE Moved(t, Target[op]))
  /\ Answered(c)
  /\ End(c)

BeginNext(c) ==
  /\ Unlocked
  /\ \E t \in Candidates : Begin(c, "next", t)

ActivateNext(c) ==
  LET t == call[c].task IN
  /\ call[c].op = "next"
  /\ task[t].status = "todo"
  /\ Change(t, Moved(t, "in_progress"))
  /\ Unnoticed
  /\ End(c)

BeginCreate(c) ==
  /\ NobodyCreates
  /\ \E d \in Tasks \cup {None} :
       /\ d # None => Exists(d)
       /\ Begin(c, "create", d)

Create(c) ==
  /\ call[c].op = "create"
  /\ \E t \in Tasks, n \in 1 .. MaxSteps :
       IsNew(t) /\ Change(t, Created(call[c].task, n))
  /\ Unnoticed
  /\ End(c)

(* A statement fails or the connection is lost: the transaction is undone. *)
RollBack(c) ==
  /\ call[c] # NoCall
  /\ End(c)
  /\ UNCHANGED recordVars

PostgresTasksNext ==
  \E c \in Clients :
    \/ BeginTransition(c) \/ Transition(c)
    \/ BeginNext(c) \/ ActivateNext(c)
    \/ BeginCreate(c) \/ Create(c)
    \/ RollBack(c)
=============================================================================
