---------------------------- MODULE TaskMutations ----------------------------
(***************************************************************************)
(* The task routes of the gateway: the tasks of a project are in SQLite    *)
(* (personal profile) or in PostgreSQL (team profile).                     *)
(***************************************************************************)
EXTENDS SqliteTasks, PostgresTasks

VARIABLES profile

vars == <<task, view, call, profile>>

TypeOK ==
  /\ RecordsTypeOK
  /\ CallsTypeOK
  /\ profile \in {"personal", "team"}

Init ==
  /\ RecordsInit
  /\ call = [c \in Clients |-> NoCall]
  /\ profile \in {"personal", "team"}

(* A client reads the board and, later, sends its change or does not.      *)
Client(c) ==
  /\ call[c] = NoCall
  /\ Look(c) \/ GiveUp(c)
  /\ UNCHANGED call

Personal == profile = "personal" /\ SqliteTasksNext /\ UNCHANGED call

Team == profile = "team" /\ PostgresTasksNext

Next ==
  /\ (\E c \in Clients : Client(c)) \/ Personal \/ Team
  /\ UNCHANGED profile

Spec == Init /\ [][Next]_vars

-----------------------------------------------------------------------------
Board == INSTANCE TaskBoard WITH
  status <- [t \in Tasks |-> task[t].status],
  needs <- [t \in Tasks |-> task[t].needs]

(* Both stores implement the board they promise: whatever calls overlap,   *)
(* a task is only started when no other is in progress and the one it      *)
(* needs is done, and what is deleted or done is not opened again.         *)
ImplementsBoard == Board!Spec

(* Never two tasks of a project in progress (next_task, resume and the     *)
(* step of a task each check it before they write).                        *)
OneActiveTask == \A t, u \in Active : t = u

(* The task in progress was started after the one it needs, and that one   *)
(* is still done: not deleted under it by a delete that overlaps, although *)
(* a task may be created with a dependency that is being deleted.          *)
ActiveDependencyDone == \A t \in Active : Ready(t)

(* A task that is done has all its steps done, whatever edits of the       *)
(* number of steps went before, and no task has more steps done than it    *)
(* has.                                                                    *)
StepsAddUp ==
  \A t \in Tasks :
    /\ task[t].done <= task[t].total
    /\ task[t].status = "done" => task[t].done = task[t].total

Accepted(c) ==
  LET t == view[c].task IN
  t # None /\ task'[t] # task[t] /\ view'[c] = Unseen

(* No lost update: a change that named the version it saw is only accepted *)
(* when nothing at all about the task changed since the client read it.    *)
NoLostUpdate == [][\A c \in Clients : Accepted(c) => view[c].fresh]_vars
=============================================================================
