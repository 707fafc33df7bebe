------------------------ MODULE TaskMutationsProofs ------------------------
(***************************************************************************)
(* Proofs about TaskMutations for every number of tasks and clients, of    *)
(* versions and of steps.  What a change does to one row is stated once    *)
(* (RowStep); that every operation of both stores is such a change needs   *)
(* the invariant of the open transactions, since a creation may commit     *)
(* between the checks of a transition and its write.                       *)
(***************************************************************************)
EXTENDS TaskMutations, TLAPS

(* What the checks of an open transaction found still holds when it writes. *)
CallIsValid(c) ==
  LET t == call[c].task IN
  /\ call[c].op \in Exclusive => t # None /\ Exists(t)
  /\ call[c].op \in Transitions => view[c].task = t /\ view[c].version = task[t].version
  /\ call[c].op = "next" => t \in Candidates
  /\ call[c].op = "resume" => Active = {} /\ task[t].status = "paused" /\ Ready(t)
  /\ call[c].op = "pause" => task[t].status = "in_progress"
  /\ call[c].op = "delete" => \A u \in Active : task[u].needs # t

CallsAreValid ==
  /\ \A c \in Clients : CallIsValid(c)
  /\ \A c, d \in Clients : call[c].op \in Exclusive /\ call[d].op \in Exclusive => c = d

(* A client that has seen the present version has seen the present row.    *)
ViewsAreHonest ==
  \A c \in Clients :
    view[c].task # None =>
      /\ view[c].version <= task[view[c].task].version
      /\ view[c].version = task[view[c].task].version => view[c].fresh

IInv ==
  /\ TypeOK
  /\ OneActiveTask
  /\ ActiveDependencyDone
  /\ StepsAddUp
  /\ CallsAreValid
  /\ ViewsAreHonest
  /\ profile = "personal" => \A c \in Clients : call[c] = NoCall

(* What any change does to the row of a task.                              *)
RowChange(t, row) ==
  /\ task' = [task EXCEPT ![t] = row]
  /\ row.version > task[t].version
  /\ row.done <= row.total
  /\ row.status = "done" => row.done = row.total
  /\ \/ task[t].status = "absent" /\ row.status = "todo"
     \/ /\ row.needs = task[t].needs
        /\ Exists(t)
        /\ \/ row.status = task[t].status
           \/ /\ row.status = "in_progress"
              /\ task[t].status \in {"todo", "paused"}
              /\ Active = {} /\ Ready(t)
           \/ task[t].status = "in_progress" /\ row.status \in {"paused", "skipped"}
           \/ row.status = "done"
           \/ row.status = "deleted" /\ \A u \in Active : task[u].needs # t

RowStep == \E t \in Tasks, row \in Row : RowChange(t, row)

LEMMA InitIInv == Init => IInv
  BY TasksAssumption
  DEF Init, RecordsInit, IInv, TypeOK, RecordsTypeOK, CallsTypeOK, NoRow, Row, Statuses,
      View, Unseen, NoCall, Call, Exclusive, Transitions, OneActiveTask,
      ActiveDependencyDone, Active, StepsAddUp, CallsAreValid,
      CallIsValid, ViewsAreHonest

(* A changed row, as Change writes it.                                     *)
LEMMA ChangeIsRowStep ==
  ASSUME RecordsTypeOK, NEW t \in Tasks, NEW row \in Row, Change(t, row),
         row.done <= row.total,
         row.status = "done" => row.done = row.total,
         \/ task[t].status = "absent" /\ row.status = "todo"
         \/ /\ row.needs = task[t].needs
            /\ Exists(t)
            /\ \/ row.status = task[t].status
               \/ /\ row.status = "in_progress"
                  /\ task[t].status \in {"todo", "paused"}
                  /\ Active = {} /\ Ready(t)
               \/ task[t].status = "in_progress" /\ row.status \in {"paused", "skipped"}
               \/ row.status = "done"
               \/ row.status = "deleted" /\ \A u \in Active : task[u].needs # t
  PROVE RowStep
<1> DEFINE r == [row EXCEPT !.version = task[t].version + 1]
<1>1. task[t] \in Row /\ task[t].version \in Nat
  BY DEF RecordsTypeOK, Row
<1>2. r \in Row /\ r.version = task[t].version + 1 /\ r.status = row.status
      /\ r.needs = row.needs /\ r.done = row.done /\ r.total = row.total
  BY <1>1 DEF Row
<1>3. RowChange(t, r)
  <2> HIDE DEF r
  <2>1. task' = [task EXCEPT ![t] = r]
    BY DEF Change, r
  <2> QED BY <1>1, <1>2, <2>1 DEF RowChange
<1> QED BY <1>2, <1>3 DEF RowStep

-----------------------------------------------------------------------------
(* What a store writes of a row is a row.                                  *)
LEMMA Rows ==
  ASSUME RecordsTypeOK, StepsAddUp, NEW t \in Tasks
  PROVE  /\ \A x \in Statuses :
              /\ Moved(t, x) \in Row /\ Moved(t, x).status = x
              /\ Moved(t, x).needs = task[t].needs
              /\ Moved(t, x).done = task[t].done /\ Moved(t, x).total = task[t].total
         /\ Completed(t) \in Row /\ Completed(t).status = "done"
         /\ Completed(t).needs = task[t].needs
         /\ Completed(t).done = Completed(t).total /\ Completed(t).total \in Nat
         /\ \A n \in Nat :
              /\ Stepped(t, n) \in Row /\ Stepped(t, n).needs = task[t].needs
              /\ Stepped(t, n).done = n /\ Stepped(t, n).total = task[t].total
              /\ Stepped(t, n).status = IF n = task[t].total THEN "done" ELSE "in_progress"
         /\ task[t] \in Row /\ task[t].done \in Nat /\ task[t].total \in Nat
         /\ task[t].version \in Nat /\ task[t].status \in Statuses
         /\ task[t].done <= task[t].total
<1>1. task[t] \in Row
  BY DEF RecordsTypeOK
<1>2. task[t].done \in Nat /\ task[t].total \in Nat /\ task[t].version \in Nat
      /\ task[t].status \in Statuses /\ task[t].needs \in Tasks \cup {None}
  BY <1>1 DEF Row
<1>3. \A x \in Statuses :
        /\ Moved(t, x) \in Row /\ Moved(t, x).status = x
        /\ Moved(t, x).needs = task[t].needs
        /\ Moved(t, x).done = task[t].done /\ Moved(t, x).total = task[t].total
  BY <1>1 DEF Moved, Row
<1>4. /\ Completed(t) \in Row /\ Completed(t).status = "done"
      /\ Completed(t).needs = task[t].needs
      /\ Completed(t).done = Completed(t).total /\ Completed(t).total \in Nat
  BY <1>1 DEF Completed, Row, Statuses
<1>5. \A n \in Nat :
        /\ Stepped(t, n) \in Row /\ Stepped(t, n).needs = task[t].needs
        /\ Stepped(t, n).done = n /\ Stepped(t, n).total = task[t].total
        /\ Stepped(t, n).status = IF n = task[t].total THEN "done" ELSE "in_progress"
  BY <1>1 DEF Stepped, Row, Statuses
<1>6. task[t].done <= task[t].total
  BY DEF StepsAddUp
<1> QED BY <1>1, <1>2, <1>3, <1>4, <1>5, <1>6

LEMMA NewRows ==
  ASSUME NEW d \in Tasks \cup {None}, NEW n \in 1 .. MaxSteps
  PROVE  /\ Created(d, n) \in Row /\ Created(d, n).status = "todo"
         /\ Created(d, n).done <= Created(d, n).total
<1>1. n \in Nat
  BY TasksAssumption
<1> QED BY <1>1 DEF Created, Row, Statuses

(* A conditional operation of TaskService changes one row as allowed.      *)
LEMMA ConditionalIsRowStep ==
  ASSUME RecordsTypeOK, StepsAddUp, NEW t \in Tasks, Conditional(t)
  PROVE  RowStep
<1> USE Rows
<1>0. /\ "paused" \in Statuses /\ "deleted" \in Statuses /\ "skipped" \in Statuses
      /\ "in_progress" \in Statuses
  BY DEF Statuses
<1>1. CASE CompleteTask(t)
  BY <1>1, ChangeIsRowStep DEF CompleteTask
<1>2. CASE DeleteTask(t)
  <2>1. \A u \in Active : task[u].needs # t
    BY <1>2 DEF DeleteTask, Required, Active
  <2> QED BY <1>0, <1>2, <2>1, ChangeIsRowStep DEF DeleteTask
<1>3. CASE PauseTask(t)
  BY <1>0, <1>3, ChangeIsRowStep DEF PauseTask, Active, Exists
<1>4. CASE SkipTask(t)
  BY <1>0, <1>4, ChangeIsRowStep DEF SkipTask, Active, Exists
<1>5. CASE ResumeTask(t)
  BY <1>0, <1>5, ChangeIsRowStep DEF ResumeTask, Exists
<1>6. CASE StepTask(t)
  <2>1. PICK n \in task[t].done + 1 .. task[t].total :
          /\ n < task[t].total => Active \subseteq {t}
          /\ Change(t, Stepped(t, n))
    BY <1>6 DEF StepTask
  <2>2. n \in Nat /\ n <= task[t].total
    BY <2>1
  <2>3. task[t].status \in {"todo", "in_progress"} /\ Ready(t) /\ Exists(t)
    BY <1>6 DEF StepTask, Exists
  <2>4. CASE n = task[t].total
    BY <2>1, <2>2, <2>3, <2>4, ChangeIsRowStep
  <2>5. CASE n < task[t].total /\ task[t].status = "in_progress"
    BY <2>1, <2>2, <2>3, <2>5, ChangeIsRowStep
  <2>6. CASE n < task[t].total /\ task[t].status = "todo"
    <3>1. Active = {}
      BY <2>1, <2>6 DEF Active
    <3>2. Stepped(t, n).status = "in_progress"
      BY <2>2, <2>6
    <3> QED BY <2>1, <2>2, <2>3, <2>6, <3>1, <3>2, ChangeIsRowStep
  <2> QED BY <2>2, <2>3, <2>4, <2>5, <2>6
<1>7. CASE EditTask(t)
  <2>1. PICK n \in 1 .. MaxSteps :
          /\ n >= task[t].done
          /\ task[t].status = "done" => n = task[t].done
          /\ Change(t, [task[t] EXCEPT !.total = n])
    BY <1>7 DEF EditTask
  <2> DEFINE r == [task[t] EXCEPT !.total = n]
  <2>2. r \in Row /\ r.status = task[t].status /\ r.needs = task[t].needs
        /\ r.done = task[t].done /\ r.total = n
    BY <2>1, TasksAssumption DEF Row
  <2>3. Exists(t) /\ Change(t, r)
    BY <1>7, <2>1 DEF EditTask
  <2> HIDE DEF r
  <2> QED BY <2>1, <2>2, <2>3, ChangeIsRowStep
<1> QED BY <1>1, <1>2, <1>3, <1>4, <1>5, <1>6, <1>7 DEF Conditional

(* Selecting the next task and changing it in one transaction.             *)
LEMMA SelectIsRowStep ==
  ASSUME RecordsTypeOK, NEW t \in Tasks, NEW row \in Row, Select(t, row),
         row.needs = task[t].needs, row.done <= row.total,
         row.status = "done" => row.done = row.total,
         row.status \in {"done", "in_progress"}
  PROVE  RowStep
<1> DEFINE r == [row EXCEPT !.version = task[t].version + 2]
<1>1. task[t].version \in Nat
  BY DEF RecordsTypeOK, Row
<1>2. r \in Row /\ r.version = task[t].version + 2 /\ r.status = row.status
      /\ r.needs = row.needs /\ r.done = row.done /\ r.total = row.total
  BY <1>1 DEF Row
<1>3. task' = [task EXCEPT ![t] = r]
  BY DEF Select
<1>4. task[t].status = "todo" /\ Active = {} /\ Ready(t) /\ Exists(t)
  BY DEF Select, Candidates, Exists
<1> HIDE DEF r
<1>5. r.version > task[t].version /\ r.done <= r.total /\ (r.status = "done" => r.done = r.total)
  BY <1>1, <1>2
<1>6. /\ r.needs = task[t].needs
      /\ \/ r.status = "in_progress" /\ task[t].status \in {"todo", "paused"}
            /\ Active = {} /\ Ready(t)
         \/ r.status = "done"
  BY <1>2, <1>4
<1>7. RowChange(t, r)
  BY <1>3, <1>4, <1>5, <1>6 DEF RowChange
<1> QED BY <1>2, <1>7 DEF RowStep

LEMMA UnversionedIsRowStep ==
  ASSUME RecordsTypeOK, StepsAddUp, NEW t \in Tasks,
         AddTask(t) \/ NextTask(t) \/ CompleteNext(t) \/ StepNext(t)
  PROVE  RowStep
<1> USE Rows
<1>1. CASE AddTask(t)
  BY <1>1, NewRows, ChangeIsRowStep DEF AddTask, IsNew
<1>2. CASE NextTask(t)
  BY <1>2, ChangeIsRowStep DEF NextTask, Candidates, Exists, Statuses
<1>3. CASE CompleteNext(t)
  BY <1>3, SelectIsRowStep DEF CompleteNext
<1>4. CASE StepNext(t)
  <2>1. PICK n \in task[t].done + 1 .. task[t].total : Select(t, Stepped(t, n))
    BY <1>4 DEF StepNext
  <2>2. n \in Nat /\ n <= task[t].total
    BY <2>1
  <2> QED BY <2>1, <2>2, SelectIsRowStep
<1> QED BY <1>1, <1>2, <1>3, <1>4
-----------------------------------------------------------------------------
(* What a transition found when it took the lock is what it writes from.   *)
LEMMA PostgresIsRowStep ==
  ASSUME IInv, NEW c \in Clients, Transition(c) \/ ActivateNext(c) \/ Create(c)
  PROVE  RowStep
<1> DEFINE t == call[c].task
<1>0. /\ "paused" \in Statuses /\ "deleted" \in Statuses /\ "in_progress" \in Statuses
      /\ RecordsTypeOK /\ StepsAddUp /\ CallIsValid(c) /\ call[c] \in Call
  BY DEF Statuses, IInv, TypeOK, CallsTypeOK, CallsAreValid
<1>1. CASE Transition(c)
  <2>1. t \in Tasks /\ Exists(t) /\ call[c].op \in Transitions
    BY <1>0, <1>1 DEF Transition, CallIsValid, Exclusive, Call
  <2>2. Change(t, IF call[c].op = "complete" THEN Completed(t) ELSE Moved(t, Target[call[c].op]))
    BY <1>1 DEF Transition
  <2> HIDE DEF t
  <2> USE Rows
  <2>3. CASE call[c].op = "complete"
    BY <1>0, <2>1, <2>2, <2>3, ChangeIsRowStep
  <2>4. CASE call[c].op = "pause"
    <3>1. Change(t, Moved(t, "paused"))
      BY <2>2, <2>4 DEF Target
    <3>2. task[t].status = "in_progress"
      BY <1>0, <2>4 DEF CallIsValid, t
    <3> QED BY <1>0, <2>1, <3>1, <3>2, ChangeIsRowStep
  <2>5. CASE call[c].op = "resume"
    <3>1. Change(t, Moved(t, "in_progress"))
      BY <2>2, <2>5 DEF Target
    <3>2. task[t].status = "paused" /\ Active = {} /\ Ready(t)
      BY <1>0, <2>5 DEF CallIsValid, t
    <3> QED BY <1>0, <2>1, <3>1, <3>2, ChangeIsRowStep
  <2>6. CASE call[c].op = "delete"
    <3>1. Change(t, Moved(t, "deleted"))
      BY <2>2, <2>6 DEF Target
    <3>2. \A u \in Active : task[u].needs # t
      BY <1>0, <2>6 DEF CallIsValid, t
    <3> QED BY <1>0, <2>1, <3>1, <3>2, ChangeIsRowStep
  <2> QED BY <2>1, <2>3, <2>4, <2>5, <2>6 DEF Transitions
<1>2. CASE ActivateNext(c)
  <2>1. t \in Tasks /\ Exists(t) /\ t \in Candidates /\ Change(t, Moved(t, "in_progress"))
    BY <1>0, <1>2 DEF ActivateNext, CallIsValid, Exclusive, Call
  <2> HIDE DEF t
  <2> QED BY <1>0, <2>1, Rows, ChangeIsRowStep DEF Candidates
<1>3. CASE Create(c)
  BY <1>0, <1>3, NewRows, ChangeIsRowStep DEF Create, IsNew, Call
<1> QED BY <1>1, <1>2, <1>3

(* A change by one of the stores, and who makes it.                        *)
Writes ==
  \/ Unversioned
  \/ \E c \in Clients : Versioned(c)
  \/ \E c \in Clients : Transition(c) \/ ActivateNext(c) \/ Create(c)

LEMMA WritesAreRowSteps ==
  ASSUME IInv, Writes
  PROVE  RowStep
<1>0. RecordsTypeOK /\ StepsAddUp
  BY DEF IInv, TypeOK
<1>1. CASE Unversioned
  BY <1>0, <1>1, ConditionalIsRowStep, UnversionedIsRowStep DEF Unversioned
<1>2. ASSUME NEW c \in Clients, Versioned(c) PROVE RowStep
  <2>1. view[c].task \in Tasks
    BY <1>0, <1>2 DEF Versioned, RecordsTypeOK, View
  <2> QED BY <1>0, <1>2, <2>1, ConditionalIsRowStep DEF Versioned
<1>3. ASSUME NEW c \in Clients, Transition(c) \/ ActivateNext(c) \/ Create(c) PROVE RowStep
  BY <1>3, PostgresIsRowStep
<1> QED BY <1>1, <1>2, <1>3 DEF Writes

(* Whatever the store: a step writes one row, or leaves all rows alone.    *)
LEMMA NextIsRowStep ==
  ASSUME IInv, [Next]_vars
  PROVE  RowStep \/ UNCHANGED task
<1>1. CASE Writes
  BY <1>1, WritesAreRowSteps
<1>2. CASE UNCHANGED vars
  BY <1>2 DEF vars
<1>3. CASE Next /\ ~Writes
  BY <1>3 DEF Next, Client, Look, GiveUp, Personal, Team, SqliteTasksNext, PostgresTasksNext,
     Writes, BeginTransition, BeginNext, BeginCreate, RollBack, Begin, recordVars
<1> QED BY <1>1, <1>2, <1>3
-----------------------------------------------------------------------------
(* One change keeps what is said of the rows alone.                        *)
LEMMA RowStepKeeps ==
  ASSUME IInv, RowStep
  PROVE  /\ task' \in [Tasks -> Row]
         /\ OneActiveTask' /\ ActiveDependencyDone' /\ StepsAddUp'
<1> PICK t \in Tasks, row \in Row : RowChange(t, row)
  BY DEF RowStep
<1>0. /\ task \in [Tasks -> Row]
      /\ OneActiveTask /\ ActiveDependencyDone /\ StepsAddUp
  BY DEF IInv, TypeOK, RecordsTypeOK
<1>1. /\ task'[t] = row
      /\ \A u \in Tasks \ {t} : task'[u] = task[u]
      /\ DOMAIN task' = Tasks
  BY <1>0 DEF RowChange
<1>2. \A u \in Tasks : task[u] \in Row /\ task[u].version \in Nat
                        /\ task[u].needs \in Tasks \cup {None}
  BY <1>0 DEF Row
<1>3. task' \in [Tasks -> Row]
  BY <1>0 DEF RowChange
<1>4. StepsAddUp'
  BY <1>0, <1>1 DEF StepsAddUp, RowChange
<1>5. OneActiveTask'
  <2>1. \A u \in Active' : u # t => u \in Active
    BY <1>1 DEF Active
  <2>2. t \in Active' => t \in Active \/ Active = {}
    BY <1>1 DEF Active, RowChange
  <2>3. \A u, v \in Active : u = v
    BY <1>0 DEF OneActiveTask
  <2> QED BY <2>1, <2>2, <2>3 DEF OneActiveTask
<1>6. ActiveDependencyDone'
  <2> SUFFICES ASSUME NEW u \in Tasks, task'[u].status = "in_progress",
                      task'[u].needs # None
               PROVE  task'[task'[u].needs].status = "done"
    BY DEF ActiveDependencyDone, Active, Ready
  <2> DEFINE d == task'[u].needs
  <2>1. CASE u # t
    <3>1. task'[u] = task[u] /\ d \in Tasks /\ u \in Active /\ task[u].needs = d
      BY <1>1, <1>2, <2>1 DEF Active
    <3>2. task[d].status = "done"
      BY <1>0, <3>1 DEF ActiveDependencyDone, Ready
    <3> HIDE DEF d
    <3>3. d = t => row.status = "done"
      BY <3>1, <3>2 DEF RowChange
    <3> QED BY <1>1, <3>1, <3>2, <3>3
  <2>2. CASE u = t
    <3>1. row.status = "in_progress" /\ d = row.needs
      BY <1>1, <2>2
    <3>2. task[t].status # "absent" /\ row.needs = task[t].needs
      BY <3>1 DEF RowChange
    <3>3. Ready(t)
      BY <1>0, <3>1 DEF RowChange, ActiveDependencyDone, Active
    <3>4. task[t].status # "done"
      BY <3>1 DEF RowChange
    <3>5. d \in Tasks /\ task[d].status = "done"
      BY <1>2, <3>1, <3>2, <3>3 DEF Ready
    <3>6. d # t
      BY <3>4, <3>5
    <3>7. task'[d] = task[d]
      BY <1>1, <3>5, <3>6
    <3> QED BY <3>5, <3>7
  <2> QED BY <2>1, <2>2
<1> QED BY <1>3, <1>4, <1>5, <1>6

(* A client that has seen the present version has seen the present row:    *)
(* every change moves the version, and never back.                         *)
LEMMA ViewsKept ==
  ASSUME IInv, RowStep, Unnoticed \/ \E c \in Clients : Answered(c)
  PROVE  view' \in [Clients -> View] /\ ViewsAreHonest'
<1> PICK t \in Tasks, row \in Row : RowChange(t, row)
  BY DEF RowStep
<1>0. task \in [Tasks -> Row] /\ view \in [Clients -> View] /\ ViewsAreHonest
  BY DEF IInv, TypeOK, RecordsTypeOK
<1>1. /\ task'[t] = row /\ row.version > task[t].version
      /\ \A u \in Tasks \ {t} : task'[u] = task[u]
  BY <1>0 DEF RowChange
<1>2. row.version \in Nat /\ task[t].version \in Nat
  BY <1>0 DEF Row
<1>3. Unseen \in View /\ Unseen.task = None
  BY DEF Unseen, View
<1>4. ASSUME NEW c \in Clients
      PROVE  /\ Aged(view[c]) \in View
             /\ Aged(view[c]).task # None =>
                  /\ Aged(view[c]).version <= task'[Aged(view[c]).task].version
                  /\ Aged(view[c]).version = task'[Aged(view[c]).task].version
                       => Aged(view[c]).fresh
  <2> DEFINE v == view[c]
  <2>1. v \in View /\ v.version \in Nat /\ v.task \in Tasks \cup {None}
    BY <1>0 DEF View
  <2>2. v.task # None => /\ v.version <= task[v.task].version
                         /\ v.version = task[v.task].version => v.fresh
    BY <1>0 DEF ViewsAreHonest
  <2>3. CASE v.task # None /\ task'[v.task] # task[v.task]
    <3>1. Aged(v) = [v EXCEPT !.fresh = FALSE] /\ v.task = t
      BY <1>1, <2>1, <2>3 DEF Aged
    <3>2. Aged(v) \in View /\ Aged(v).version = v.version /\ Aged(v).task = t
      BY <2>1, <3>1 DEF View
    <3>3. v.version < task'[t].version
      BY <1>1, <1>2, <2>1, <2>2, <2>3, <3>1
    <3> QED BY <1>1, <1>2, <2>1, <3>2, <3>3
  <2>4. CASE ~(v.task # None /\ task'[v.task] # task[v.task])
    <3>1. Aged(v) = v
      BY <2>4 DEF Aged
    <3> QED BY <2>1, <2>2, <2>4, <3>1
  <2> QED BY <2>3, <2>4
<1>5. \A c \in Clients : view'[c] = Unseen \/ view'[c] = Aged(view[c])
  BY DEF Unnoticed, Answered
<1>6. view' \in [Clients -> View]
  BY <1>3, <1>4, <1>5 DEF Unnoticed, Answered
<1>7. ViewsAreHonest'
  BY <1>3, <1>4, <1>5 DEF ViewsAreHonest
<1> QED BY <1>6, <1>7
-----------------------------------------------------------------------------
LEMMA TypesOfCalls ==
  ASSUME IInv
  PROVE  /\ task \in [Tasks -> Row] /\ call \in [Clients -> Call]
         /\ view \in [Clients -> View]
         /\ \A c \in Clients : /\ view[c].task \in Tasks \cup {None}
                               /\ call[c].task \in Tasks \cup {None}
                               /\ CallIsValid(c)
         /\ \A c, d \in Clients : call[c].op \in Exclusive /\ call[d].op \in Exclusive => c = d
         /\ NoCall \in Call /\ NoCall.op = "none"
  BY DEF IInv, TypeOK, RecordsTypeOK, CallsTypeOK, View, Call, NoCall, CallsAreValid

(* A client that opens a transaction while nobody holds the lock it needs  *)
(* holds it alone, and what it checked is what CallIsValid says.           *)
LEMMA BeginKeepsCalls ==
  ASSUME IInv, NEW c \in Clients, BeginTransition(c) \/ BeginNext(c) \/ BeginCreate(c)
  PROVE  CallsAreValid' /\ CallsTypeOK'
<1> USE TypesOfCalls
<1>1. UNCHANGED recordVars
  BY DEF BeginTransition, BeginNext, BeginCreate, Begin
<1>2. PICK op \in Exclusive \cup {"create"}, t \in Tasks \cup {None} :
        /\ call' = [call EXCEPT ![c] = [op |-> op, task |-> t]]
        /\ op \in Exclusive => Unlocked /\ t # None /\ Exists(t)
        /\ op \in Transitions => view[c].task = t /\ view[c].version = task[t].version
                                  /\ Valid(op, t)
        /\ op = "next" => t \in Candidates
  <2>1. CASE BeginTransition(c)
    BY <2>1 DEF BeginTransition, Begin, Exclusive, Transitions
  <2>2. CASE BeginNext(c)
    <3>1. PICK t \in Candidates : Unlocked /\ Begin(c, "next", t)
      BY <2>2 DEF BeginNext
    <3>2. t \in Tasks /\ t # None /\ Exists(t)
      BY <3>1, TasksAssumption DEF Candidates, Exists
    <3> QED BY <3>1, <3>2 DEF Begin, Exclusive, Transitions
  <2>3. CASE BeginCreate(c)
    <3>1. PICK d \in Tasks \cup {None} : Begin(c, "create", d)
      BY <2>3 DEF BeginCreate
    <3>2. "create" \notin Exclusive /\ "create" \notin Transitions
      BY DEF Exclusive, Transitions
    <3>3. call' = [call EXCEPT ![c] = [op |-> "create", task |-> d]]
      BY <3>1 DEF Begin
    <3> WITNESS "create" \in Exclusive \cup {"create"}, d \in Tasks \cup {None}
    <3> QED BY <3>2, <3>3 DEF Exclusive
  <2> QED BY <2>1, <2>2, <2>3
<1>3. call'[c] = [op |-> op, task |-> t] /\ \A x \in Clients \ {c} : call'[x] = call[x]
  BY <1>2
<1>4. CallsTypeOK'
  BY <1>2 DEF CallsTypeOK, Call, Exclusive
<1>5. ASSUME NEW x \in Clients PROVE CallIsValid(x)'
  <2>0. Active' = Active /\ Candidates' = Candidates /\ task' = task /\ view' = view
    BY <1>1 DEF recordVars, Candidates, Active, Ready
  <2>1. CASE x # c
    <3>1. call'[x] = call[x] /\ CallIsValid(x)
      BY <1>3, <2>1
    <3> QED BY <2>0, <3>1 DEF CallIsValid, Exists, Ready
  <2>2. CASE x = c
    <3>2. call'[x].op = op /\ call'[x].task = t
      BY <1>3, <2>2
    <3>3. op = "resume" => Active = {} /\ task[t].status = "paused" /\ Ready(t)
      BY <1>2 DEF Valid, Transitions
    <3>4. op = "pause" => task[t].status = "in_progress"
      BY <1>2 DEF Valid, Transitions
    <3>5. op = "delete" => \A u \in Active : task[u].needs # t
      BY <1>2 DEF Valid, Transitions, Required, Active
    <3> QED BY <1>2, <2>0, <2>2, <3>2, <3>3, <3>4, <3>5 DEF CallIsValid, Exists, Ready
  <2> QED BY <2>1, <2>2
<1>6. ASSUME NEW x \in Clients, NEW y \in Clients,
             call'[x].op \in Exclusive, call'[y].op \in Exclusive
      PROVE  x = y
  <2>1. op \in Exclusive => \A z \in Clients : call[z].op \notin Exclusive
    BY <1>2 DEF Unlocked
  <2>2. call'[c].op = op
    BY <1>3
  <2> QED BY <1>3, <1>6, <2>1, <2>2
<1> QED BY <1>4, <1>5, <1>6 DEF CallsAreValid
(* A transaction that ends leaves the others valid: it held the lock alone, *)
(* or it was a creation, which touches no task that another one holds.     *)
LEMMA EndKeepsCalls ==
  ASSUME IInv, NEW c \in Clients,
         Transition(c) \/ ActivateNext(c) \/ Create(c) \/ RollBack(c)
  PROVE  CallsAreValid' /\ CallsTypeOK'
<1> USE TypesOfCalls
<1>1. call' = [call EXCEPT ![c] = NoCall]
  BY DEF Transition, ActivateNext, Create, RollBack, End
<1>2. call'[c] = NoCall /\ \A x \in Clients \ {c} : call'[x] = call[x]
  BY <1>1
<1>3. CallsTypeOK'
  BY <1>1 DEF CallsTypeOK
<1>4. "none" \notin Exclusive /\ "none" \notin Transitions
  BY DEF Exclusive, Transitions
<1>5. ASSUME NEW x \in Clients PROVE CallIsValid(x)'
  <2>1. CASE call'[x].op \notin Exclusive
    BY <2>1 DEF CallIsValid, Exclusive, Transitions
  <2>2. CASE call'[x].op \in Exclusive
    <3>1. x # c /\ call'[x] = call[x] /\ call[x].op \in Exclusive /\ CallIsValid(x)
      BY <1>2, <1>4, <2>2
    <3>2. CASE RollBack(c)
      <4>1. task' = task /\ view' = view
        BY <3>2 DEF RollBack, recordVars
      <4>2. Active' = Active /\ Candidates' = Candidates
        BY <4>1 DEF Candidates, Active, Ready
      <4> QED BY <3>1, <4>1, <4>2 DEF CallIsValid, Exists, Ready
    <3>3. CASE Transition(c) \/ ActivateNext(c)
      BY <3>1, <3>3 DEF Transition, ActivateNext, Exclusive
    <3>4. CASE Create(c)
      <4>1. PICK t \in Tasks, n \in 1 .. MaxSteps :
              IsNew(t) /\ Change(t, Created(call[c].task, n))
        BY <3>4 DEF Create
      <4>2. Created(call[c].task, n).status = "todo"
        BY DEF Created
      <4>3. /\ task[t].status = "absent" /\ task'[t].status = "todo"
            /\ \A u \in Tasks \ {t} : task'[u] = task[u]
        <5>1. task' = [task EXCEPT ![t] = [Created(call[c].task, n) EXCEPT !.version = task[t].version + 1]]
          BY <4>1 DEF Change
        <5>2. [Created(call[c].task, n) EXCEPT !.version = task[t].version + 1].status = "todo"
          BY DEF Created
        <5> QED BY <4>1, <5>1, <5>2 DEF IsNew
      <4>4. Active' = Active
        BY <4>3 DEF Active
      <4>k. PICK k \in Tasks : k = call[x].task
        BY <3>1 DEF CallIsValid
      <4>5. Exists(k) /\ k # t
        BY <3>1, <4>3, <4>k DEF CallIsValid, Exists
      <4>6. task'[k] = task[k]
        BY <4>3, <4>5
      <4>7. Ready(k) => Ready(k)'
        <5>1. task[k].needs \in Tasks \cup {None}
          BY DEF Row
        <5> QED BY <4>3, <4>6, <5>1 DEF Ready
      <4>8. k \in Candidates => k \in Candidates'
        BY <4>4, <4>5, <4>6, <4>7 DEF Candidates
      <4>9. call[x].op \in Transitions => view'[x] = view[x]
        BY <3>1, <3>4, <4>k, <4>6 DEF Create, Unnoticed, Aged, CallIsValid
      <4>10. \A u \in Active : task'[u].needs = task[u].needs
        BY <4>3 DEF Active
      <4> QED BY <3>1, <4>k, <4>4, <4>5, <4>6, <4>7, <4>8, <4>9, <4>10 DEF CallIsValid, Exists
    <3> QED BY <3>2, <3>3, <3>4
  <2> QED BY <2>1, <2>2
<1>6. ASSUME NEW x \in Clients, NEW y \in Clients,
             call'[x].op \in Exclusive, call'[y].op \in Exclusive
      PROVE  x = y
  BY <1>2, <1>4, <1>6
<1> QED BY <1>3, <1>5, <1>6 DEF CallsAreValid

(* While nobody has a transaction open, the calls stay valid.              *)
LEMMA NoCallsKept ==
  ASSUME \A c \in Clients : call[c] = NoCall, UNCHANGED call
  PROVE  CallsAreValid'
  BY DEF CallsAreValid, CallIsValid, NoCall, Exclusive, Transitions

(* Reading a task, or giving a change up, concerns a client without an     *)
(* open transaction.                                                       *)
LEMMA ClientKeeps ==
  ASSUME IInv, NEW c \in Clients, Client(c)
  PROVE  /\ CallsAreValid' /\ ViewsAreHonest' /\ view' \in [Clients -> View]
<1> USE TypesOfCalls
<1>1. PICK v \in View : /\ view' = [view EXCEPT ![c] = v]
                        /\ v.task # None => v.version = task[v.task].version /\ v.fresh
  <2>1. CASE Look(c)
    <3>1. PICK t \in Tasks :
            view' = [view EXCEPT ![c] = [task |-> t, version |-> task[t].version, fresh |-> TRUE]]
      BY <2>1 DEF Look
    <3>2. task[t].version \in Nat
      BY DEF Row
    <3> DEFINE w == [task |-> t, version |-> task[t].version, fresh |-> TRUE]
    <3>3. w \in View /\ w.version = task[w.task].version /\ w.fresh
      BY <3>2 DEF View
    <3> QED BY <3>1, <3>3
  <2>2. CASE GiveUp(c)
    <3>1. Unseen \in View /\ Unseen.task = None
      BY DEF Unseen, View
    <3> QED BY <2>2, <3>1 DEF GiveUp
  <2> QED BY <2>1, <2>2 DEF Client
<1>2. task' = task /\ call' = call /\ call[c] = NoCall
  BY DEF Client, Look, GiveUp
<1>3. view'[c] = v /\ \A x \in Clients \ {c} : view'[x] = view[x]
  BY <1>1
<1>4. view' \in [Clients -> View]
  BY <1>1
<1>5. ViewsAreHonest'
  <2>1. \A t \in Tasks : task[t].version \in Nat
    BY DEF Row
  <2>2. v.task \in Tasks \cup {None}
    BY DEF View
  <2>3. ViewsAreHonest
    BY DEF IInv
  <2> QED BY <1>1, <1>2, <1>3, <2>1, <2>2, <2>3 DEF ViewsAreHonest
<1>6. Active' = Active /\ Candidates' = Candidates
  BY <1>2 DEF Active, Candidates, Ready
<1>7. ASSUME NEW x \in Clients PROVE CallIsValid(x)'
  <2>1. CASE x # c
    BY <1>2, <1>3, <1>6, <2>1 DEF CallIsValid, Exists, Ready
  <2>2. CASE x = c
    BY <1>2, <2>2 DEF CallIsValid, NoCall, Exclusive, Transitions
  <2> QED BY <2>1, <2>2
<1> QED BY <1>2, <1>4, <1>5, <1>7 DEF CallsAreValid
-----------------------------------------------------------------------------
LEMMA StepIInv == IInv /\ [Next]_vars => IInv'
<1> SUFFICES ASSUME IInv, [Next]_vars PROVE IInv'
  OBVIOUS
<1>1. CASE UNCHANGED vars
  BY <1>1 DEF vars, IInv, TypeOK, RecordsTypeOK, CallsTypeOK, OneActiveTask, Active,
     ActiveDependencyDone, Ready, StepsAddUp, CallsAreValid,
     CallIsValid, Exists, Candidates, ViewsAreHonest
<1>2. ASSUME NEW c \in Clients, Client(c), UNCHANGED profile PROVE IInv'
  <2>1. UNCHANGED <<task, call>>
    BY <1>2 DEF Client, Look, GiveUp
  <2> QED BY <1>2, <2>1, ClientKeeps
     DEF IInv, TypeOK, RecordsTypeOK, CallsTypeOK, OneActiveTask, Active,
         ActiveDependencyDone, Ready, StepsAddUp
<1>3. ASSUME Personal, UNCHANGED profile PROVE IInv'
  <2>1. Writes /\ (Unnoticed \/ \E c \in Clients : Answered(c))
    BY <1>3 DEF Personal, SqliteTasksNext, Writes, Unversioned, Versioned
  <2>2. RowStep
    BY <2>1, WritesAreRowSteps
  <2>3. UNCHANGED call /\ \A c \in Clients : call[c] = NoCall
    BY <1>3 DEF Personal, IInv
  <2>4. CallsAreValid'
    BY <2>3, NoCallsKept
  <2> QED BY <1>3, <2>1, <2>2, <2>3, <2>4, RowStepKeeps, ViewsKept
     DEF IInv, TypeOK, RecordsTypeOK, CallsTypeOK
<1>4. ASSUME NEW c \in Clients, UNCHANGED profile, profile = "team",
             Transition(c) \/ ActivateNext(c) \/ Create(c)
      PROVE  IInv'
  <2>1. Unnoticed \/ \E d \in Clients : Answered(d)
    BY <1>4 DEF Transition, ActivateNext, Create
  <2>2. RowStep
    BY <1>4, PostgresIsRowStep
  <2> QED BY <1>4, <2>1, <2>2, RowStepKeeps, ViewsKept, EndKeepsCalls
     DEF IInv, TypeOK, RecordsTypeOK
<1>5. ASSUME NEW c \in Clients, UNCHANGED profile, profile = "team",
             BeginTransition(c) \/ BeginNext(c) \/ BeginCreate(c) \/ RollBack(c)
      PROVE  IInv'
  <2>1. UNCHANGED recordVars
    BY <1>5 DEF BeginTransition, BeginNext, BeginCreate, Begin, RollBack
  <2>2. CallsAreValid' /\ CallsTypeOK'
    BY <1>5, BeginKeepsCalls, EndKeepsCalls
  <2>3. RecordsTypeOK'
    BY <2>1 DEF IInv, TypeOK, RecordsTypeOK, recordVars
  <2>4. /\ OneActiveTask' /\ ActiveDependencyDone' /\ StepsAddUp'
        /\ ViewsAreHonest'
    BY <2>1 DEF IInv, recordVars, OneActiveTask, Active, ActiveDependencyDone, Ready,
       StepsAddUp, ViewsAreHonest
  <2> QED BY <1>5, <2>2, <2>3, <2>4 DEF IInv, TypeOK
<1> QED BY <1>1, <1>2, <1>3, <1>4, <1>5 DEF Next, Team, PostgresTasksNext

LEMMA AlwaysIInv == Spec => []IInv
  BY InitIInv, StepIInv, PTL DEF Spec

(* Every reachable state of the task stores is well formed.                *)
THEOREM TypeCorrect == Spec => []TypeOK
<1>1. IInv => TypeOK
  BY DEF IInv
<1> QED BY <1>1, AlwaysIInv, PTL

(* For any number of tasks and of overlapping calls, never two tasks of a  *)
(* project are in progress.                                                *)
THEOREM AlwaysOneActiveTask == Spec => []OneActiveTask
<1>1. IInv => OneActiveTask
  BY DEF IInv
<1> QED BY <1>1, AlwaysIInv, PTL

(* The task a task in progress needs is done, however the deletion of the  *)
(* one and the creation of the other overlapped.                           *)
THEOREM AlwaysDependencyDone == Spec => []ActiveDependencyDone
<1>1. IInv => ActiveDependencyDone
  BY DEF IInv
<1> QED BY <1>1, AlwaysIInv, PTL

(* A task that is done has all its steps done.                             *)
THEOREM AlwaysAddUp == Spec => []StepsAddUp
<1>1. IInv => StepsAddUp
  BY DEF IInv
<1> QED BY <1>1, AlwaysIInv, PTL

-----------------------------------------------------------------------------
(* A change that moves the task a client has read and answers the client   *)
(* is the change of that client, and it saw the present version.           *)
LEMMA AcceptedIsFresh ==
  ASSUME IInv, [Next]_vars, NEW c \in Clients, Accepted(c)
  PROVE  view[c].fresh
<1> USE TypesOfCalls
<1> DEFINE t == view[c].task
<1>1. t \in Tasks /\ task'[t] # task[t] /\ view'[c] = Unseen /\ t # None
  BY DEF Accepted
<1>2. t # None /\ view[c].version = task[t].version => view[c].fresh
  BY DEF IInv, ViewsAreHonest
<1>3. view'[c] # Aged(view[c])
  <2>1. Aged(view[c]) = [view[c] EXCEPT !.fresh = FALSE]
    BY <1>1 DEF Aged
  <2>2. Aged(view[c]).task = t
    BY <2>1 DEF View
  <2> QED BY <1>1, <2>2 DEF Unseen
<1>4. ~Unnoticed
  BY <1>3 DEF Unnoticed
<1>5. \A d \in Clients : Answered(d) => d = c
  BY <1>3 DEF Answered
<1>6. ASSUME NEW d \in Clients, Versioned(d) PROVE view[c].fresh
  BY <1>1, <1>2, <1>5, <1>6 DEF Versioned
<1>7. ASSUME NEW d \in Clients, Transition(d) PROVE view[c].fresh
  BY <1>1, <1>2, <1>5, <1>7 DEF Transition, CallIsValid
<1>8. task' # task
  BY <1>1
<1> QED
  BY <1>4, <1>6, <1>7, <1>8
  DEF Next, vars, Client, Look, GiveUp, Personal, Team, SqliteTasksNext, PostgresTasksNext,
      Unversioned, BeginTransition, BeginNext, BeginCreate, RollBack, Begin, recordVars,
      ActivateNext, Create

(* No update is lost: a change that named the version it saw is accepted   *)
(* only when nothing about the task changed in between.                    *)
THEOREM NoUpdateIsLost == Spec => NoLostUpdate
<1>1. IInv /\ [Next]_vars => [\A c \in Clients : Accepted(c) => view[c].fresh]_vars
  BY AcceptedIsFresh
<1> QED BY <1>1, AlwaysIInv, PTL DEF Spec, NoLostUpdate

-----------------------------------------------------------------------------
LEMMA BoardInit == Init => Board!Init
  BY DEF Init, RecordsInit, NoRow, Board!Init

(* A change of a row is a step of the board, or one it does not show.      *)
LEMMA BoardStep ==
  ASSUME IInv, [Next]_vars
  PROVE  [Board!Next]_(Board!boardVars)
<1>0. task \in [Tasks -> Row]
  BY DEF IInv, TypeOK, RecordsTypeOK
<1>1. CASE UNCHANGED task
  BY <1>1 DEF Board!boardVars
<1>2. ASSUME NEW t \in Tasks, NEW row \in Row, RowChange(t, row)
      PROVE  [Board!Next]_(Board!boardVars)
  <2> DEFINE st == [u \in Tasks |-> task[u].status]
             nd == [u \in Tasks |-> task[u].needs]
  <2>1. /\ [u \in Tasks |-> task[u].status]' = [st EXCEPT ![t] = row.status]
        /\ [u \in Tasks |-> task[u].needs]' = [nd EXCEPT ![t] = row.needs]
    BY <1>0, <1>2 DEF RowChange
  <2>2. row.needs \in Tasks \cup {None} /\ task[t].needs \in Tasks \cup {None}
    BY <1>0 DEF Row
  <2>3. CASE task[t].status = "absent" /\ row.status = "todo"
    <3>1. Board!Create(t)
      BY <2>1, <2>2, <2>3 DEF Board!Create
    <3> QED BY <3>1 DEF Board!Next
  <2>4. CASE row.needs = task[t].needs /\ Exists(t)
    <3>1. [u \in Tasks |-> task[u].needs]' = nd
      BY <2>1, <2>4
    <3>2. Board!Active = Active
      BY DEF Board!Active, Active
    <3>3. CASE row.status = task[t].status
      <4>1. [u \in Tasks |-> task[u].status]' = st
        BY <2>1, <3>3
      <4> QED BY <3>1, <4>1 DEF Board!boardVars
    <3>4. CASE /\ row.status = "in_progress" /\ task[t].status \in {"todo", "paused"}
               /\ Active = {} /\ Ready(t)
      <4>1. Board!Ready(t)
        BY <2>2, <3>4 DEF Ready, Board!Ready
      <4>2. Board!Start(t)
        BY <2>1, <3>1, <3>2, <3>4, <4>1 DEF Board!Start, Board!Becomes
      <4> QED BY <4>2 DEF Board!Next
    <3>5. CASE task[t].status = "in_progress" /\ row.status \in {"paused", "skipped"}
      <4>1. Board!Suspend(t)
        BY <2>1, <3>1, <3>5 DEF Board!Suspend, Board!Becomes
      <4> QED BY <4>1 DEF Board!Next
    <3>6. CASE row.status = "done"
      <4>1. Board!Finish(t)
        BY <2>1, <2>4, <3>1, <3>6 DEF Board!Finish, Board!Becomes, Exists
      <4> QED BY <4>1 DEF Board!Next
    <3>7. CASE row.status = "deleted" /\ \A u \in Active : task[u].needs # t
      <4>1. Board!Delete(t)
        BY <2>1, <2>4, <3>1, <3>2, <3>7 DEF Board!Delete, Board!Becomes, Exists, Active
      <4> QED BY <4>1 DEF Board!Next
    <3> QED BY <1>2, <2>4, <3>3, <3>4, <3>5, <3>6, <3>7 DEF RowChange, Exists
  <2> QED BY <1>2, <2>3, <2>4 DEF RowChange
<1> QED BY <1>1, <1>2, NextIsRowStep DEF RowStep

(* Both task stores implement the board.                                   *)
THEOREM Implements == Spec => ImplementsBoard
  BY BoardInit, BoardStep, AlwaysIInv, PTL DEF Spec, ImplementsBoard, Board!Spec
=============================================================================
