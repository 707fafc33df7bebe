---------------------------- MODULE RunScheduling ----------------------------
(***************************************************************************)
(* PostgresScheduleDispatcher beside POST /runs: due occurrences of the    *)
(* cron schedules of one project become runs, unless a run of the same     *)
(* schedule is still open.  The dispatcher of an occurrence goes through   *)
(* the stages of a submission (RunSubmission): it counts the queue and     *)
(* inserts in separate statements, under an advisory lock that only        *)
(* dispatchers take.  So Threads is here the request threads and one more. *)
(***************************************************************************)
EXTENDS RunSubmission

CONSTANTS
  Schedules,
  Dispatchers,   \* schedule daemons that share the database
  MaxClock,      \* bound: ticks of the clock; a schedule is due at each
  MaxFailures    \* bound: polls that end in an exception

Slots == 1 .. MaxClock + 1

(* The idempotency key of the run names the schedule and the slot; clients *)
(* are assumed not to invent such keys.                                    *)
Occurrences == Schedules \X Slots

Requests == Calls \ Occurrences

ASSUME SchedulingAssumption ==
  /\ Occurrences \subseteq Calls
  /\ \A o \in Occurrences : KeyOf[o] = o
  /\ \A c \in Requests : KeyOf[c] \notin Occurrences
  /\ MaxClock \in Nat /\ MaxFailures \in Nat
  /\ None \notin Occurrences

VARIABLES
  clock, failures,
  schedule,     \* the rows of schedules
  skipped,      \* the 'overlap' rows of schedule_history
  ended,        \* the runs that have come to a terminal status
  dispatcher    \* what a schedule daemon has read

schedulingVars == <<clock, failures, schedule, skipped, ended, dispatcher>>

allVars == <<vars, schedulingVars>>

Resting == [now |-> 0, due |-> {}, at |-> None]

SchedulingTypeOK ==
  /\ TypeOK
  /\ clock \in 0 .. MaxClock /\ failures \in 0 .. MaxFailures
  /\ schedule \in [Schedules -> [status: {"absent", "active", "disabled"}, next: Slots]]
  /\ skipped \subseteq Occurrences
  /\ ended \subseteq Calls
  /\ dispatcher \in [Dispatchers -> [now: 0 .. MaxClock, due: SUBSET Schedules,
                                     at: Occurrences \cup {None}]]

SchedulingInit ==
  /\ Init
  /\ clock = 0 /\ failures = 0
  /\ schedule = [s \in Schedules |-> [status |-> "absent", next |-> 1]]
  /\ skipped = {} /\ ended = {}
  /\ dispatcher = [d \in Dispatchers |-> Resting]

-----------------------------------------------------------------------------
Of(s) == {o \in Occurrences : o[1] = s}

Open_Queued(s) == {o \in Of(s) : run[o] \in {"queued", "back"}}

(* queued, running, paused or waiting for an approval.                     *)
Open(s) == {o \in Of(s) : run[o] # "none" /\ o \notin ended}

Due(s, now) == schedule[s].status = "active" /\ schedule[s].next <= now

(* The next slot after the time at which the poll began.                   *)
Passed(s, now) == [schedule EXCEPT ![s].next = now + 1]

Release(d) ==
  dispatcher' = [dispatcher EXCEPT ![d].at = None,
                                   ![d].due = @ \ {dispatcher[d].at[1]}]

-----------------------------------------------------------------------------
(* poll_once reads the time once, and the due schedules.                   *)
Poll(d) ==
  /\ dispatcher[d].due = {}
  /\ dispatcher' = [dispatcher EXCEPT ![d] =
       [now |-> clock, due |-> {s \in Schedules : Due(s, clock)}, at |-> None]]
  /\ UNCHANGED <<vars, clock, failures, schedule, skipped, ended>>

(* The advisory lock of the project, then the row if it is still due.      *)
LockSchedule(d, s) ==
  /\ s \in dispatcher[d].due
  /\ \A e \in Dispatchers : dispatcher[e].at = None
  /\ LET o == <<s, schedule[s].next>> IN
     IF Due(s, dispatcher[d].now)
     THEN /\ Goto(o, "admitting")
          /\ dispatcher' = [dispatcher EXCEPT ![d].at = o]
     ELSE /\ dispatcher' = [dispatcher EXCEPT ![d].due = @ \ {s}]
          /\ UNCHANGED pc
  /\ UNCHANGED <<answer, run, clock, failures, schedule, skipped, ended>>

Locked(d, o, stage) ==
  /\ dispatcher[d].at = o
  /\ pc[o] = stage

SkipOverlap_Unrecorded(d, o) ==
  /\ Locked(d, o, "admitting")
  /\ Open(o[1]) # {}
  /\ Goto(o, "new")
  /\ schedule' = Passed(o[1], dispatcher[d].now)
  /\ Release(d)
  /\ UNCHANGED <<answer, run, clock, failures, ended, skipped>>

(* An open run of the schedule: the occurrence is skipped, and recorded.   *)
SkipOverlap(d, o) ==
  /\ Locked(d, o, "admitting")
  /\ Open(o[1]) # {}
  /\ Goto(o, "new")
  /\ schedule' = Passed(o[1], dispatcher[d].now)
  /\ skipped' = skipped \cup {o}
  /\ Release(d)
  /\ UNCHANGED <<answer, run, clock, failures, ended>>

(* A full queue: the occurrence stays due.                                 *)
LeaveDue(d, o) ==
  /\ Locked(d, o, "admitting")
  /\ Open(o[1]) = {}
  /\ Cardinality(Queue) >= MaxQueued
  /\ Goto(o, "new")
  /\ Release(d)
  /\ UNCHANGED <<answer, run, clock, failures, schedule, skipped, ended>>

Admit(d, o) ==
  /\ Locked(d, o, "admitting")
  /\ Open(o[1]) = {}
  /\ Cardinality(Queue) < MaxQueued
  /\ CheckAdmission(o)
  /\ UNCHANGED schedulingVars

(* INSERT ... ON CONFLICT DO NOTHING, and the schedule advances, in one    *)
(* transaction with the lock.                                              *)
DispatchRun(d, o) ==
  /\ Locked(d, o, "saving")
  /\ PostgresSave(o)
  /\ schedule' = Passed(o[1], dispatcher[d].now)
  /\ Release(d)
  /\ UNCHANGED <<clock, failures, skipped, ended>>

(* An exception, such as a project whose Git root has gone, ends the       *)
(* daemon; a new one polls from the start.                                 *)
PollFails(d) ==
  /\ dispatcher[d].due # {}
  /\ failures < MaxFailures
  /\ failures' = failures + 1
  /\ dispatcher' = [dispatcher EXCEPT ![d] = Resting]
  /\ IF dispatcher[d].at = None THEN UNCHANGED pc ELSE Goto(dispatcher[d].at, "new")
  /\ UNCHANGED <<answer, run, clock, schedule, skipped, ended>>

-----------------------------------------------------------------------------
(* PostgresDailyMetricsSchedules: a schedule is registered once.           *)
Register(s) ==
  /\ schedule[s].status = "absent"
  /\ schedule' = [schedule EXCEPT ![s] = [status |-> "active", next |-> clock + 1]]
  /\ UNCHANGED <<vars, clock, failures, skipped, ended, dispatcher>>

Disabled(s) ==
  /\ schedule[s].status = "active"
  /\ schedule' = [schedule EXCEPT ![s].status = "disabled"]
  /\ UNCHANGED <<vars, clock, failures, skipped, ended, dispatcher>>

Disable_Unlocked(s) == Disabled(s)

(* The UPDATE waits for the row lock of a dispatcher.                      *)
Disable(s) ==
  /\ \A d \in Dispatchers : dispatcher[d].at \notin Of(s)
  /\ Disabled(s)

Tick ==
  /\ clock < MaxClock
  /\ clock' = clock + 1
  /\ UNCHANGED <<vars, failures, schedule, skipped, ended, dispatcher>>

(* The request threads, which share no lock with the dispatchers.          *)
Submission(c) ==
  /\ \/ LookUp(c) /\ Cardinality({d \in Requests : pc[d] \in InFlight}) < Threads - 1
     \/ CheckAdmission(c)
     \/ PostgresSave(c)
     \/ Retry(c)
  /\ UNCHANGED schedulingVars

QueueMoves(c) ==
  /\ LeaveQueue(c) \/ (c \notin ended /\ ReturnToQueue(c))
  /\ UNCHANGED schedulingVars

(* A run that is off the queue completes, fails or is cancelled.           *)
RunEnds(c) ==
  /\ run[c] = "gone"
  /\ ended' = ended \cup {c}
  /\ UNCHANGED <<vars, clock, failures, schedule, skipped, dispatcher>>

Dispatch(d) ==
  \/ \E s \in Schedules : LockSchedule(d, s)
  \/ \E o \in Occurrences :
       SkipOverlap(d, o) \/ LeaveDue(d, o) \/ Admit(d, o) \/ DispatchRun(d, o)

SchedulingNext ==
  \/ \E d \in Dispatchers : Poll(d) \/ Dispatch(d) \/ PollFails(d)
  \/ \E s \in Schedules : Register(s) \/ Disable(s)
  \/ \E c \in Requests : Submission(c)
  \/ \E c \in Calls : QueueMoves(c) \/ RunEnds(c)
  \/ Tick

SchedulingSpec == SchedulingInit /\ [][SchedulingNext]_allVars

-----------------------------------------------------------------------------
(* Never two open runs of one schedule, also when several daemons poll and *)
(* when a run comes back to the queue after a pause or a recovery.         *)
NoOverlap == \A s \in Schedules : Cardinality(Open(s)) <= 1

(* A schedule only moves past the slot it was due at with a run or with a  *)
(* record that it was skipped, and never with both.  A move may pass later *)
(* slots as well, those that a dispatcher came too late for: they have     *)
(* neither, and were due already, so that a move never skips the future.   *)
OccurrenceIsSettled ==
  [][\A s \in Schedules :
       LET due  == schedule[s].next
           next == schedule'[s].next IN
       schedule[s].status # "absent" /\ next # due =>
         /\ (run'[<<s, due>>] # "none") # (<<s, due>> \in skipped')
         /\ due < next
         /\ \A n \in due + 1 .. next - 1 :
              n <= clock /\ run'[<<s, n>>] = "none" /\ <<s, n>> \notin skipped']_allVars

(* Once a schedule is disabled, no run of it is dispatched any more, not   *)
(* even by a daemon that has found it due before.                          *)
DisabledIsQuiet ==
  [][\A s \in Schedules :
       schedule[s].status = "disabled" => \A o \in Of(s) : run[o] = "none" => run'[o] = "none"]_allVars
=============================================================================
