---------------------------- MODULE FairScheduler ----------------------------
(***************************************************************************)
(* FairRunScheduler.select_next_run and the claim that follows it, in the  *)
(* worker loop of an engine and in DurableRunEngine.step.  Nothing holds   *)
(* what a dispatcher has read until its claim: it counts the running runs  *)
(* project by project, then looks for queued runs project by project, then *)
(* fetches the oldest run of the winner, then claims it; others act        *)
(* between any two of these.  (PostgresRunStore does exactly this.         *)
(* SqliteRunStore counts, and lists, in one statement each: its behaviours *)
(* are those where such a series is not interrupted.)                      *)
(*                                                                         *)
(* Runs are numbered in the order of their created_at.                     *)
(***************************************************************************)
EXTENDS Integers, FiniteSets

CONSTANTS
  Projects, None,
  Workers,       \* worker loops: one per engine that shares the store
  Callers,       \* threads that serve POST /runs/step
  GlobalMax,     \* RunQuotaConfig.global_max_running
  ProjectMax,    \* RunQuotaConfig.project_max_running
  MaxRuns        \* bound: runs submitted, plus times a run leaves for the queue again

ASSUME SchedulerAssumption ==
  /\ Workers \cap Callers = {}
  /\ IsFiniteSet(Workers \cup Callers) /\ Workers \cup Callers # {}
  /\ IsFiniteSet(Projects)
  /\ None \notin Projects \cup Workers \cup Callers
  /\ GlobalMax \in Nat /\ ProjectMax \in Nat
  /\ MaxRuns \in Nat

Dispatchers == Workers \cup Callers

(* Runs a dispatcher executes at a time.                                   *)
Slots(d) == IF d \in Callers THEN 1 ELSE GlobalMax

Runs == 1 .. MaxRuns

VARIABLES
  status,     \* per run; "parked" is paused or waiting for an approval
  project,    \* the project of each submitted run
  owner,      \* the dispatcher that claimed a running run
  stray,      \* executions whose run has been taken away, per dispatcher
  requeues,   \* requeues so far
  choice      \* what a dispatcher has read, per dispatcher

vars == <<status, project, owner, stray, requeues, choice>>

Stages == {"idle", "counting", "listing", "chosen", "claiming"}

(* scope: the projects a caller of POST /runs/step asked for, or all.      *)
(* todo: the projects a series of statements has yet to visit.             *)
(* active: what count_active_runs has counted.  oldest: what               *)
(* list_projects_with_queued_runs has listed, 0 for nothing queued.        *)
Choice == [stage: Stages, scope: SUBSET Projects, todo: SUBSET Projects,
           active: [Projects -> 0 .. MaxRuns], oldest: [Projects -> 0 .. MaxRuns],
           winner: Projects \cup {None}, run: 0 .. MaxRuns]

Nothing == [p \in Projects |-> 0]

Idle == [stage |-> "idle", scope |-> {}, todo |-> {}, active |-> Nothing,
         oldest |-> Nothing, winner |-> None, run |-> 0]

TypeOK ==
  /\ status \in [Runs -> {"unborn", "queued", "running", "parked", "ended"}]
  /\ project \in [Runs -> Projects \cup {None}]
  /\ owner \in [Runs -> Dispatchers \cup {None}]
  /\ stray \in [Dispatchers -> Nat]
  /\ requeues \in 0 .. MaxRuns
  /\ choice \in [Dispatchers -> Choice]

Init ==
  /\ status = [r \in Runs |-> "unborn"]
  /\ project = [r \in Runs |-> None]
  /\ owner = [r \in Runs |-> None]
  /\ stray = [d \in Dispatchers |-> 0]
  /\ requeues = 0
  /\ choice = [d \in Dispatchers |-> Idle]

-----------------------------------------------------------------------------
(* The bound on what happens to runs.                                      *)
Bounded == Cardinality({r \in Runs : status[r] # "unborn"}) + requeues < MaxRuns

Running == {r \in Runs : status[r] = "running"}

RunningOf(p) == {r \in Running : project[r] = p}

Queued(p) == {r \in Runs : status[r] = "queued" /\ project[r] = p}

(* ORDER BY created_at LIMIT 1, or min(created_at).                        *)
Oldest(p) ==
  IF Queued(p) = {} THEN 0
  ELSE CHOOSE r \in Queued(p) : \A s \in Queued(p) : r <= s

(* Unfinished futures of a worker loop, or the one run of a step request.  *)
Executing(d) == Cardinality({r \in Runs : owner[r] = d}) + stray[d]

Read(d, c) ==
  /\ choice' = [choice EXCEPT ![d] = c]
  /\ UNCHANGED <<status, project, owner, stray, requeues>>

(* Sum of what has been counted, over at most a handful of projects.       *)
Counted(active) ==
  Cardinality({x \in Projects \X (1 .. MaxRuns) : x[2] <= active[x[1]]})

-----------------------------------------------------------------------------
BeginSelection_StrayForgotten(d) ==
  /\ choice[d].stage = "idle"
  /\ Cardinality({r \in Runs : owner[r] = d}) < Slots(d)
  /\ \E scope \in {Projects} \cup {{p} : p \in {q \in Projects : d \in Callers}} :
       Read(d, [Idle EXCEPT !.stage = "counting", !.scope = scope, !.todo = Projects])

BeginSelection(d) ==
  /\ choice[d].stage = "idle"
  /\ Executing(d) < Slots(d)
  /\ \E scope \in {Projects} \cup {{p} : p \in {q \in Projects : d \in Callers}} :
       Read(d, [Idle EXCEPT !.stage = "counting", !.scope = scope, !.todo = Projects])

CountProject(d, p) ==
  LET c == choice[d] IN
  /\ c.stage = "counting"
  /\ p \in c.todo
  /\ Read(d, [c EXCEPT !.todo = @ \ {p}, !.active[p] = Cardinality(RunningOf(p))])

(* The global quota is checked on the sum.                                 *)
CheckSaturation(d) ==
  LET c == choice[d] IN
  /\ c.stage = "counting"
  /\ c.todo = {}
  /\ Read(d, IF Counted(c.active) >= GlobalMax THEN Idle
             ELSE [c EXCEPT !.stage = "listing", !.todo = Projects])

ListProject(d, p) ==
  LET c == choice[d] IN
  /\ c.stage = "listing"
  /\ p \in c.todo
  /\ Read(d, [c EXCEPT !.todo = @ \ {p}, !.oldest[p] = Oldest(p)])

Eligible_AtCapacity(c) ==
  {p \in c.scope : c.oldest[p] # 0 /\ c.active[p] <= ProjectMax}

Eligible(c) ==
  {p \in c.scope : c.oldest[p] # 0 /\ c.active[p] < ProjectMax}

(* Fewest running runs first, then the oldest queued run.                  *)
Precedes(c, p, q) ==
  \/ c.active[p] < c.active[q]
  \/ c.active[p] = c.active[q] /\ c.oldest[p] <= c.oldest[q]

ChooseProject(d) ==
  LET c == choice[d] IN
  /\ c.stage = "listing"
  /\ c.todo = {}
  /\ \/ Eligible(c) = {} /\ Read(d, Idle)
     \/ \E p \in Eligible(c) :
          /\ \A q \in Eligible(c) : Precedes(c, p, q)
          /\ Read(d, [Idle EXCEPT !.stage = "chosen", !.winner = p])

(* get_oldest_queued_run: the queue may be empty by now.                   *)
FetchOldest(d) ==
  LET c == choice[d]
      r == Oldest(c.winner) IN
  /\ c.stage = "chosen"
  /\ Read(d, IF r = 0 THEN Idle ELSE [Idle EXCEPT !.stage = "claiming", !.run = r])

(* claim_run: another dispatcher may have been faster.                     *)
Claim(d) ==
  LET r == choice[d].run IN
  /\ choice[d].stage = "claiming"
  /\ choice' = [choice EXCEPT ![d] = Idle]
  /\ IF status[r] = "queued"
     THEN /\ status' = [status EXCEPT ![r] = "running"]
          /\ owner' = [owner EXCEPT ![r] = d]
     ELSE UNCHANGED <<status, owner>>
  /\ UNCHANGED <<project, stray, requeues>>

-----------------------------------------------------------------------------
(* What happens to runs meanwhile.                                         *)

Submit ==
  /\ Bounded
  /\ \E r \in Runs, p \in Projects :
       /\ status[r] = "unborn"
       /\ \A s \in Runs : s < r => status[s] # "unborn"
       /\ status' = [status EXCEPT ![r] = "queued"]
       /\ project' = [project EXCEPT ![r] = p]
       /\ UNCHANGED <<owner, stray, requeues, choice>>

(* The execution ends, is stored, and its future is done.                  *)
Finish(r) ==
  /\ status[r] = "running"
  /\ status' = [status EXCEPT ![r] = "ended"]
  /\ owner' = [owner EXCEPT ![r] = None]
  /\ UNCHANGED <<project, stray, requeues, choice>>

(* The run is paused, sent to approval or recovered as stale while its     *)
(* execution goes on for a while.                                          *)
TakeAway(r) ==
  /\ status[r] = "running"
  /\ Bounded
  /\ requeues' = requeues + 1
  /\ \E s \in {"queued", "parked"} : status' = [status EXCEPT ![r] = s]
  /\ owner' = [owner EXCEPT ![r] = None]
  /\ stray' = [stray EXCEPT ![owner[r]] = @ + 1]
  /\ UNCHANGED <<project, choice>>

StrayEnds_Leaked(d) ==
  /\ stray[d] > 0
  /\ UNCHANGED vars

StrayEnds(d) ==
  /\ stray[d] > 0
  /\ stray' = [stray EXCEPT ![d] = @ - 1]
  /\ UNCHANGED <<status, project, owner, requeues, choice>>

(* Resume or approval.                                                     *)
Requeue(r) ==
  /\ status[r] = "parked"
  /\ status' = [status EXCEPT ![r] = "queued"]
  /\ UNCHANGED <<project, owner, stray, requeues, choice>>

(* Pause of a queued run, and cancellation of one that does not run.       *)
Withdraw(r) ==
  /\ status[r] \in {"queued", "parked"}
  /\ \/ status' = [status EXCEPT ![r] = "ended"] /\ UNCHANGED requeues
     \/ /\ status[r] = "queued"
        /\ Bounded
        /\ requeues' = requeues + 1
        /\ status' = [status EXCEPT ![r] = "parked"]
  /\ UNCHANGED <<project, owner, stray, choice>>

-----------------------------------------------------------------------------
Dispatch(d) ==
  \/ BeginSelection(d)
  \/ \E p \in Projects : CountProject(d, p) \/ ListProject(d, p)
  \/ CheckSaturation(d)
  \/ ChooseProject(d)
  \/ FetchOldest(d)
  \/ Claim(d)

Next ==
  \/ Submit
  \/ \E d \in Dispatchers : Dispatch(d) \/ StrayEnds(d)
  \/ \E r \in Runs : Finish(r) \/ TakeAway(r) \/ Requeue(r) \/ Withdraw(r)

Spec == Init /\ [][Next]_vars

(* A worker loop goes round every poll_interval; a run and an execution    *)
(* that has lost its run end at the latest at the deadline of the process. *)
(* Nobody has to call POST /runs/step.                                     *)
Fairness ==
  /\ \A d \in Workers : WF_vars(Dispatch(d))
  /\ \A d \in Dispatchers : WF_vars(StrayEnds(d))
  /\ \A r \in Runs : WF_vars(Finish(r))

FairSpec == Spec /\ Fairness

-----------------------------------------------------------------------------
(* What stale counts can cost: every dispatcher but one may add one run    *)
(* beyond a quota, whatever number of times it tries.  With a single       *)
(* dispatcher the quotas are strict.                                       *)
BoundedOvershoot ==
  LET Others == Cardinality(Dispatchers) - 1 IN
  /\ Cardinality(Running) <= GlobalMax + Others
  /\ \A p \in Projects : Cardinality(RunningOf(p)) <= ProjectMax + Others

(* A dispatcher never executes more runs than it has threads, counting     *)
(* those that were taken away from it and have not stopped yet.            *)
WithinSlots == \A d \in Dispatchers : Executing(d) <= Slots(d)

(* Every queued run leaves the queue: neither saturated projects, nor      *)
(* stale lists, nor the slots of executions that were taken away stop the  *)
(* worker for good.                                                        *)
QueuedRunsStart == \A r \in Runs : status[r] = "queued" ~> status[r] # "queued"
=============================================================================
