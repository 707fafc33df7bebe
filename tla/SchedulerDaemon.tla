--------------------------- MODULE SchedulerDaemon ---------------------------
(***************************************************************************)
(* The local scheduler (DEV_CORE/Scheduler): the daemon and its cycle over *)
(* jobs.json, the timed lease and the file guard, the run history in       *)
(* SQLite, the registry synchronisation, and the maintenance command that  *)
(* resolves a claim nobody will ever finish.                               *)
(*                                                                         *)
(* The instance guard lets one daemon live at a time, under a new owner id *)
(* each time it starts.  Within a lock file's guard everything but a cycle *)
(* is short, so only a cycle is modelled as holding it across steps.  A    *)
(* lease may expire between any two steps.                                 *)
(***************************************************************************)
EXTENDS Integers, FiniteSets

CONSTANTS
  NumJobs,     \* entries of jobs.json, in the order of the file
  PolicyOf,    \* by edit of the registry: a recurring job's policy, or "once"
  OnceAt,      \* when a job of kind once is due
  Grace,       \* how late such a job may still be scheduled
  MaxClock,    \* bound: ticks of the clock; a recurring job has a slot at each
  MaxStarts,   \* bound: daemons ever started
  MaxFailures, \* bound: exceptions raised in cycles
  MaxEdits     \* bound: edits of the static registry, jobs.devcore.json

Jobs == 1 .. NumJobs
Slots == 1 .. MaxClock + 1
Never == 0

ASSUME DaemonAssumption ==
  /\ NumJobs \in Nat \ {0} /\ MaxClock \in Nat \ {0}
  /\ MaxStarts \in Nat /\ MaxFailures \in Nat /\ MaxEdits \in Nat /\ Grace \in Nat
  /\ OnceAt \in 1 .. MaxClock
  /\ PolicyOf \in [0 .. MaxEdits -> [Jobs -> {"skip", "run_once", "catch_up", "once"}]]

VARIABLES
  clock,
  jobs,        \* jobs.json: the synchronised definitions and the job states
  history,     \* run_history, by job and slot
  audit,       \* claim_resolution_audit: the claims resolved by hand
  executed,    \* how often the command of a slot was started
  lease,       \* scheduler.lock
  daemon,      \* the daemon: its number, where it is, and what it has in memory
  starts,      \* daemons started so far
  failures,    \* exceptions raised so far
  stop,        \* a stop request for the living daemon
  paused       \* scheduler.paused.json

vars == <<clock, jobs, history, audit, executed, lease, daemon, starts, failures, stop, paused>>

-----------------------------------------------------------------------------
JobState == [next: Slots \cup {Never}, last: 0 .. MaxClock,
             status: {"none", "ok", "error", "skipped"}, count: Nat]

Registry == [edits: 0 .. MaxEdits, state: [Jobs -> JobState]]

(* "idle" waits, "granted" has acquired the lease, the others are in a     *)
(* cycle: at a job of the list, executing its command, or about to record  *)
(* its result.                                                             *)
InCycle == {"at job", "executing", "recording"}

Daemon == [id: 0 .. MaxStarts, pc: {"down", "idle", "granted"} \cup InCycle,
           now: 0 .. MaxClock, at: 1 .. NumJobs + 1, result: {"none", "ok", "error"},
           loaded: Registry]

Blank == [edits |-> 0, state |-> [j \in Jobs |->
            [next |-> Never, last |-> Never, status |-> "none", count |-> 0]]]

Dead == [id |-> 0, pc |-> "down", now |-> 0, at |-> 1, result |-> "none", loaded |-> Blank]

TypeOK ==
  /\ clock \in 0 .. MaxClock
  /\ jobs \in Registry
  /\ history \in [Jobs -> [Slots -> {"none", "running", "ok", "error", "skipped"}]]
  /\ audit \subseteq Jobs \X Slots
  /\ executed \in [Jobs -> [Slots -> Nat]]
  /\ lease \in [owner: 0 .. MaxStarts, active: BOOLEAN]
  /\ daemon \in Daemon
  /\ starts \in 0 .. MaxStarts /\ failures \in 0 .. MaxFailures
  /\ stop \in BOOLEAN /\ paused \in BOOLEAN

-----------------------------------------------------------------------------
(* compute_next_run, for a slot at every tick.  The lookback of 30 days is *)
(* longer than any behaviour considered.                                   *)
Later(a, b) == IF a > b THEN a ELSE b

NextSlot(edits, j, last, now) ==
  LET base == IF last = Never THEN now ELSE last IN
  CASE PolicyOf[edits][j] = "skip"     -> Later(base, now) + 1
    [] PolicyOf[edits][j] = "run_once" -> IF base < now THEN now ELSE base + 1
    [] PolicyOf[edits][j] = "catch_up" -> base + 1
    [] OTHER -> IF OnceAt > now \/ (last = Never /\ now - OnceAt <= Grace)
                THEN OnceAt ELSE Never

Scheduled(edits, j, s, now) == [s EXCEPT !.next = NextSlot(edits, j, s.last, now)]

(* jobs.json synchronised with the static registry, which may have been    *)
(* edited, keeps the states and schedules what has no next run.            *)
Synchronised(edits) ==
  [edits |-> edits,
   state |-> [j \in Jobs |->
     IF jobs.state[j].next = Never THEN Scheduled(edits, j, jobs.state[j], clock)
     ELSE jobs.state[j]]]

Synchronise == \E e \in jobs.edits .. MaxEdits : jobs' = Synchronised(e)

Completed(j, s) == history[j][s] \in {"ok", "skipped"}

(* The result of a slot and the next slot, published together.             *)
Published(j, s, result, counts) ==
  Scheduled(daemon.loaded.edits, j,
            [daemon.loaded.state[j] EXCEPT !.last = s, !.status = result,
               !.count = IF result = "ok" /\ counts THEN @ + 1 ELSE @],
            daemon.now)

GuardFree == daemon.pc \notin InCycle

Own == lease.owner = daemon.id /\ lease.active

Init ==
  /\ clock = 0
  /\ jobs = Blank
  /\ history = [j \in Jobs |-> [s \in Slots |-> "none"]]
  /\ audit = {}
  /\ executed = [j \in Jobs |-> [s \in Slots |-> 0]]
  /\ lease = [owner |-> 0, active |-> FALSE]
  /\ daemon = Dead /\ starts = 0 /\ failures = 0
  /\ stop = FALSE /\ paused = FALSE

-----------------------------------------------------------------------------
(* The life of a daemon.                                                   *)

(* run_daemon takes the instance guard, is refused while paused, and       *)
(* synchronises the registry before it enters its loop.                    *)
Start ==
  /\ daemon.pc = "down"
  /\ ~paused
  /\ starts < MaxStarts
  /\ starts' = starts + 1
  /\ Synchronise
  /\ daemon' = [Dead EXCEPT !.id = starts + 1, !.pc = "idle"]
  /\ UNCHANGED <<clock, history, audit, executed, lease, failures, stop, paused>>

(* Its child dies with it, by the Job Object.  The stop request names the  *)
(* dead process: nobody else obeys it.                                     *)
Crash ==
  /\ daemon.pc # "down"
  /\ starts < MaxStarts
  /\ daemon' = Dead
  /\ stop' = FALSE
  /\ UNCHANGED <<clock, jobs, history, audit, executed, lease, starts, failures, paused>>

(* Only the own lease is given up.                                         *)
ObeyStop ==
  /\ daemon.pc = "idle"
  /\ stop
  /\ lease' = IF lease.owner = daemon.id THEN [owner |-> 0, active |-> FALSE] ELSE lease
  /\ daemon' = Dead
  /\ stop' = FALSE
  /\ UNCHANGED <<clock, jobs, history, audit, executed, starts, failures, paused>>

(* SchedulerLeaseLock.acquire; without the lease, the daemon observes.     *)
Acquire ==
  /\ daemon.pc = "idle" /\ ~stop
  /\ ~lease.active \/ lease.owner = daemon.id
  /\ lease' = [owner |-> daemon.id, active |-> TRUE]
  /\ daemon' = [daemon EXCEPT !.pc = "granted"]
  /\ UNCHANGED <<clock, jobs, history, audit, executed, starts, failures, stop, paused>>

(* SchedulerLeaseLock.hold: the lease just written may have expired.       *)
EnterCycle ==
  /\ daemon.pc = "granted"
  /\ daemon' = IF Own
               THEN [daemon EXCEPT !.pc = "at job", !.at = 1, !.now = clock, !.loaded = jobs]
               ELSE [daemon EXCEPT !.pc = "idle"]
  /\ UNCHANGED <<clock, jobs, history, audit, executed, lease, starts, failures, stop, paused>>

-----------------------------------------------------------------------------
(* A cycle.  All it changes in jobs.json is in memory until EndCycle.      *)

AtJob(j) == daemon.pc = "at job" /\ daemon.at = j /\ ~stop

Slot(j) == daemon.loaded.state[j].next

Due(j) == Slot(j) # Never /\ Slot(j) <= daemon.now

Advance(j, pc, s) ==
  daemon' = [daemon EXCEPT !.pc = pc, !.at = j + 1, !.result = "none",
                           !.loaded.state[j] = s]

PassOver(j) ==
  /\ AtJob(j) /\ ~Due(j)
  /\ Advance(j, "at job",
       IF Slot(j) = Never THEN Scheduled(daemon.loaded.edits, j, daemon.loaded.state[j], daemon.now)
       ELSE daemon.loaded.state[j])
  /\ UNCHANGED <<clock, jobs, history, audit, executed, lease, starts, failures, stop, paused>>

PublishCompleted_Uncounted(j) ==
  /\ AtJob(j) /\ Due(j) /\ Completed(j, Slot(j))
  /\ Advance(j, "at job", Published(j, Slot(j), history[j][Slot(j)], FALSE))
  /\ UNCHANGED <<clock, jobs, history, audit, executed, lease, starts, failures, stop, paused>>

PublishCompleted_Retained(j) ==
  /\ AtJob(j) /\ Due(j) /\ Completed(j, Slot(j))
  /\ Advance(j, "at job", daemon.loaded.state[j])
  /\ UNCHANGED <<clock, jobs, history, audit, executed, lease, starts, failures, stop, paused>>

(* jobs.json lags behind the history after a crash or a failed save.       *)
PublishCompleted(j) ==
  /\ AtJob(j) /\ Due(j) /\ Completed(j, Slot(j))
  /\ Advance(j, "at job", Published(j, Slot(j), history[j][Slot(j)],
                                    daemon.loaded.state[j].last # Slot(j)))
  /\ UNCHANGED <<clock, jobs, history, audit, executed, lease, starts, failures, stop, paused>>

(* A claim that is running or in error is left for reconciliation.         *)
Retain(j) ==
  /\ AtJob(j) /\ Due(j) /\ history[j][Slot(j)] \in {"running", "error"}
  /\ Advance(j, "at job", daemon.loaded.state[j])
  /\ UNCHANGED <<clock, jobs, history, audit, executed, lease, starts, failures, stop, paused>>

Execute(j) ==
  /\ history' = [history EXCEPT ![j][Slot(j)] = "running"]
  /\ executed' = [executed EXCEPT ![j][Slot(j)] = @ + 1]
  /\ daemon' = [daemon EXCEPT !.pc = "executing"]
  /\ UNCHANGED <<clock, jobs, audit, lease, starts, failures, stop, paused>>

Claim_Replaces(j) == AtJob(j) /\ Due(j) /\ ~Completed(j, Slot(j)) /\ Execute(j)

(* record_run inserts under a unique key, and the command is started.      *)
Claim(j) == AtJob(j) /\ Due(j) /\ history[j][Slot(j)] = "none" /\ Execute(j)

(* The command ends, or is killed at its timeout.                          *)
ExecutionEnds ==
  /\ daemon.pc = "executing"
  /\ \E r \in {"ok", "error"} : daemon' = [daemon EXCEPT !.pc = "recording", !.result = r]
  /\ UNCHANGED <<clock, jobs, history, audit, executed, lease, starts, failures, stop, paused>>

RecordResult_Unsaved(j) ==
  /\ daemon.pc = "recording" /\ daemon.at = j
  /\ Advance(j, "at job", Published(j, Slot(j), daemon.result, TRUE))
  /\ UNCHANGED <<clock, jobs, history, audit, executed, lease, starts, failures, stop, paused>>

RecordResult(j) ==
  /\ daemon.pc = "recording" /\ daemon.at = j
  /\ history' = [history EXCEPT ![j][Slot(j)] = daemon.result]
  /\ Advance(j, "at job", Published(j, Slot(j), daemon.result, TRUE))
  /\ UNCHANGED <<clock, jobs, audit, executed, lease, starts, failures, stop, paused>>

(* An exception of the files or of the database, at any job or while its   *)
(* result is recorded: nothing is saved and the lease is not extended.     *)
CycleRaises ==
  /\ daemon.pc \in {"at job", "recording"}
  /\ failures < MaxFailures
  /\ failures' = failures + 1
  /\ daemon' = [Dead EXCEPT !.id = daemon.id, !.pc = "idle"]
  /\ UNCHANGED <<clock, jobs, history, audit, executed, lease, starts, stop, paused>>

(* After the last job, or before the next one if a stop is requested.      *)
EndCycle ==
  /\ daemon.pc = "at job"
  /\ stop \/ daemon.at > NumJobs
  /\ jobs' = daemon.loaded
  /\ lease' = [owner |-> daemon.id, active |-> TRUE]
  /\ daemon' = [Dead EXCEPT !.id = daemon.id, !.pc = "idle"]
  /\ UNCHANGED <<clock, history, audit, executed, starts, failures, stop, paused>>

-----------------------------------------------------------------------------
(* Time and operators.                                                     *)

Tick ==
  /\ clock < MaxClock
  /\ clock' = clock + 1
  /\ UNCHANGED <<jobs, history, audit, executed, lease, daemon, starts, failures, stop, paused>>

LeaseExpires ==
  /\ lease.active
  /\ lease' = [lease EXCEPT !.active = FALSE]
  /\ UNCHANGED <<clock, jobs, history, audit, executed, daemon, starts, failures, stop, paused>>

SyncRegistry_Unguarded ==
  /\ Synchronise
  /\ UNCHANGED <<clock, history, audit, executed, lease, daemon, starts, failures, stop, paused>>

SyncRegistry ==
  /\ GuardFree
  /\ Synchronise
  /\ UNCHANGED <<clock, history, audit, executed, lease, daemon, starts, failures, stop, paused>>

Resolve(j, s) ==
  /\ history[j][s] \in {"running", "error"}
  /\ \E r \in {"ok", "skipped"} : history' = [history EXCEPT ![j][s] = r]
  /\ audit' = audit \cup {<<j, s>>}
  /\ UNCHANGED <<clock, jobs, executed, lease, daemon, starts, failures, stop, paused>>

ResolveClaim_LeaseOnly(j, s) == ~lease.active /\ Resolve(j, s)

(* resolve_claim.py, under the maintenance guard.                          *)
ResolveClaim(j, s) == GuardFree /\ ~lease.active /\ Resolve(j, s)

(* stop_scheduler.py, with --pause or without.                             *)
RequestStop ==
  /\ daemon.pc # "down"
  /\ stop' = TRUE
  /\ paused' \in {paused, TRUE}
  /\ paused' \/ starts < MaxStarts
  /\ UNCHANGED <<clock, jobs, history, audit, executed, lease, daemon, starts, failures>>

Resume ==
  /\ paused /\ daemon.pc = "down"
  /\ starts < MaxStarts
  /\ paused' = FALSE
  /\ UNCHANGED <<clock, jobs, history, audit, executed, lease, daemon, starts, failures, stop>>

-----------------------------------------------------------------------------
JobStep(j) ==
  PassOver(j) \/ PublishCompleted(j) \/ Retain(j) \/ Claim(j) \/ RecordResult(j)

Cycle == (\E j \in Jobs : JobStep(j)) \/ ExecutionEnds \/ EndCycle

Next ==
  \/ Start \/ Crash \/ ObeyStop \/ Acquire \/ EnterCycle \/ Cycle \/ CycleRaises
  \/ Tick \/ LeaseExpires \/ SyncRegistry \/ RequestStop \/ Resume
  \/ \E j \in Jobs, s \in Slots : ResolveClaim(j, s)

Spec == Init /\ [][Next]_vars

(* The supervisor starts a daemon that is missing, the daemon goes round   *)
(* every ten seconds, a command ends at its timeout, and a lease of thirty *)
(* seconds does not expire every time before the statement that follows.   *)
Fairness ==
  /\ WF_vars(Start) /\ WF_vars(LeaseExpires)
  /\ WF_vars(Acquire) /\ SF_vars(EnterCycle /\ Own) /\ WF_vars(EnterCycle)
  /\ WF_vars(Cycle) /\ WF_vars(ObeyStop)

FairSpec == Spec /\ Fairness

-----------------------------------------------------------------------------
(* The command of a slot is started at most once, whatever crashes,        *)
(* restarts and failed saves repeat its cycle.                             *)
SlotRunsOnce == \A j \in Jobs, s \in Slots : executed[j][s] <= 1

(* jobs.json never moves past a due slot that has not come to a result.    *)
OnlySettledSlotsArePassed ==
  [][\A j \in Jobs :
       LET s == jobs.state[j].next IN
       s # Never /\ jobs'.state[j].next # s
         => history[j][s] \in {"ok", "error", "skipped"}]_vars

(* The count in jobs.json is that of the slots passed with success: no     *)
(* crash between history and file counts one twice or forgets one.  A      *)
(* claim resolved by hand counts if the daemon still had to pass it.       *)
CountMatchesHistory ==
  \A j \in Jobs :
    LET passed == {s \in Slots : s <= jobs.state[j].last /\ history[j][s] = "ok"} IN
    /\ jobs.state[j].count <= Cardinality(passed)
    /\ jobs.state[j].count >= Cardinality({s \in passed : <<j, s>> \notin audit})

(* What jobs.json tells of the last slot is what the history records.      *)
PublishedIsRecorded ==
  \A j \in Jobs :
    LET s == jobs.state[j] IN
    s.last # Never => s.status = history[j][s.last] \/ <<j, s.last>> \in audit

(* A synchronised registry is not overwritten by a cycle that loaded the   *)
(* one before.                                                             *)
RegistryNeverRegresses == [][jobs'.edits >= jobs.edits]_vars

(* Nobody resolves the claim of a command that executes, however long it   *)
(* takes and although the lease expires meanwhile.                         *)
LiveClaimIsUntouched ==
  [][\A j \in Jobs :
       daemon.pc \in {"executing", "recording"} /\ daemon.at = j
         /\ history'[j][Slot(j)] # history[j][Slot(j)]
         => history[j][Slot(j)] = "running" /\ history'[j][Slot(j)] = daemon.result]_vars

(* A due slot is claimed in the end, and a completed one passed, whoever   *)
(* completed it, unless restarts are inhibited: neither the lease of a     *)
(* dead daemon nor failing cycles nor stuck claims of other jobs stop it.  *)
DueSlotIsAttended ==
  \A j \in Jobs :
    LET Unattended == LET s == jobs.state[j].next IN
          s # Never /\ s <= clock /\ history[j][s] \in {"none", "ok", "skipped"} IN
    Unattended ~> ~Unattended \/ paused
=============================================================================
