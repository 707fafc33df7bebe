--------------------------- MODULE PostgresArchive ---------------------------
(***************************************************************************)
(* PostgresRuns while projects are archived and restored.  The store finds *)
(* the project of a run by trying the projects whose status is 'active'    *)
(* (_projects, _run_project), in a transaction before the operation's own, *)
(* so the runs of an archived project are found by nobody: get_run is      *)
(* None, a heartbeat is False, a result or a request is "not found", and   *)
(* the scheduler and the recovery pass them over.  A project that "needs   *)
(* review" is as invisible as an archived one.  Approvals are left to      *)
(* PostgresRuns: no caller of request_approval exists outside the tests.   *)
(***************************************************************************)
EXTENDS PostgresRuns

CONSTANTS Projects, ProjectOf

ASSUME ProjectsAssumption == ProjectOf \in [Runs -> Projects]

(* projects.status; a "closing" project is archived, but operations that   *)
(* looked their run up before the archiving may still be under way.        *)
VARIABLE project

archiveVars == <<row, exec, stopped, toCancel, finished, project>>

ArchiveTypeOK ==
  /\ TypeOK
  /\ project \in [Projects -> {"active", "closing", "archived"}]

ArchiveInit == Init /\ project = [p \in Projects |-> "active"]

MayFind(r) == project[ProjectOf[r]] # "archived"

MayMiss(r) == project[ProjectOf[r]] # "active"

(* Every run whose row the step changes was found.                         *)
Found(step) == step /\ \A r \in Runs : row'[r] # row[r] => MayFind(r)

-----------------------------------------------------------------------------
(* devcore_set_project_archived.                                           *)

Archive(p) ==
  /\ project[p] = "active"
  /\ project' = [project EXCEPT ![p] = "closing"]
  /\ UNCHANGED vars

LookupsEnd(p) ==
  /\ project[p] = "closing"
  /\ project' = [project EXCEPT ![p] = "archived"]
  /\ UNCHANGED vars

Restore(p) ==
  /\ project[p] # "active"
  /\ project' = [project EXCEPT ![p] = "active"]
  /\ UNCHANGED vars

-----------------------------------------------------------------------------
(* claim_run with a fresh token: any unused one, they are interchangeable. *)
FreshToken == CHOOSE t \in Tokens : exec[t] = Unborn

ClaimFound(e, r) ==
  /\ TokenLeft
  /\ MayFind(r)
  /\ Claim(e, FreshToken, r)

(* What an executor does when its run is not found.  Without a row, only   *)
(* the stop flag cancels, nothing says "paused", the heartbeat fails, and  *)
(* the result of whatever it had is lost.                                  *)

MissCancellation(t) ==
  /\ exec[t].pc = "cancelCheck"
  /\ IF stopped[exec[t].engine] THEN Conclude(t, "cancelled") ELSE Goto(t, "pauseCheck")
  /\ UNCHANGED <<row, stopped, toCancel>>

MissPause(t) ==
  /\ exec[t].pc = "pauseCheck"
  /\ Goto(t, "beat")
  /\ UNCHANGED <<row, stopped, toCancel>>

MissHeartbeat(t) ==
  /\ exec[t].pc = "beat"
  /\ Goto(t, "recheck")
  /\ UNCHANGED <<row, stopped, toCancel>>

MissRecheck_GoesOn(t) ==
  /\ exec[t].pc = "recheck"
  /\ Goto(t, "poll")
  /\ UNCHANGED <<row, stopped, toCancel>>

MissRecheck(t) ==
  /\ exec[t].pc = "recheck"
  /\ Conclude(t, "failed")
  /\ UNCHANGED <<row, stopped, toCancel>>

MissResult(t) ==
  /\ exec[t].pc = "finish"
  /\ exec[t].outcome # "paused"
  /\ Leave(t)
  /\ UNCHANGED <<row, stopped, toCancel>>

Misses(t) ==
  /\ Live(t) /\ MayMiss(exec[t].run)
  /\ \/ MissCancellation(t) \/ MissPause(t) \/ MissHeartbeat(t) \/ MissRecheck(t)
     \/ MissResult(t)

(* stop_worker swallows the exception of a run it cannot find.             *)
StopMisses(e, r) ==
  /\ r \in toCancel[e] /\ MayMiss(r)
  /\ toCancel' = [toCancel EXCEPT ![e] = @ \ {r}]
  /\ UNCHANGED <<row, exec, stopped>>

-----------------------------------------------------------------------------
(* The steps of an executor that look for its run in the database.         *)
LooksUp(t) == exec[t].pc \in {"cancelCheck", "pauseCheck", "beat", "recheck", "finish"}

ExecutorFinds(t) ==
  /\ exec[t].pc # "unborn"
  /\ LooksUp(t) => MayFind(exec[t].run)
  /\ ExecutorStep(t)

(* No heartbeat is due and a paused run stores nothing: neither looks.     *)
ExecutorLooksAway(t) == HeartbeatNotDue(t) \/ LeavePaused(t)

ResultStored(t) ==
  /\ exec[t].pc = "finish" /\ MayFind(exec[t].run)
  /\ StoreResult(t) \/ ConfirmCancellation(t)

Executes(t) ==
  \/ (ExecutorFinds(t) \/ ExecutorLooksAway(t) \/ Misses(t)) /\ UNCHANGED finished
  \/ ResultStored(t)

Stops(e) ==
  \E r \in Runs : \/ MayFind(r) /\ StopCancels(e, r)
                  \/ StopMisses(e, r) /\ UNCHANGED finished

ArchiveNext ==
  \/ /\ UNCHANGED project
     /\ \/ \E e \in Engines, r \in Runs : ClaimFound(e, r) /\ UNCHANGED finished
        \/ \E t \in Tokens : Executes(t)
        \/ \E t \in Tokens :
             /\ \/ NeverDispatched(t) \/ DeadlinePasses(t)
                \/ CallbackRaises(t) \/ ResultIsLost(t)
                \/ \E how \in {"ok", "bad"} : ProcessExits(t, how)
             /\ UNCHANGED finished
        \/ \E r \in Runs : HeartbeatExpires(r) /\ UNCHANGED finished
        \/ \E r \in Runs : MayFind(r) /\ Request(r)
        \/ Found(Recover)
        \/ \E e \in Engines : (StopWorker(e) \/ StartWorker(e) \/ Crash(e)) /\ UNCHANGED finished
        \/ \E e \in Engines : Stops(e)
  \/ \E p \in Projects : Archive(p) \/ LookupsEnd(p) \/ Restore(p)

ArchiveSpec == ArchiveInit /\ [][ArchiveNext]_archiveVars

(* Nobody executes the claim that made the run "running".                  *)
Orphaned(r) == row[r].status = "running" /\ ~Live(row[r].token)

(* A heartbeat is due and sent, whether or not it finds its run.           *)
Heartbeats(t) ==
  \/ exec[t].pc = "beat" /\ MayFind(exec[t].run) /\ RecordHeartbeat(t)
  \/ exec[t].pc = "beat" /\ MayMiss(exec[t].run) /\ MissHeartbeat(t)

Quiet == UNCHANGED <<finished, project>>

(* What the engine keeps doing: its executor threads go round their loops, *)
(* look for their runs at every heartbeat interval and store what came of  *)
(* them, stop_worker finishes, a stopped engine is started again, and      *)
(* whenever an engine is up and a project active its worker loop recovers  *)
(* and claims before it may be stopped or archived the next time.  Time    *)
(* passes: so comes the heartbeat timeout of a run whose execution is      *)
(* over, and the deadline of a process, which may be an hour away and is   *)
(* not relied on while the project is archived.  Requests, archiving and   *)
(* restoring, crashes, the exit of a command, and late heartbeats of a     *)
(* living execution are not fair.                                          *)
Fairness ==
  /\ \A t \in Tokens :
       /\ WF_archiveVars(Executes(t) /\ UNCHANGED project)
       /\ SF_archiveVars(Heartbeats(t) /\ Quiet)
       /\ WF_archiveVars(exec[t].run # None /\ ~MayMiss(exec[t].run) /\ DeadlinePasses(t) /\ Quiet)
  /\ \A r \in Runs :
       /\ WF_archiveVars(Orphaned(r) /\ HeartbeatExpires(r) /\ Quiet)
       /\ SF_archiveVars(\E e \in Engines : ~stopped[e] /\ ClaimFound(e, r) /\ Quiet)
  /\ SF_archiveVars((\E e \in Engines : ~stopped[e]) /\ Found(Recover) /\ UNCHANGED project)
  /\ \A e \in Engines : WF_archiveVars((Stops(e) \/ (StartWorker(e) /\ UNCHANGED finished))
                                         /\ UNCHANGED project)
  /\ \A p \in Projects : WF_archiveVars(LookupsEnd(p))

ArchiveFairSpec == ArchiveSpec /\ Fairness

-----------------------------------------------------------------------------
(* What archiving interrupts stops by itself: an executor learns at its    *)
(* next heartbeat that its run is gone and kills the process, and does not *)
(* wait for the deadline.                                                  *)
Executing(r) == \E t \in Tokens : Live(t) /\ exec[t].run = r

ArchivedRunStops ==
  \A r \in Runs : MayMiss(r) ~> ~MayMiss(r) \/ ~Executing(r)

(* A run that is "running", or whose cancellation waits for an executor.   *)
Unsettled(r) ==
  row[r].status = "running" \/ (row[r].cancel /\ row[r].status = "queued")

(* No run of a project that is at last left active stays "running" for     *)
(* good, and none keeps a cancellation pending: its execution ends it, or  *)
(* its heartbeat expires and the recovery takes it back for another one,   *)
(* also when archiving made its executor lose it.                          *)
NoRunIsStuck ==
  \A r \in Runs :
    <>[](project[ProjectOf[r]] = "active") => (Unsettled(r) ~> ~Unsettled(r))
=============================================================================
