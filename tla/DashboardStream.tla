--------------------------- MODULE DashboardStream ---------------------------
(***************************************************************************)
(* The event stream of the dashboard: every connected browser has a        *)
(* coroutine (event_generator) which looks once a second for a change of   *)
(* the inputs, has the dashboard generated again when there is one, and    *)
(* tells the browser which generation is current.  The coroutines share    *)
(* two watchers (InputWatcher: one probe at a time, its result used for a  *)
(* second) and one coordinator (RefreshCoordinator: one generation at a    *)
(* time).  They run in one event loop and interleave at every await;       *)
(* probes, cursor reads and generators run in threads and processes.       *)
(*                                                                         *)
(* The store is the register of SnapshotRegister, which DashboardStore     *)
(* implements, with a name for each publication: 0 stands for none.        *)
(***************************************************************************)
EXTENDS Naturals

CONSTANTS
  Clients,
  MaxInput,      \* bound: versions of the inputs
  MaxOthers,     \* bound: generations by other processes
  MaxFailures    \* bound: probes, cursor reads and generations that fail

ASSUME BoundsAssumption == MaxInput \in Nat \ {0} /\ MaxOthers \in Nat /\ MaxFailures \in Nat

VARIABLES
  input,         \* version of what is rendered
  published,     \* name and version of the published generation
  generator,     \* who holds the generation lock, and the version gathered
  watch,         \* _sse_inputs and _sse_publications
  coordinator,   \* _sse_refresh
  client,        \* the coroutines, and the last cursor told to their browser
  others, failures

vars == <<input, published, generator, watch, coordinator, client, others, failures>>

Watchers == {"inputs", "publications"}

Watch == [revision: Nat, signature: Nat,
          failed: BOOLEAN,   \* the last probe did
          task: {"none", "started", "read"}, value: Nat]

Client == [phase: {"away", "inputs", "publications", "refresh", "cursor"},
           stage: {"ask", "wait", "have"},
           greeted: BOOLEAN,
           last: Nat, now: Nat, pub: Nat,   \* last_ts, current_ts, last_publication_revision
           hold: Nat,                       \* what the thread has read
           told: Nat]

TypeOK ==
  /\ input \in 1 .. MaxInput
  /\ published \in [id: Nat, version: 0 .. MaxInput]
  /\ generator \in [by: {"nobody", "refresh", "other"}, version: 0 .. MaxInput]
  /\ watch \in [Watchers -> Watch]
  /\ coordinator \in [completed: Nat, target: Nat, task: {"none", "running", "published"}]
  /\ client \in [Clients -> Client]
  /\ others \in 0 .. MaxOthers /\ failures \in 0 .. MaxFailures

Unsampled == [revision |-> 0, signature |-> 0, failed |-> FALSE, task |-> "none", value |-> 0]

Away == [phase |-> "away", stage |-> "ask", greeted |-> FALSE,
         last |-> 0, now |-> 0, pub |-> 0, hold |-> 0, told |-> 0]

Init ==
  /\ input = 1
  /\ published = [id |-> 0, version |-> 0]
  /\ generator = [by |-> "nobody", version |-> 0]
  /\ watch = [W \in Watchers |-> Unsampled]
  /\ coordinator = [completed |-> 0, target |-> 0, task |-> "none"]
  /\ client = [c \in Clients |-> Away]
  /\ others = 0 /\ failures = 0

-----------------------------------------------------------------------------
At(c, phase, stage) == client[c].phase = phase /\ client[c].stage = stage

Moved(k, phase, stage) == [k EXCEPT !.phase = phase, !.stage = stage]

(* An exception ends a stream that is still greeting its client; in the    *)
(* loop it is reported, and the loop sleeps and turns.                     *)
Raised(k) == IF k.greeted THEN [Moved(k, "inputs", "ask") EXCEPT !.now = 0] ELSE [Away EXCEPT !.told = k.told]

Fails == failures < MaxFailures /\ failures' = failures + 1

(* Those who wait for a shared task go on when it ends.                    *)
Woken(phase, After(_)) ==
  [c \in Clients |-> IF At(c, phase, "wait") THEN After(client[c]) ELSE client[c]]

(* An answer of the first watcher is the baseline of a new stream, or says *)
(* in a turn whether there is a change this client has not seen published. *)
SeeInputs(k, w) ==
  CASE ~k.greeted -> [Moved(k, "publications", "ask") EXCEPT !.last = w.revision]
    [] k.greeted /\ w.revision > k.last -> [Moved(k, "refresh", "ask") EXCEPT !.now = w.revision]
    [] k.greeted /\ w.revision <= k.last -> Moved(k, "publications", "ask")

(* The second has the baseline of publications, or the notice of one by    *)
(* somebody else.                                                          *)
SeePublications(k, w) ==
  IF ~k.greeted THEN [Moved(k, "cursor", "ask") EXCEPT !.pub = w.revision]
  ELSE [Moved(k, "inputs", "ask") EXCEPT
          !.pub = w.revision, !.told = IF w.revision > k.pub THEN w.signature ELSE @]

Answered(W, k, w) == IF W = "inputs" THEN SeeInputs(k, w) ELSE SeePublications(k, w)

-----------------------------------------------------------------------------
(* The watchers.  What a probe finds: the version of the inputs, the name  *)
(* of the published generation.                                            *)
Found(W) == IF W = "inputs" THEN input ELSE published.id

(* _sample: a probe that runs is joined.  Otherwise what the last one came *)
(* to stands for an interval of a second, answer or error, and after that  *)
(* a new one is started; the model lets each be the case at any time.      *)
Join(c, W) ==
  /\ At(c, W, "ask")
  /\ watch[W].task # "none"
  /\ client' = [client EXCEPT ![c].stage = "wait"]
  /\ UNCHANGED <<input, published, generator, watch, coordinator, others, failures>>

Start(c, W) ==
  /\ At(c, W, "ask")
  /\ watch[W].task = "none"
  /\ watch' = [watch EXCEPT ![W].task = "started"]
  /\ client' = [client EXCEPT ![c].stage = "wait"]
  /\ UNCHANGED <<input, published, generator, coordinator, others, failures>>

Reuse(c, W) ==
  LET w == watch[W] IN
  /\ At(c, W, "ask")
  /\ w.task = "none"
  /\ w.revision > 0 \/ w.failed
  /\ client' = [client EXCEPT ![c] = IF w.failed THEN Raised(@) ELSE Answered(W, @, w)]
  /\ UNCHANGED <<input, published, generator, watch, coordinator, others, failures>>

Probe(W) ==
  /\ watch[W].task = "started"
  /\ watch' = [watch EXCEPT ![W].task = "read", ![W].value = Found(W)]
  /\ UNCHANGED <<input, published, generator, coordinator, client, others, failures>>

Changed(w) == w.revision = 0 \/ w.value # w.signature

ProbeEnds(W) ==
  LET old == watch[W]
      new == [revision |-> IF Changed(old) THEN old.revision + 1 ELSE old.revision,
              signature |-> old.value,
              failed |-> FALSE, task |-> "none", value |-> 0]
  IN
  /\ old.task = "read"
  /\ watch' = [watch EXCEPT ![W] = new]
  /\ client' = Woken(W, LAMBDA k : Answered(W, k, new))
  /\ UNCHANGED <<input, published, generator, coordinator, others, failures>>

ProbeFails(W) ==
  /\ watch[W].task # "none"
  /\ Fails
  /\ watch' = [watch EXCEPT ![W].task = "none", ![W].failed = TRUE, ![W].value = 0]
  /\ client' = Woken(W, Raised)
  /\ UNCHANGED <<input, published, generator, coordinator, others>>

(* A caller waits five seconds for the probe, which goes on without it.    *)
WaitExpires(c, W) ==
  /\ At(c, W, "wait")
  /\ Fails
  /\ client' = [client EXCEPT ![c] = Raised(@)]
  /\ UNCHANGED <<input, published, generator, watch, coordinator, others>>

-----------------------------------------------------------------------------
(* The coordinator.                                                        *)

(* The loop of refresh, from its test on: done, or wait for the task that  *)
(* is running or that this caller starts.                                  *)
Refresh(c) ==
  LET k == client[c] IN
  /\ At(c, "refresh", "ask")
  /\ IF coordinator.completed >= k.now
     THEN /\ client' = [client EXCEPT ![c] = [Moved(k, "cursor", "ask") EXCEPT !.last = k.now, !.now = 0]]
          /\ UNCHANGED coordinator
     ELSE /\ client' = [client EXCEPT ![c].stage = "wait"]
          /\ coordinator' = IF coordinator.task # "none" THEN coordinator
                            ELSE [coordinator EXCEPT !.task = "running", !.target = k.now]
  /\ UNCHANGED <<input, published, generator, watch, others, failures>>

RefreshEnds_Latest ==
  /\ coordinator.task = "published"
  /\ coordinator' = [coordinator EXCEPT !.completed = watch["inputs"].revision, !.task = "none"]
  /\ client' = Woken("refresh", LAMBDA k : Moved(k, "refresh", "ask"))
  /\ UNCHANGED <<input, published, generator, watch, others, failures>>

RefreshEnds ==
  /\ coordinator.task = "published"
  /\ coordinator' = [coordinator EXCEPT !.completed = coordinator.target, !.task = "none"]
  /\ client' = Woken("refresh", LAMBDA k : Moved(k, "refresh", "ask"))
  /\ UNCHANGED <<input, published, generator, watch, others, failures>>

RefreshFails_Announced ==
  /\ coordinator.task # "none"
  /\ Fails
  /\ coordinator' = [coordinator EXCEPT !.task = "none"]
  /\ generator' = IF generator.by = "refresh" THEN [by |-> "nobody", version |-> 0] ELSE generator
  /\ client' = Woken("refresh", LAMBDA k : [Raised(k) EXCEPT !.last = k.now])
  /\ UNCHANGED <<input, published, watch, others>>

(* The generator fails or runs out of time, even after it has published.   *)
(* Everyone who waited gets the error and will ask again in its next turn. *)
RefreshFails ==
  /\ coordinator.task # "none"
  /\ Fails
  /\ coordinator' = [coordinator EXCEPT !.task = "none"]
  /\ generator' = IF generator.by = "refresh" THEN [by |-> "nobody", version |-> 0] ELSE generator
  /\ client' = Woken("refresh", Raised)
  /\ UNCHANGED <<input, published, watch, others>>

-----------------------------------------------------------------------------
(* Inputs and generators (refresh_dashboard_payload_cache and others).     *)

InputChanges ==
  /\ input < MaxInput
  /\ input' = input + 1
  /\ UNCHANGED <<published, generator, watch, coordinator, client, others, failures>>

Begin ==
  /\ generator.by = "nobody"
  /\ \/ /\ coordinator.task = "running"
        /\ generator' = [by |-> "refresh", version |-> 0]
        /\ UNCHANGED others
     \/ /\ others < MaxOthers
        /\ generator' = [by |-> "other", version |-> 0]
        /\ others' = others + 1
  /\ UNCHANGED <<input, published, watch, coordinator, client, failures>>

Gather ==
  /\ generator.by # "nobody" /\ generator.version = 0
  /\ generator' = [generator EXCEPT !.version = input]
  /\ UNCHANGED <<input, published, watch, coordinator, client, others, failures>>

Publish ==
  /\ generator.version # 0
  /\ published' = [id |-> published.id + 1, version |-> generator.version]
  /\ generator' = [by |-> "nobody", version |-> 0]
  /\ coordinator' = IF generator.by = "refresh"
                    THEN [coordinator EXCEPT !.task = "published"] ELSE coordinator
  /\ UNCHANGED <<input, watch, client, others, failures>>

-----------------------------------------------------------------------------
(* The coroutine of a client.                                              *)

Connect(c) ==
  /\ client[c].phase = "away"
  /\ client' = [client EXCEPT ![c].phase = "inputs"]
  /\ UNCHANGED <<input, published, generator, watch, coordinator, others, failures>>

(* The browser goes, at any await; Last-Event-ID is all it keeps.          *)
Leave(c) ==
  /\ client[c].phase # "away"
  /\ client' = [client EXCEPT ![c] = [Away EXCEPT !.told = client[c].told]]
  /\ UNCHANGED <<input, published, generator, watch, coordinator, others, failures>>

ReadCursor(c) ==
  /\ At(c, "cursor", "ask")
  /\ client' = [client EXCEPT ![c].stage = "have", ![c].hold = published.id]
  /\ UNCHANGED <<input, published, generator, watch, coordinator, others, failures>>

CursorFails(c) ==
  /\ At(c, "cursor", "ask")
  /\ Fails
  /\ client' = [client EXCEPT ![c] = Raised(@)]
  /\ UNCHANGED <<input, published, generator, watch, coordinator, others>>

Announce_NewBaseline(c) ==
  /\ At(c, "cursor", "have")
  /\ client' = [client EXCEPT ![c] =
                  [Moved(@, "inputs", "ask") EXCEPT !.greeted = TRUE, !.told = client[c].hold, !.hold = 0,
                                                    !.pub = watch["publications"].revision]]
  /\ UNCHANGED <<input, published, generator, watch, coordinator, others, failures>>

(* "Connected", with the frame that makes a returning browser reload when  *)
(* its cursor is not the current one; or the delta after a refresh.        *)
Announce(c) ==
  /\ At(c, "cursor", "have")
  /\ client' = [client EXCEPT ![c] =
                  [Moved(@, "inputs", "ask") EXCEPT !.greeted = TRUE, !.told = client[c].hold,
                                                    !.hold = 0]]
  /\ UNCHANGED <<input, published, generator, watch, coordinator, others, failures>>

-----------------------------------------------------------------------------
Runs(c) ==
  \/ \E W \in Watchers : Join(c, W) \/ Start(c, W) \/ Reuse(c, W)
  \/ Refresh(c) \/ ReadCursor(c) \/ Announce(c)

Works ==
  \/ Begin \/ Gather \/ Publish \/ RefreshEnds

Next ==
  \/ InputChanges
  \/ Works \/ RefreshFails
  \/ \E W \in Watchers : Probe(W) \/ ProbeEnds(W) \/ ProbeFails(W)
  \/ \E c \in Clients : Runs(c) \/ Connect(c) \/ Leave(c) \/ CursorFails(c)
  \/ \E c \in Clients, W \in Watchers : WaitExpires(c, W)

(* Threads, processes and the event loop make progress, and as the loop    *)
(* sleeps for as long as a sample stands, not every question is answered   *)
(* from an old one.  Nobody has to come or to stay.                        *)
Fairness ==
  /\ WF_vars(Works)
  /\ \A W \in Watchers : WF_vars(Probe(W) \/ ProbeEnds(W))
  /\ \A W \in Watchers : SF_vars(\E c \in Clients : Start(c, W))
  /\ \A c \in Clients : WF_vars(Runs(c))

Spec == Init /\ [][Next]_vars /\ Fairness

-----------------------------------------------------------------------------
(* What the coordinator calls completed has been published: when it stands *)
(* at the latest revision of the inputs, the published generation shows    *)
(* at least what that revision was sampled from, whoever asked for the     *)
(* refresh and whatever changed while it ran.                              *)
CompletedIsPublished ==
  coordinator.completed = watch["inputs"].revision =>
    published.version >= watch["inputs"].signature

Streams(c) == client[c].greeted

(* A browser that stays is told of the generation that stays: no           *)
(* interleaving of its own refreshes, of slow probes shared with others    *)
(* and of publications by others leaves it with an older cursor.           *)
ClientCatchesUp ==
  \A c \in Clients : <>[]Streams(c) => <>[](client[c].told = published.id)

(* A change of the inputs made while a browser is connected is published,  *)
(* failed refreshes notwithstanding, unless the browser leaves.            *)
ChangesArePublished ==
  \A c \in Clients, v \in 2 .. MaxInput :
    (Streams(c) /\ input < v) ~>
      (\/ ~Streams(c)
       \/ published.version >= v
       \/ [](input < v))
=============================================================================
