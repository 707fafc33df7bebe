----------------------- MODULE DashboardStreamProofs -----------------------
(***************************************************************************)
(* Proofs about the event stream of the dashboard: what the coordinator    *)
(* calls completed is published, for any number of browsers, changes,      *)
(* generations by others and failures.                                     *)
(***************************************************************************)
EXTENDS DashboardStream, TLAPS

Inputs == watch["inputs"]

(* Nothing is newer than the inputs, and a generation that has gathered    *)
(* them is not older than the published one.                               *)
VersionsArePast ==
  /\ published.version <= input /\ generator.version <= input
  /\ Inputs.signature <= input /\ Inputs.value <= input
  /\ generator.version # 0 => published.version <= generator.version

(* Revisions that are asked for, or refreshed to, have been sampled.       *)
RevisionsArePast ==
  /\ coordinator.completed <= Inputs.revision
  /\ coordinator.target <= Inputs.revision
  /\ \A c \in Clients : client[c].now <= Inputs.revision

(* A refresh for the latest revision gathers what that was sampled from:   *)
(* it began after the sample.                                              *)
RefreshIsRecent ==
  /\ generator.by = "refresh" => coordinator.task = "running"
  /\ coordinator.target = Inputs.revision =>
       /\ generator.by = "refresh" /\ generator.version # 0 =>
            generator.version >= Inputs.signature
       /\ coordinator.task = "published" => published.version >= Inputs.signature

IInv == TypeOK /\ VersionsArePast /\ RevisionsArePast /\ RefreshIsRecent /\ CompletedIsPublished

-----------------------------------------------------------------------------
(* The coroutines: every step leaves one where a coroutine may be, asking  *)
(* for no other revision than the one it asked for or was answered.        *)
Asks(k, most) == k \in Client /\ k.now <= most

LEMMA AwayAsks == \A most \in Nat : Asks(Away, most)
BY DEF Asks, Away, Client

LEMMA MovedAsks ==
  ASSUME NEW most \in Nat, NEW k, Asks(k, most),
         NEW phase \in {"away", "inputs", "publications", "refresh", "cursor"},
         NEW stage \in {"ask", "wait", "have"}
  PROVE  Asks(Moved(k, phase, stage), most)
BY DEF Asks, Moved, Client

LEMMA RaisedAsks ==
  ASSUME NEW most \in Nat, NEW k, Asks(k, most)
  PROVE  Asks(Raised(k), most)
<1>1. Asks(Moved(k, "inputs", "ask"), most)
  BY MovedAsks
<1>2. Asks([Moved(k, "inputs", "ask") EXCEPT !.now = 0], most)
  BY <1>1 DEF Asks, Client
<1>3. Asks([Away EXCEPT !.told = k.told], most)
  BY AwayAsks DEF Asks, Client
<1> QED BY <1>2, <1>3 DEF Raised

LEMMA AnsweredAsks ==
  ASSUME NEW most \in Nat, NEW k, Asks(k, most), NEW W \in Watchers,
         NEW w \in Watch, W = "inputs" => w.revision <= most
  PROVE  Asks(Answered(W, k, w), most)
<1>1. CASE W = "inputs"
  <2>1. w.revision \in Nat /\ k.last \in Nat /\ w.revision <= most
    BY <1>1 DEF Asks, Client, Watch
  <2>2. /\ Asks([Moved(k, "publications", "ask") EXCEPT !.last = w.revision], most)
        /\ Asks([Moved(k, "refresh", "ask") EXCEPT !.now = w.revision], most)
        /\ Asks(Moved(k, "publications", "ask"), most)
    <3>1. Asks(Moved(k, "publications", "ask"), most) /\ Asks(Moved(k, "refresh", "ask"), most)
      BY MovedAsks
    <3> QED BY <2>1, <3>1 DEF Asks, Client
  <2>3. Asks(SeeInputs(k, w), most)
    <3>1. k.greeted \in BOOLEAN
      BY DEF Asks, Client
    <3>2. CASE ~k.greeted
      BY <2>2, <3>2 DEF SeeInputs
    <3>3. CASE k.greeted /\ w.revision > k.last
      BY <2>2, <3>3 DEF SeeInputs
    <3>4. CASE k.greeted /\ w.revision <= k.last
      BY <2>1, <2>2, <3>4 DEF SeeInputs
    <3> QED BY <2>1, <3>2, <3>3, <3>4
  <2> QED BY <1>1, <2>3 DEF Answered
<1>2. CASE W # "inputs"
  <2>1. w.revision \in Nat /\ w.signature \in Nat /\ k.told \in Nat
    BY DEF Asks, Client, Watch
  <2>2. Asks(Moved(k, "cursor", "ask"), most) /\ Asks(Moved(k, "inputs", "ask"), most)
    BY MovedAsks
  <2>3. /\ Asks([Moved(k, "cursor", "ask") EXCEPT !.pub = w.revision], most)
        /\ \A t \in Nat : Asks([Moved(k, "inputs", "ask") EXCEPT !.pub = w.revision, !.told = t], most)
    BY <2>1, <2>2 DEF Asks, Client
  <2>4. Moved(k, "inputs", "ask").told = k.told
    BY DEF Moved, Asks, Client
  <2>5. Asks(SeePublications(k, w), most)
    BY <2>1, <2>3, <2>4 DEF SeePublications
  <2> QED BY <1>2, <2>5 DEF Answered
<1> QED BY <1>1, <1>2

LEMMA EveryoneAsks ==
  ASSUME IInv
  PROVE  /\ Inputs \in Watch /\ Inputs.revision \in Nat
         /\ \A most \in Nat : most >= Inputs.revision => \A c \in Clients : Asks(client[c], most)
<1>1. Inputs \in Watch /\ Inputs.revision \in Nat
  BY DEF IInv, TypeOK, Inputs, Watchers, Watch
<1>2. \A c \in Clients : client[c] \in Client /\ client[c].now \in Nat /\ client[c].now <= Inputs.revision
  BY DEF IInv, TypeOK, RevisionsArePast, Client
<1> QED BY <1>1, <1>2 DEF Asks

(* One coroutine moves, and nothing else.                                  *)
LEMMA ClientsKeep ==
  ASSUME IInv, UNCHANGED <<input, published, generator, watch, coordinator>>,
         others' \in 0 .. MaxOthers, failures' \in 0 .. MaxFailures,
         NEW c \in Clients, NEW k, Asks(k, Inputs.revision), client' = [client EXCEPT ![c] = k]
  PROVE  IInv'
<1>1. client' \in [Clients -> Client] /\ \A d \in Clients : client'[d].now <= Inputs.revision
  BY EveryoneAsks DEF Asks, IInv, TypeOK, RevisionsArePast
<1>2. Inputs' = Inputs
  BY DEF Inputs
<1> QED BY <1>1, <1>2
        DEF IInv, TypeOK, VersionsArePast, RevisionsArePast, RefreshIsRecent, CompletedIsPublished, Inputs

LEMMA FailsCounts == ASSUME IInv, Fails PROVE failures' \in 0 .. MaxFailures
BY BoundsAssumption DEF IInv, TypeOK, Fails

LEMMA CoroutineKeeps ==
  ASSUME IInv, NEW c \in Clients,
         \/ \E W \in Watchers : Join(c, W) \/ Reuse(c, W) \/ WaitExpires(c, W)
         \/ ReadCursor(c) \/ CursorFails(c) \/ Announce(c) \/ Connect(c) \/ Leave(c)
  PROVE  IInv'
<1> DEFINE k == client[c]
           most == Inputs.revision
<1>1. /\ most \in Nat /\ Asks(k, most) /\ watch \in [Watchers -> Watch]
      /\ others \in 0 .. MaxOthers /\ failures \in 0 .. MaxFailures
      /\ client \in [Clients -> Client] /\ published.id \in Nat
  BY EveryoneAsks DEF IInv, TypeOK
<1>2. ASSUME NEW W \in Watchers, Join(c, W)
      PROVE  IInv'
  <2>1. Asks([k EXCEPT !.stage = "wait"], most)
    BY <1>1 DEF Asks, Client
  <2>2. client' = [client EXCEPT ![c] = [k EXCEPT !.stage = "wait"]]
    BY <1>2 DEF Join
  <2> QED BY <1>1, <1>2, <2>1, <2>2, ClientsKeep DEF Join
<1>3. ASSUME NEW W \in Watchers, Reuse(c, W)
      PROVE  IInv'
  <2> DEFINE next == IF watch[W].failed THEN Raised(k) ELSE Answered(W, k, watch[W])
  <2>1. watch[W] \in Watch /\ (W = "inputs" => watch[W].revision <= most)
    BY <1>1 DEF Inputs
  <2>2. Asks(next, most)
    BY <1>1, <2>1, RaisedAsks, AnsweredAsks
  <2>3. client' = [client EXCEPT ![c] = next]
    BY <1>1, <1>3 DEF Reuse
  <2> QED BY <1>1, <1>3, <2>2, <2>3, ClientsKeep DEF Reuse
<1>4. ASSUME Fails, client' = [client EXCEPT ![c] = Raised(@)],
             UNCHANGED <<input, published, generator, watch, coordinator, others>>
      PROVE  IInv'
  <2>1. Asks(Raised(k), most)
    BY <1>1, RaisedAsks
  <2>2. client' = [client EXCEPT ![c] = Raised(k)]
    BY <1>1, <1>4
  <2> QED BY <1>1, <1>4, <2>1, <2>2, FailsCounts, ClientsKeep
<1>5. CASE ReadCursor(c)
  <2>1. Asks([k EXCEPT !.stage = "have", !.hold = published.id], most)
    BY <1>1 DEF Asks, Client
  <2>2. client' = [client EXCEPT ![c] = [k EXCEPT !.stage = "have", !.hold = published.id]]
    BY <1>1, <1>5 DEF ReadCursor
  <2> QED BY <1>1, <1>5, <2>1, <2>2, ClientsKeep DEF ReadCursor
<1>6. CASE Announce(c)
  <2> DEFINE next == [Moved(k, "inputs", "ask") EXCEPT !.greeted = TRUE, !.told = k.hold, !.hold = 0]
  <2>1. Asks(next, most)
    <3>1. Asks(Moved(k, "inputs", "ask"), most) /\ k.hold \in Nat
      BY <1>1, MovedAsks DEF Asks, Client
    <3> QED BY <3>1 DEF Asks, Client
  <2>2. client' = [client EXCEPT ![c] = next]
    BY <1>1, <1>6 DEF Announce
  <2> QED BY <1>1, <1>6, <2>1, <2>2, ClientsKeep DEF Announce
<1>7. CASE Connect(c)
  <2>1. Asks([k EXCEPT !.phase = "inputs"], most)
    BY <1>1 DEF Asks, Client
  <2>2. client' = [client EXCEPT ![c] = [k EXCEPT !.phase = "inputs"]]
    BY <1>1, <1>7 DEF Connect
  <2> QED BY <1>1, <1>7, <2>1, <2>2, ClientsKeep DEF Connect
<1>8. CASE Leave(c)
  <2>1. Asks([Away EXCEPT !.told = k.told], most)
    BY <1>1, AwayAsks DEF Asks, Client
  <2>2. client' = [client EXCEPT ![c] = [Away EXCEPT !.told = k.told]]
    BY <1>1, <1>8 DEF Leave
  <2> QED BY <1>1, <1>8, <2>1, <2>2, ClientsKeep DEF Leave
<1> QED BY <1>2, <1>3, <1>4, <1>5, <1>6, <1>7, <1>8 DEF WaitExpires, CursorFails

-----------------------------------------------------------------------------
(* The watchers.  A probe tells nothing newer than the inputs, and a new   *)
(* revision is one that nobody has asked to refresh to.                    *)
LEMMA WatchKeeps ==
  ASSUME IInv, UNCHANGED <<input, published, generator, coordinator, others>>,
         failures' \in 0 .. MaxFailures, watch' \in [Watchers -> Watch],
         Inputs'.signature <= input, Inputs'.value <= input,
         \/ Inputs'.revision = Inputs.revision /\ Inputs'.signature = Inputs.signature
         \/ Inputs'.revision = Inputs.revision + 1,
         client' \in [Clients -> Client],
         \A c \in Clients : client'[c].now <= Inputs'.revision
  PROVE  IInv'
<1>1. /\ Inputs.revision \in Nat /\ coordinator.completed \in Nat /\ coordinator.target \in Nat
      /\ coordinator.completed <= Inputs.revision /\ coordinator.target <= Inputs.revision
  BY EveryoneAsks DEF IInv, TypeOK, RevisionsArePast
<1>2. TypeOK'
  BY DEF IInv, TypeOK
<1>3. VersionsArePast' /\ RevisionsArePast'
  BY <1>1 DEF IInv, VersionsArePast, RevisionsArePast
<1>4. RefreshIsRecent'
  BY <1>1 DEF IInv, RefreshIsRecent
<1>5. CompletedIsPublished'
  BY <1>1 DEF IInv, CompletedIsPublished, Inputs
<1> QED BY <1>2, <1>3, <1>4, <1>5 DEF IInv

LEMMA WatcherKeeps ==
  ASSUME IInv, NEW W \in Watchers,
         \/ \E c \in Clients : Start(c, W)
         \/ Probe(W) \/ ProbeEnds(W) \/ ProbeFails(W)
  PROVE  IInv'
<1> DEFINE most == Inputs.revision
           w == watch[W]
<1>1. /\ watch \in [Watchers -> Watch] /\ w \in Watch /\ most \in Nat
      /\ "inputs" \in Watchers /\ \A c \in Clients : Asks(client[c], most)
      /\ client \in [Clients -> Client] /\ failures \in 0 .. MaxFailures
      /\ Inputs \in Watch
  BY EveryoneAsks DEF IInv, TypeOK, Watchers
<1>2. Inputs.signature <= input /\ Inputs.value <= input /\ input \in Nat
  BY BoundsAssumption DEF IInv, TypeOK, VersionsArePast
<1>3. \A c \in Clients : client[c].now <= most
  BY <1>1 DEF Asks
<1>4. ASSUME NEW c \in Clients, Start(c, W)
      PROVE  IInv'
  <2>1. watch' = [watch EXCEPT ![W].task = "started"] /\ client' = [client EXCEPT ![c].stage = "wait"]
    BY <1>4 DEF Start
  <2>2. watch' \in [Watchers -> Watch]
    BY <1>1, <2>1 DEF Watch
  <2>3. /\ Inputs'.revision = most /\ Inputs'.signature = Inputs.signature
        /\ Inputs'.value = Inputs.value
    BY <1>1, <2>1 DEF Inputs, Watch
  <2>4. client' \in [Clients -> Client] /\ \A d \in Clients : client'[d].now = client[d].now
    BY <1>1, <2>1 DEF Client
  <2> QED BY <1>1, <1>2, <1>3, <1>4, <2>2, <2>3, <2>4, WatchKeeps DEF Start
<1>5. CASE Probe(W)
  <2>1. watch' = [watch EXCEPT ![W].task = "read", ![W].value = Found(W)]
    BY <1>5 DEF Probe
  <2>2. Found(W) \in Nat /\ (W = "inputs" => Found(W) = input)
    BY <1>2 DEF Found, IInv, TypeOK
  <2>3. watch' \in [Watchers -> Watch]
    BY <1>1, <2>1, <2>2 DEF Watch
  <2>4. /\ Inputs'.revision = most /\ Inputs'.signature = Inputs.signature
        /\ Inputs'.value \in {Inputs.value, input}
    BY <1>1, <2>1, <2>2 DEF Inputs, Watch
  <2> QED BY <1>1, <1>2, <1>3, <1>5, <2>3, <2>4, WatchKeeps DEF Probe
<1>6. CASE ProbeEnds(W)
  <2> DEFINE new == [revision |-> IF Changed(w) THEN w.revision + 1 ELSE w.revision,
                     signature |-> w.value, failed |-> FALSE, task |-> "none", value |-> 0]
  <2>1. /\ watch' = [watch EXCEPT ![W] = new]
        /\ client' = [c \in Clients |-> IF At(c, W, "wait") THEN Answered(W, client[c], new) ELSE client[c]]
    BY <1>6 DEF ProbeEnds, Woken
  <2>2. /\ new \in Watch /\ new.signature = w.value /\ new.value = 0
        /\ \/ new.revision = w.revision + 1
           \/ new.revision = w.revision /\ new.signature = w.signature
    BY <1>1 DEF Watch, Changed
  <2>3. w.revision \in Nat /\ new.revision \in Nat
    BY <1>1, <2>2 DEF Watch
  <2> HIDE DEF new
  <2>4. watch' \in [Watchers -> Watch]
    BY <1>1, <2>1, <2>2
  <2>5. Inputs' = IF W = "inputs" THEN new ELSE Inputs
    BY <1>1, <2>1 DEF Inputs
  <2>6. /\ Inputs'.signature <= input /\ Inputs'.value <= input
        /\ \/ Inputs'.revision = Inputs.revision /\ Inputs'.signature = Inputs.signature
           \/ Inputs'.revision = Inputs.revision + 1
    BY <1>2, <2>2, <2>5 DEF Inputs
  <2>7. Inputs'.revision \in Nat /\ Inputs'.revision >= most
    BY <1>1, <2>3, <2>5, <2>6
  <2>8. \A c \in Clients : Asks(client[c], Inputs'.revision)
    BY <2>7, EveryoneAsks
  <2>9. \A c \in Clients : Asks(client'[c], Inputs'.revision)
    <3> TAKE c \in Clients
    <3>1. Asks(Answered(W, client[c], new), Inputs'.revision)
      <4>1. W = "inputs" => new.revision <= Inputs'.revision
        BY <2>3, <2>5
      <4> QED BY <2>2, <2>7, <2>8, <4>1, AnsweredAsks
    <3> QED BY <2>1, <2>8, <3>1
  <2>10. client' \in [Clients -> Client] /\ \A c \in Clients : client'[c].now <= Inputs'.revision
    BY <2>1, <2>9 DEF Asks
  <2> QED BY <1>1, <1>6, <2>4, <2>6, <2>10, WatchKeeps DEF ProbeEnds
<1>7. CASE ProbeFails(W)
  <2>1. /\ watch' = [watch EXCEPT ![W].task = "none", ![W].failed = TRUE, ![W].value = 0]
        /\ client' = [c \in Clients |-> IF At(c, W, "wait") THEN Raised(client[c]) ELSE client[c]]
    BY <1>7 DEF ProbeFails, Woken
  <2>2. watch' \in [Watchers -> Watch]
    BY <1>1, <2>1 DEF Watch
  <2>3. /\ Inputs'.revision = most /\ Inputs'.signature = Inputs.signature
        /\ Inputs'.value \in {Inputs.value, 0}
    BY <1>1, <2>1 DEF Inputs, Watch
  <2>4. \A c \in Clients : Asks(client'[c], most)
    BY <1>1, <2>1, RaisedAsks
  <2>5. client' \in [Clients -> Client] /\ \A c \in Clients : client'[c].now <= Inputs'.revision
    BY <2>1, <2>3, <2>4 DEF Asks
  <2>6. failures' \in 0 .. MaxFailures
    BY <1>7, FailsCounts DEF ProbeFails
  <2> QED BY <1>2, <1>7, <2>2, <2>3, <2>5, <2>6, WatchKeeps DEF ProbeFails
<1> QED BY <1>4, <1>5, <1>6, <1>7

-----------------------------------------------------------------------------
(* The coordinator.                                                        *)
LEMMA RefreshKeeps ==
  ASSUME IInv, NEW c \in Clients, Refresh(c)
  PROVE  IInv'
<1> DEFINE k == client[c]
           most == Inputs.revision
<1>1. /\ most \in Nat /\ Asks(k, most) /\ client \in [Clients -> Client]
      /\ others \in 0 .. MaxOthers /\ failures \in 0 .. MaxFailures
  BY EveryoneAsks DEF IInv, TypeOK
<1>2. Asks([k EXCEPT !.stage = "wait"], most)
  BY <1>1 DEF Asks, Client
<1>3. CASE coordinator.completed >= k.now
  <2> DEFINE next == [Moved(k, "cursor", "ask") EXCEPT !.last = k.now, !.now = 0]
  <2>1. Asks(next, most)
    <3>1. Asks(Moved(k, "cursor", "ask"), most) /\ k.now \in Nat
      BY <1>1, MovedAsks DEF Asks, Client
    <3> HIDE DEF k, most
    <3>2. next \in Client /\ next.now = 0
      BY <3>1 DEF Asks, Client
    <3> QED BY <1>1, <3>2 DEF Asks
  <2>2. client' = [client EXCEPT ![c] = next] /\ UNCHANGED coordinator
    BY <1>3 DEF Refresh
  <2> QED BY <1>1, <2>1, <2>2, ClientsKeep DEF Refresh
<1>4. CASE ~(coordinator.completed >= k.now) /\ coordinator.task # "none"
  <2>1. client' = [client EXCEPT ![c] = [k EXCEPT !.stage = "wait"]] /\ UNCHANGED coordinator
    BY <1>4 DEF Refresh
  <2> QED BY <1>1, <1>2, <2>1, ClientsKeep DEF Refresh
<1>5. CASE ~(coordinator.completed >= k.now) /\ coordinator.task = "none"
  <2>1. /\ client' = [client EXCEPT ![c] = [k EXCEPT !.stage = "wait"]]
        /\ coordinator' = [coordinator EXCEPT !.task = "running", !.target = k.now]
        /\ UNCHANGED <<input, published, generator, watch, others, failures>>
    BY <1>5 DEF Refresh
  <2>2. client' \in [Clients -> Client] /\ \A d \in Clients : client'[d].now <= most
    BY <1>1, <1>2, <2>1, EveryoneAsks DEF Asks
  <2>3. /\ coordinator'.task = "running" /\ coordinator'.target = k.now
        /\ coordinator'.completed = coordinator.completed
        /\ coordinator' \in [completed: Nat, target: Nat, task: {"none", "running", "published"}]
    BY <1>1, <2>1 DEF IInv, TypeOK, Asks, Client
  <2>4. Inputs' = Inputs /\ generator.by # "refresh" /\ k.now <= most
    BY <1>1, <1>5, <2>1 DEF IInv, RefreshIsRecent, Inputs, Asks
  <2>5. TypeOK' /\ VersionsArePast' /\ RevisionsArePast'
    BY <2>1, <2>2, <2>3, <2>4 DEF IInv, TypeOK, VersionsArePast, RevisionsArePast
  <2>6. RefreshIsRecent' /\ CompletedIsPublished'
    BY <2>1, <2>3, <2>4 DEF IInv, RefreshIsRecent, CompletedIsPublished
  <2> QED BY <2>5, <2>6 DEF IInv
<1> QED BY <1>3, <1>4, <1>5

LEMMA RefreshEndsKeeps ==
  ASSUME IInv, RefreshEnds
  PROVE  IInv'
<1>1. /\ coordinator.task = "published"
      /\ coordinator' = [coordinator EXCEPT !.completed = coordinator.target, !.task = "none"]
      /\ client' = [c \in Clients |-> IF At(c, "refresh", "wait") THEN Moved(client[c], "refresh", "ask")
                                                                  ELSE client[c]]
      /\ UNCHANGED <<input, published, generator, watch, others, failures>>
  BY DEF RefreshEnds, Woken
<1>2. client' \in [Clients -> Client] /\ \A c \in Clients : client'[c].now <= Inputs.revision
  <2>1. \A c \in Clients : Asks(client'[c], Inputs.revision)
    BY <1>1, EveryoneAsks, MovedAsks
  <2> QED BY <1>1, <2>1 DEF Asks
<1>3. /\ coordinator'.task = "none" /\ coordinator'.target = coordinator.target
      /\ coordinator'.completed = coordinator.target
      /\ coordinator' \in [completed: Nat, target: Nat, task: {"none", "running", "published"}]
  BY <1>1 DEF IInv, TypeOK
<1>4. Inputs' = Inputs
  BY <1>1 DEF Inputs
<1>5. TypeOK' /\ VersionsArePast' /\ RevisionsArePast'
  BY <1>1, <1>2, <1>3, <1>4 DEF IInv, TypeOK, VersionsArePast, RevisionsArePast
<1>6. RefreshIsRecent' /\ CompletedIsPublished'
  BY <1>1, <1>3, <1>4 DEF IInv, RefreshIsRecent, CompletedIsPublished, Inputs
<1> QED BY <1>5, <1>6 DEF IInv

LEMMA RefreshFailsKeeps ==
  ASSUME IInv, RefreshFails
  PROVE  IInv'
<1>1. /\ coordinator' = [coordinator EXCEPT !.task = "none"]
      /\ generator' = IF generator.by = "refresh" THEN [by |-> "nobody", version |-> 0] ELSE generator
      /\ client' = [c \in Clients |-> IF At(c, "refresh", "wait") THEN Raised(client[c]) ELSE client[c]]
      /\ failures' \in 0 .. MaxFailures
      /\ UNCHANGED <<input, published, watch, others>>
  BY FailsCounts DEF RefreshFails, Woken
<1>2. client' \in [Clients -> Client] /\ \A c \in Clients : client'[c].now <= Inputs.revision
  <2>1. \A c \in Clients : Asks(client'[c], Inputs.revision)
    BY <1>1, EveryoneAsks, RaisedAsks
  <2> QED BY <1>1, <2>1 DEF Asks
<1>3. /\ coordinator'.task = "none" /\ coordinator'.target = coordinator.target
      /\ coordinator'.completed = coordinator.completed
      /\ coordinator' \in [completed: Nat, target: Nat, task: {"none", "running", "published"}]
  BY <1>1 DEF IInv, TypeOK
<1>4. /\ generator' \in [by: {"nobody", "refresh", "other"}, version: 0 .. MaxInput]
      /\ generator'.by # "refresh" /\ generator'.version \in {generator.version, 0}
  BY <1>1, BoundsAssumption DEF IInv, TypeOK
<1>5. Inputs' = Inputs /\ input \in Nat
  BY <1>1, BoundsAssumption DEF Inputs, IInv, TypeOK
<1>6. TypeOK' /\ VersionsArePast' /\ RevisionsArePast'
  BY <1>1, <1>2, <1>3, <1>4, <1>5 DEF IInv, TypeOK, VersionsArePast, RevisionsArePast
<1>7. RefreshIsRecent' /\ CompletedIsPublished'
  BY <1>1, <1>3, <1>4, <1>5 DEF IInv, RefreshIsRecent, CompletedIsPublished
<1> QED BY <1>6, <1>7 DEF IInv

-----------------------------------------------------------------------------
(* Inputs and generators.                                                  *)
LEMMA InputKeeps ==
  ASSUME IInv, InputChanges
  PROVE  IInv'
<1>1. /\ input' = input + 1 /\ input' \in 1 .. MaxInput /\ input \in Nat
      /\ UNCHANGED <<published, generator, watch, coordinator, client, others, failures>>
  BY BoundsAssumption DEF InputChanges, IInv, TypeOK
<1>2. Inputs' = Inputs
  BY <1>1 DEF Inputs
<1>3. /\ published.version \in Nat /\ generator.version \in Nat
      /\ Inputs.signature \in Nat /\ Inputs.value \in Nat
  BY EveryoneAsks, BoundsAssumption DEF IInv, TypeOK, Watch
<1>4. VersionsArePast'
  BY <1>1, <1>2, <1>3 DEF IInv, VersionsArePast
<1> QED BY <1>1, <1>2, <1>4
        DEF IInv, TypeOK, RevisionsArePast, RefreshIsRecent, CompletedIsPublished

Generator == [by: {"nobody", "refresh", "other"}, version: 0 .. MaxInput]

LEMMA GeneratorKeeps ==
  ASSUME IInv, UNCHANGED <<input, published, watch, coordinator, client, failures>>,
         others' \in 0 .. MaxOthers, generator' \in Generator,
         generator'.version \in {0, input},
         generator'.by = "refresh" => coordinator.task = "running"
  PROVE  IInv'
<1>1. Inputs' = Inputs
  BY DEF Inputs
<1>2. input \in Nat
  BY BoundsAssumption DEF IInv, TypeOK
<1>3. TypeOK' /\ VersionsArePast' /\ RevisionsArePast'
  BY <1>1, <1>2 DEF IInv, TypeOK, VersionsArePast, RevisionsArePast, Generator
<1>4. RefreshIsRecent' /\ CompletedIsPublished'
  BY <1>1 DEF IInv, VersionsArePast, RefreshIsRecent, CompletedIsPublished
<1> QED BY <1>3, <1>4 DEF IInv

LEMMA BeginGatherKeeps ==
  ASSUME IInv, Begin \/ Gather
  PROVE  IInv'
<1>1. 0 \in 0 .. MaxInput /\ input \in 0 .. MaxInput /\ others \in 0 .. MaxOthers
  BY BoundsAssumption DEF IInv, TypeOK
<1>2. CASE Begin
  <2>1. /\ generator' \in Generator /\ generator'.version = 0
        /\ generator'.by = "refresh" => coordinator.task = "running"
    BY <1>1, <1>2 DEF Begin, Generator
  <2>2. others' \in 0 .. MaxOthers
    BY <1>1, <1>2, BoundsAssumption DEF Begin
  <2> QED BY <1>2, <2>1, <2>2, GeneratorKeeps DEF Begin
<1>3. CASE Gather
  <2>1. /\ generator' \in Generator /\ generator'.version = input
        /\ generator'.by = "refresh" => coordinator.task = "running"
    BY <1>1, <1>3 DEF Gather, Generator, IInv, TypeOK, RefreshIsRecent
  <2> QED BY <1>1, <1>3, <2>1, GeneratorKeeps DEF Gather
<1> QED BY <1>2, <1>3

LEMMA PublishKeeps ==
  ASSUME IInv, Publish
  PROVE  IInv' /\ published.version <= published'.version
<1>1. /\ generator.version # 0 /\ generator.version \in 0 .. MaxInput
      /\ published' = [id |-> published.id + 1, version |-> generator.version]
      /\ generator' = [by |-> "nobody", version |-> 0]
      /\ coordinator' = IF generator.by = "refresh" THEN [coordinator EXCEPT !.task = "published"] ELSE coordinator
      /\ UNCHANGED <<input, watch, client, others, failures>>
  BY DEF Publish, IInv, TypeOK
<1>2. /\ published.version \in Nat /\ input \in Nat /\ Inputs.signature \in Nat
      /\ published.version <= generator.version /\ published'.version = generator.version
  BY <1>1, EveryoneAsks, BoundsAssumption DEF IInv, TypeOK, VersionsArePast, Watch
<1>3. Inputs' = Inputs
  BY <1>1 DEF Inputs
<1>4. /\ coordinator' \in [completed: Nat, target: Nat, task: {"none", "running", "published"}]
      /\ coordinator'.completed = coordinator.completed /\ coordinator'.target = coordinator.target
      /\ coordinator'.task = IF generator.by = "refresh" THEN "published" ELSE coordinator.task
  BY <1>1 DEF IInv, TypeOK
<1>5. TypeOK'
  BY <1>1, <1>4, BoundsAssumption DEF IInv, TypeOK
<1>6. VersionsArePast' /\ RevisionsArePast'
  BY <1>1, <1>2, <1>3, <1>4 DEF IInv, VersionsArePast, RevisionsArePast
<1>7. RefreshIsRecent'
  BY <1>1, <1>2, <1>3, <1>4 DEF IInv, RefreshIsRecent
<1>8. CompletedIsPublished'
  BY <1>1, <1>2, <1>3, <1>4 DEF IInv, CompletedIsPublished, Inputs
<1> QED BY <1>2, <1>5, <1>6, <1>7, <1>8 DEF IInv

-----------------------------------------------------------------------------
LEMMA InitIInv == Init => IInv
<1> SUFFICES ASSUME Init PROVE IInv
  OBVIOUS
<1>1. Asks(Away, 0) /\ Away.now = 0
  BY AwayAsks DEF Away
<1>2. Unsampled \in Watch /\ Inputs = Unsampled
  BY DEF Init, Unsampled, Watch, Inputs, Watchers
<1>3. TypeOK
  BY <1>1, <1>2, BoundsAssumption DEF Init, TypeOK, Asks
<1>4. VersionsArePast /\ RevisionsArePast /\ RefreshIsRecent
  BY <1>1, <1>2 DEF Init, VersionsArePast, RevisionsArePast, RefreshIsRecent, Unsampled
<1>5. CompletedIsPublished
  BY <1>2 DEF Init, CompletedIsPublished, Unsampled, Inputs
<1> QED BY <1>3, <1>4, <1>5 DEF IInv

LEMMA StepIInv == IInv /\ [Next]_vars => IInv'
<1> SUFFICES ASSUME IInv, [Next]_vars PROVE IInv'
  OBVIOUS
<1>1. CASE InputChanges
  BY <1>1, InputKeeps
<1>2. CASE Works \/ RefreshFails
  BY <1>2, BeginGatherKeeps, PublishKeeps, RefreshEndsKeeps, RefreshFailsKeeps DEF Works
<1>3. ASSUME NEW W \in Watchers, Probe(W) \/ ProbeEnds(W) \/ ProbeFails(W)
      PROVE  IInv'
  BY <1>3, WatcherKeeps
<1>4. ASSUME NEW c \in Clients, Runs(c) \/ Connect(c) \/ Leave(c) \/ CursorFails(c)
      PROVE  IInv'
  BY <1>4, CoroutineKeeps, WatcherKeeps, RefreshKeeps DEF Runs
<1>5. ASSUME NEW c \in Clients, NEW W \in Watchers, WaitExpires(c, W)
      PROVE  IInv'
  BY <1>5, CoroutineKeeps
<1>6. CASE UNCHANGED vars
  BY <1>6
  DEF vars, IInv, TypeOK, VersionsArePast, RevisionsArePast, RefreshIsRecent, CompletedIsPublished, Inputs
<1> QED BY <1>1, <1>2, <1>3, <1>4, <1>5, <1>6 DEF Next

LEMMA AlwaysIInv == Spec => []IInv
BY InitIInv, StepIInv, PTL DEF Spec

(* The state of the event stream has its types.                            *)
THEOREM StreamTypes == Spec => []TypeOK
<1>1. IInv => TypeOK
  BY DEF IInv
<1> QED BY <1>1, AlwaysIInv, PTL

(* What the coordinator calls completed has been published.                *)
THEOREM AlwaysPublished == Spec => []CompletedIsPublished
<1>1. IInv => CompletedIsPublished
  BY DEF IInv
<1> QED BY <1>1, AlwaysIInv, PTL

(* The published generation never goes back to older inputs, whichever     *)
(* process generates it and however long that takes.                       *)
PublicationsAdvance == [][published.version <= published'.version]_vars

THEOREM AlwaysAdvances == Spec => PublicationsAdvance
<1>1. IInv /\ [Next]_vars => [published.version <= published'.version]_vars
  <2> SUFFICES ASSUME IInv, Next PROVE published.version <= published'.version
    OBVIOUS
  <2>1. published.version \in Nat
    BY BoundsAssumption DEF IInv, TypeOK
  <2>2. Publish \/ UNCHANGED published
    BY DEF Next, Works, Runs, InputChanges, Begin, Gather, RefreshEnds, RefreshFails,
           Probe, ProbeEnds, ProbeFails, Join, Start, Reuse, Refresh, ReadCursor, Announce,
           Connect, Leave, CursorFails, WaitExpires
  <2> QED BY <2>1, <2>2, PublishKeeps
<1> QED BY <1>1, AlwaysIInv, PTL DEF Spec, PublicationsAdvance

=============================================================================
