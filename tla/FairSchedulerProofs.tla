------------------------ MODULE FairSchedulerProofs ------------------------
(***************************************************************************)
(* Proofs about the fair scheduler: the slots of a dispatcher and what     *)
(* stale counts can cost, for any projects, worker loops, callers of       *)
(* POST /runs/step, quotas and runs.                                       *)
(***************************************************************************)
EXTENDS FairScheduler, FiniteSetTheorems, TLAPS

Owned(d) == {r \in Runs : owner[r] = d}

(* A running run, and no other, is owned.                                  *)
OwnersRun ==
  \A r \in Runs : /\ status[r] = "running" <=> owner[r] # None
                  /\ status[r] # "unborn" => project[r] \in Projects

(* A dispatcher that looks for a run has a slot for it.                    *)
SlotIsKept ==
  \A d \in Dispatchers :
    /\ Executing(d) <= Slots(d)
    /\ choice[d].stage # "idle" => Executing(d) < Slots(d)

(* The run a dispatcher is about to claim has been submitted.              *)
ClaimsAreBorn ==
  \A d \in Dispatchers :
    /\ choice[d].stage = "chosen" => choice[d].winner \in Projects
    /\ choice[d].stage = "claiming" => choice[d].run \in Runs /\ status[choice[d].run] # "unborn"

-----------------------------------------------------------------------------
(* The quotas.  What a dispatcher has counted of the projects it has       *)
(* visited, and what is running in those it has yet to visit.              *)
CountedOf(c) == {x \in Projects \X (1 .. MaxRuns) : x[1] \notin c.todo /\ x[2] <= c.active[x[1]]}

Uncounted(c) == {r \in Running : project[r] \in c.todo}

Estimate(c) == Cardinality(CountedOf(c)) + Cardinality(Uncounted(c))

(* Dispatchers are ranked by their last claim, the latest first: only      *)
(* those that rank before it have claimed behind the back of a dispatcher  *)
(* since it began to count.  So its count is wrong by less than its rank,  *)
(* unless one of those claimed under the quota just before it.             *)
CountsAlmost(c, rank) ==
  /\ c.stage = "counting" =>
       \/ Cardinality(Running) <= Estimate(c) + rank - 1
       \/ Cardinality(Running) <= GlobalMax + rank - 2
  /\ c.stage \in {"listing", "chosen", "claiming"} =>
       Cardinality(Running) <= GlobalMax + rank - 2

(* The choice may end in the claim of a run of the project.                *)
Considers(c, p) ==
  \/ c.stage = "counting" /\ p \notin c.todo /\ c.active[p] < ProjectMax
  \/ c.stage = "listing" /\ c.active[p] < ProjectMax
  \/ c.stage = "chosen" /\ c.winner = p
  \/ c.stage = "claiming" /\ project[c.run] = p

CountsProjectAlmost(c, p, rank) ==
  Considers(c, p) => Cardinality(RunningOf(p)) <= ProjectMax + rank - 2

Ranks == 1 .. Cardinality(Dispatchers)

Ranking(rank) ==
  /\ \A d, e \in Dispatchers : rank[d] = rank[e] => d = e
  /\ \A d \in Dispatchers :
       /\ CountsAlmost(choice[d], rank[d])
       /\ \A p \in Projects : CountsProjectAlmost(choice[d], p, rank[d])

Ranked == \E rank \in [Dispatchers -> Ranks] : Ranking(rank)

IInv == TypeOK /\ OwnersRun /\ SlotIsKept /\ ClaimsAreBorn /\ Ranked /\ BoundedOvershoot

-----------------------------------------------------------------------------
(* Sizes.                                                                  *)
LEMMA DispatchersCount ==
  /\ IsFiniteSet(Dispatchers) /\ Cardinality(Dispatchers) \in Nat \ {0}
  /\ Ranks \subseteq Nat \ {0}
<1>1. IsFiniteSet(Dispatchers) /\ Dispatchers # {}
  BY SchedulerAssumption DEF Dispatchers
<1>2. Cardinality(Dispatchers) \in Nat \ {0}
  BY <1>1, FS_CardinalityType, FS_EmptySet
<1> QED BY <1>1, <1>2 DEF Ranks

LEMMA RunsAreFinite ==
  ASSUME NEW S \in SUBSET Runs
  PROVE  IsFiniteSet(S) /\ Cardinality(S) \in 0 .. MaxRuns
<1>1. MaxRuns \in Nat
  BY SchedulerAssumption
<1>2. IsFiniteSet(Runs) /\ Cardinality(Runs) = MaxRuns
  BY <1>1, FS_Interval DEF Runs
<1>3. IsFiniteSet(S) /\ Cardinality(S) <= MaxRuns
  BY <1>2, FS_Subset
<1>4. Cardinality(S) \in Nat
  BY <1>3, FS_CardinalityType
<1> QED BY <1>1, <1>3, <1>4

LEMMA EstimateIsNat ==
  ASSUME NEW c \in Choice
  PROVE  /\ IsFiniteSet(CountedOf(c)) /\ Cardinality(CountedOf(c)) \in Nat
         /\ Uncounted(c) \in SUBSET Runs /\ Cardinality(Uncounted(c)) \in Nat
         /\ Estimate(c) \in Nat
<1>1. IsFiniteSet(1 .. MaxRuns) /\ IsFiniteSet(Projects)
  BY SchedulerAssumption, FS_Interval
<1>2. IsFiniteSet(Projects \X (1 .. MaxRuns))
  BY <1>1, FS_Product
<1>3. IsFiniteSet(CountedOf(c)) /\ Cardinality(CountedOf(c)) \in Nat
  BY <1>2, FS_Subset, FS_CardinalityType DEF CountedOf
<1>4. Uncounted(c) \in SUBSET Runs
  BY DEF Uncounted, Running
<1>5. Cardinality(Uncounted(c)) \in Nat
  BY <1>4, RunsAreFinite
<1> QED BY <1>3, <1>4, <1>5 DEF Estimate

(* A set of runs has an oldest one.                                        *)
LEMMA OldestExists ==
  ASSUME NEW Q \in SUBSET Runs, Q # {}
  PROVE  \E r \in Q : \A s \in Q : r <= s
<1> DEFINE UpTo(n) == {r \in Q : r <= n}
           Prefixes == {UpTo(n) : n \in Q}
<1>1. \A r \in Q : r \in Nat
  BY SchedulerAssumption DEF Runs
<1>2. Prefixes \subseteq FiniteSubsetsOf(Runs) /\ Prefixes # {}
  BY RunsAreFinite DEF FiniteSubsetsOf
<1>3. PICK P \in Prefixes : \A S \in Prefixes : ~ (<<S, P>> \in StrictSubsetOrdering(Runs))
  <2>1. IsWellFoundedOn(StrictSubsetOrdering(Runs), FiniteSubsetsOf(Runs))
    BY FS_StrictSubsetOrderingWellFounded
  <2> HIDE DEF Prefixes
  <2>2. \E P \in Prefixes : \A S \in Prefixes : ~ (<<S, P>> \in StrictSubsetOrdering(Runs))
    BY <1>2, <2>1, WFMin, Zenon
  <2> QED BY <2>2
<1>4. PICK n \in Q : P = UpTo(n)
  BY <1>3
<1>5. ASSUME NEW m \in Q, ~(n <= m)
      PROVE  FALSE
  <2>1. m \in Nat /\ n \in Nat /\ m < n
    BY <1>1, <1>5
  <2>2. UpTo(m) \subseteq UpTo(n) /\ n \in UpTo(n) /\ n \notin UpTo(m)
    <3>1. \A r \in Q : r <= m => r <= n
      BY <1>1, <2>1
    <3>2. n <= n /\ ~(n <= m)
      BY <2>1
    <3> QED BY <3>1, <3>2
  <2>3. <<UpTo(m), UpTo(n)>> \in StrictSubsetOrdering(Runs)
    BY <2>2 DEF StrictSubsetOrdering
  <2> QED BY <1>3, <1>4, <2>3
<1> QED BY <1>5

LEMMA OldestIsQueued ==
  ASSUME NEW p
  PROVE  /\ Oldest(p) \in 0 .. MaxRuns
         /\ Oldest(p) # 0 => Oldest(p) \in Queued(p)
<1>1. Queued(p) \in SUBSET Runs /\ MaxRuns \in Nat
  BY SchedulerAssumption DEF Queued
<1>2. CASE Queued(p) = {}
  BY <1>1, <1>2 DEF Oldest
<1>3. CASE Queued(p) # {}
  <2>1. \E r \in Queued(p) : \A s \in Queued(p) : r <= s
    BY <1>1, <1>3, OldestExists
  <2>2. Oldest(p) \in Queued(p)
    BY <1>3, <2>1 DEF Oldest
  <2> QED BY <1>1, <2>2 DEF Runs
<1> QED BY <1>2, <1>3

-----------------------------------------------------------------------------
(* A ranking to begin with: any order of the dispatchers.                  *)
LEMMA RankingExists ==
  \E rank \in [Dispatchers -> Ranks] : \A d, e \in Dispatchers : rank[d] = rank[e] => d = e
<1>1. ExistsBijection(Ranks, Dispatchers)
  BY DispatchersCount, FS_CardinalityType DEF Ranks
<1>2. PICK f \in [Ranks -> Dispatchers] : \A d \in Dispatchers : \E k \in Ranks : f[k] = d
  BY <1>1 DEF ExistsBijection, Bijection, Surjection
<1> DEFINE rank == [d \in Dispatchers |-> CHOOSE k \in Ranks : f[k] = d]
<1>3. \A d \in Dispatchers : rank[d] \in Ranks /\ f[rank[d]] = d
  BY <1>2
<1>4. rank \in [Dispatchers -> Ranks] /\ \A d, e \in Dispatchers : rank[d] = rank[e] => d = e
  BY <1>3
<1> QED BY <1>4

LEMMA IdleIsChoice ==
  /\ Idle \in Choice /\ Idle.stage = "idle"
  /\ Idle.active = [p \in Projects |-> 0] /\ Idle.oldest = [p \in Projects |-> 0]
<1>1. Nothing \in [Projects -> 0 .. MaxRuns] /\ 0 \in 0 .. MaxRuns
  BY SchedulerAssumption DEF Nothing
<1> QED BY <1>1 DEF Idle, Nothing, Choice, Stages

LEMMA InitIInv == Init => IInv
<1> SUFFICES ASSUME Init PROVE IInv
  OBVIOUS
<1>1. Idle \in Choice /\ Idle.stage = "idle"
  BY IdleIsChoice
<1>2. TypeOK /\ OwnersRun /\ ClaimsAreBorn
  BY <1>1, SchedulerAssumption DEF Init, TypeOK, OwnersRun, ClaimsAreBorn
<1>3. Running = {} /\ \A p : RunningOf(p) = {}
  BY DEF Init, Running, RunningOf
<1>4. SlotIsKept
  <2> SUFFICES ASSUME NEW d \in Dispatchers PROVE Executing(d) = 0 /\ Slots(d) \in Nat
    BY <1>1 DEF SlotIsKept, Init
  <2>1. Owned(d) = {}
    BY SchedulerAssumption DEF Init, Dispatchers, Owned
  <2>2. Executing(d) = Cardinality(Owned(d)) + stray[d]
    BY DEF Executing, Owned
  <2> QED BY <2>1, <2>2, FS_EmptySet, SchedulerAssumption DEF Init, Slots
<1>5. Ranked
  <2>1. PICK rank \in [Dispatchers -> Ranks] : \A d, e \in Dispatchers : rank[d] = rank[e] => d = e
    BY RankingExists
  <2>2. \A d \in Dispatchers : choice[d].stage = "idle"
    BY <1>1 DEF Init
  <2> QED BY <2>1, <2>2 DEF Ranked, Ranking, CountsAlmost, CountsProjectAlmost, Considers
<1>6. BoundedOvershoot
  BY <1>3, FS_EmptySet, DispatchersCount, SchedulerAssumption DEF BoundedOvershoot
<1> QED BY <1>2, <1>4, <1>5, <1>6 DEF IInv

-----------------------------------------------------------------------------
(* A dispatcher reads: the runs stay as they are.                          *)
LEMMA ReadKeeps ==
  ASSUME IInv, NEW d \in Dispatchers, NEW c \in Choice, Read(d, c),
         c.stage # "idle" => Executing(d) < Slots(d),
         c.stage = "chosen" => c.winner \in Projects,
         c.stage = "claiming" => c.run \in Runs /\ status[c.run] # "unborn",
         \A k \in Ranks : CountsAlmost(choice[d], k) => CountsAlmost(c, k),
         \A k \in Ranks, p \in Projects :
           CountsProjectAlmost(choice[d], p, k) => CountsProjectAlmost(c, p, k)
  PROVE  IInv'
<1>1. /\ choice' \in [Dispatchers -> Choice]
      /\ choice'[d] = c /\ \A e \in Dispatchers : e # d => choice'[e] = choice[e]
      /\ UNCHANGED <<status, project, owner, stray, requeues>>
  BY DEF IInv, TypeOK, Read
<1>2. TypeOK' /\ OwnersRun'
  BY <1>1 DEF IInv, TypeOK, OwnersRun
<1>3. SlotIsKept'
  BY <1>1 DEF IInv, SlotIsKept, Executing
<1>4. ClaimsAreBorn'
  BY <1>1 DEF IInv, ClaimsAreBorn
<1>5. Running' = Running /\ \A p : RunningOf(p)' = RunningOf(p)
  BY <1>1 DEF Running, RunningOf
<1>6. \A k, x :
        /\ CountsAlmost(x, k)' <=> CountsAlmost(x, k)
        /\ \A p : CountsProjectAlmost(x, p, k)' <=> CountsProjectAlmost(x, p, k)
  BY <1>1, <1>5
  DEF CountsAlmost, Estimate, Uncounted, CountsProjectAlmost, Considers
<1>7. Ranked'
  <2>1. PICK rank \in [Dispatchers -> Ranks] : Ranking(rank)
    BY DEF IInv, Ranked
  <2>2. ASSUME NEW e \in Dispatchers
        PROVE  /\ CountsAlmost(choice'[e], rank[e])
               /\ \A p \in Projects : CountsProjectAlmost(choice'[e], p, rank[e])
    BY <1>1, <2>1 DEF Ranking
  <2>3. Ranking(rank)'
    BY <1>6, <2>1, <2>2 DEF Ranking
  <2> QED BY <2>3 DEF Ranked, Ranks
<1>8. BoundedOvershoot'
  BY <1>5 DEF IInv, BoundedOvershoot
<1> QED BY <1>2, <1>3, <1>4, <1>7, <1>8 DEF IInv

(* What the five kinds of reads learn.                                     *)
LEMMA BeginKeeps ==
  ASSUME IInv, NEW d \in Dispatchers, BeginSelection(d)
  PROVE  IInv'
<1>1. PICK scope \in SUBSET Projects :
        Read(d, [Idle EXCEPT !.stage = "counting", !.scope = scope, !.todo = Projects])
  BY DEF BeginSelection
<1> DEFINE c == [Idle EXCEPT !.stage = "counting", !.scope = scope, !.todo = Projects]
<1>2. c \in Choice /\ c.stage = "counting" /\ c.todo = Projects
  BY IdleIsChoice DEF Choice, Stages
<1>3. Uncounted(c) = Running
  BY <1>2 DEF IInv, OwnersRun, Uncounted, Running
<1>4. Cardinality(Running) <= Estimate(c)
  <2> HIDE DEF c
  <2>1. Cardinality(CountedOf(c)) \in Nat /\ Cardinality(Uncounted(c)) \in Nat
    BY <1>2, EstimateIsNat
  <2> QED BY <1>3, <2>1 DEF Estimate
<1>5. Estimate(c) \in Nat /\ Cardinality(Running) \in Nat
  <2> HIDE DEF c
  <2> QED BY <1>2, <1>3, EstimateIsNat
<1> HIDE DEF c
<1>6. \A k \in Ranks : CountsAlmost(c, k)
  BY <1>2, <1>4, <1>5, DispatchersCount DEF CountsAlmost
<1>7. \A k \in Ranks, p \in Projects : CountsProjectAlmost(c, p, k)
  BY <1>2 DEF CountsProjectAlmost, Considers
<1>8. Executing(d) < Slots(d)
  BY DEF BeginSelection
<1>9. Read(d, c)
  BY <1>1 DEF c
<1> QED BY <1>2, <1>6, <1>7, <1>8, <1>9, ReadKeeps

(* The runs of a project move from those yet to be counted to the counted. *)
LEMMA CountKeeps ==
  ASSUME IInv, NEW d \in Dispatchers, NEW p \in Projects, CountProject(d, p)
  PROVE  IInv'
<1> DEFINE b == choice[d]
           n == Cardinality(RunningOf(p))
           c == [b EXCEPT !.todo = @ \ {p}, !.active[p] = n]
<1>1. b \in Choice /\ b.stage = "counting" /\ p \in b.todo /\ Read(d, c)
  BY DEF CountProject, IInv, TypeOK
<1>2. n \in 0 .. MaxRuns /\ IsFiniteSet(RunningOf(p)) /\ RunningOf(p) \subseteq Runs
  BY RunsAreFinite DEF RunningOf, Running
<1> HIDE DEF b, n
<1>3. /\ c \in Choice /\ c.stage = "counting" /\ c.todo = b.todo \ {p}
      /\ c.active[p] = n /\ \A q \in Projects : q # p => c.active[q] = b.active[q]
  BY <1>1, <1>2 DEF Choice
<1> HIDE DEF c
<1>4. Estimate(c) = Estimate(b)
  <2> DEFINE New == {p} \X (1 .. n)
  <2>1. CountedOf(c) = CountedOf(b) \cup New /\ CountedOf(b) \cap New = {}
    BY <1>1, <1>2, <1>3, SchedulerAssumption DEF CountedOf
  <2>2. IsFiniteSet(New) /\ Cardinality(New) = n
    <3>1. IsFiniteSet(1 .. n) /\ Cardinality(1 .. n) = n
      BY <1>2, FS_Interval, SchedulerAssumption
    <3>2. IsFiniteSet({p}) /\ Cardinality({p}) = 1
      BY FS_Singleton
    <3>3. IsFiniteSet(New) /\ Cardinality(New) = 1 * n
      BY <3>1, <3>2, FS_Product
    <3> QED BY <1>2, <3>3
  <2> HIDE DEF New
  <2>3. Cardinality(CountedOf(c)) = Cardinality(CountedOf(b)) + n
    <3>1. IsFiniteSet(CountedOf(b)) /\ Cardinality(CountedOf(b)) \in Nat
      BY <1>1, EstimateIsNat
    <3>2. Cardinality(CountedOf(c)) = Cardinality(CountedOf(b)) + Cardinality(New) - Cardinality({})
      BY <2>1, <2>2, <3>1, FS_Union
    <3> QED BY <1>2, <2>2, <3>1, <3>2, FS_EmptySet
  <2>4. /\ Uncounted(b) = Uncounted(c) \cup RunningOf(p)
        /\ Uncounted(c) \cap RunningOf(p) = {}
    BY <1>1, <1>3 DEF Uncounted, RunningOf
  <2>5. Cardinality(Uncounted(b)) = Cardinality(Uncounted(c)) + n
    <3>1. /\ IsFiniteSet(Uncounted(c)) /\ Cardinality(Uncounted(c)) \in Nat
      BY <1>3, EstimateIsNat, RunsAreFinite
    <3>2. Cardinality(Uncounted(b)) =
            Cardinality(Uncounted(c)) + Cardinality(RunningOf(p)) - Cardinality({})
      BY <1>2, <2>4, <3>1, FS_Union
    <3> QED BY <1>2, <3>1, <3>2, FS_EmptySet DEF n
  <2>6. /\ Cardinality(CountedOf(b)) \in Nat /\ Cardinality(Uncounted(c)) \in Nat /\ n \in Nat
    BY <1>1, <1>2, <1>3, EstimateIsNat
  <2> QED BY <2>3, <2>5, <2>6 DEF Estimate
<1>5. \A k \in Ranks : CountsAlmost(b, k) => CountsAlmost(c, k)
  BY <1>1, <1>3, <1>4 DEF CountsAlmost
<1>6. \A k \in Ranks, q \in Projects : CountsProjectAlmost(b, q, k) => CountsProjectAlmost(c, q, k)
  <2> SUFFICES ASSUME NEW k \in Ranks, NEW q \in Projects,
                      CountsProjectAlmost(b, q, k), Considers(c, q)
               PROVE  Cardinality(RunningOf(q)) <= ProjectMax + k - 2
    BY DEF CountsProjectAlmost
  <2>1. c.stage = "counting" /\ q \notin c.todo /\ c.active[q] < ProjectMax
    BY <1>3 DEF Considers
  <2>2. CASE q = p
    <3>1. k \in Nat \ {0}
      BY DispatchersCount
    <3> QED BY <1>2, <1>3, <2>1, <2>2, <3>1, SchedulerAssumption DEF n
  <2>3. CASE q # p
    BY <1>1, <1>3, <2>1, <2>3 DEF CountsProjectAlmost, Considers
  <2> QED BY <2>2, <2>3
<1>7. Executing(d) < Slots(d)
  BY <1>1 DEF IInv, SlotIsKept, b
<1> QED BY <1>1, <1>3, <1>5, <1>6, <1>7, ReadKeeps DEF b

(* The pass ends without a run.                                            *)
LEMMA IdleKeeps ==
  ASSUME IInv, NEW d \in Dispatchers, Read(d, Idle)
  PROVE  IInv'
BY IdleIsChoice, ReadKeeps, Zenon DEF CountsAlmost, CountsProjectAlmost, Considers

LEMMA SaturationKeeps ==
  ASSUME IInv, NEW d \in Dispatchers, CheckSaturation(d)
  PROVE  IInv'
<1> DEFINE b == choice[d]
           c == [b EXCEPT !.stage = "listing", !.todo = Projects]
<1>1. b \in Choice /\ b.stage = "counting" /\ b.todo = {}
  BY DEF CheckSaturation, IInv, TypeOK
<1>2. CASE Counted(b.active) >= GlobalMax
  BY <1>2, IdleKeeps DEF CheckSaturation
<1>3. CASE ~(Counted(b.active) >= GlobalMax)
  <2>1. Read(d, c)
    BY <1>3 DEF CheckSaturation
  <2>2. Executing(d) < Slots(d)
    BY <1>1 DEF IInv, SlotIsKept
  <2> HIDE DEF b
  <2>3. c \in Choice /\ c.stage = "listing" /\ c.active = b.active
    BY <1>1 DEF Choice, Stages
  <2> HIDE DEF c
  <2>4. Estimate(b) <= GlobalMax - 1
    <3>1. CountedOf(b) = {x \in Projects \X (1 .. MaxRuns) : x[2] <= b.active[x[1]]}
      BY <1>1 DEF CountedOf
    <3>2. Uncounted(b) = {}
      BY <1>1 DEF Uncounted
    <3>3. Cardinality(CountedOf(b)) = Counted(b.active)
      BY <3>1 DEF Counted
    <3> QED BY <1>1, <1>3, <3>2, <3>3, EstimateIsNat, FS_EmptySet, SchedulerAssumption DEF Estimate
  <2>5. \A k \in Ranks : CountsAlmost(b, k) => CountsAlmost(c, k)
    <3> SUFFICES ASSUME NEW k \in Ranks, CountsAlmost(b, k)
                 PROVE  Cardinality(Running) <= GlobalMax + k - 2
      BY <2>3 DEF CountsAlmost
    <3>1. /\ Cardinality(Running) \in Nat /\ k \in Nat
          /\ Estimate(b) \in Nat /\ GlobalMax \in Nat
      BY <1>1, EstimateIsNat, RunsAreFinite, DispatchersCount, SchedulerAssumption DEF Running
    <3> QED BY <1>1, <2>4, <3>1 DEF CountsAlmost
  <2>6. \A k \in Ranks, p \in Projects : CountsProjectAlmost(b, p, k) => CountsProjectAlmost(c, p, k)
    BY <1>1, <2>3 DEF CountsProjectAlmost, Considers
  <2> QED BY <2>1, <2>2, <2>3, <2>5, <2>6, ReadKeeps DEF b
<1> QED BY <1>2, <1>3

LEMMA ListKeeps ==
  ASSUME IInv, NEW d \in Dispatchers, NEW p \in Projects, ListProject(d, p)
  PROVE  IInv'
<1> DEFINE b == choice[d]
           c == [b EXCEPT !.todo = @ \ {p}, !.oldest[p] = Oldest(p)]
<1>1. b \in Choice /\ b.stage = "listing" /\ Read(d, c) /\ Executing(d) < Slots(d)
  BY DEF ListProject, IInv, TypeOK, SlotIsKept
<1> HIDE DEF b
<1>2. c \in Choice /\ c.stage = "listing" /\ c.active = b.active
  BY <1>1, OldestIsQueued DEF Choice
<1> HIDE DEF c
<1>3. \A k \in Ranks : CountsAlmost(b, k) => CountsAlmost(c, k)
  BY <1>1, <1>2 DEF CountsAlmost
<1>4. \A k \in Ranks, q \in Projects : CountsProjectAlmost(b, q, k) => CountsProjectAlmost(c, q, k)
  BY <1>1, <1>2 DEF CountsProjectAlmost, Considers
<1> QED BY <1>1, <1>2, <1>3, <1>4, ReadKeeps DEF b

(* The winner was below its quota.                                         *)
LEMMA ChooseKeeps ==
  ASSUME IInv, NEW d \in Dispatchers, ChooseProject(d)
  PROVE  IInv'
<1> DEFINE b == choice[d]
<1>1. b \in Choice /\ b.stage = "listing" /\ Executing(d) < Slots(d)
  BY DEF ChooseProject, IInv, TypeOK, SlotIsKept
<1>2. ASSUME NEW p \in Eligible(b), Read(d, [Idle EXCEPT !.stage = "chosen", !.winner = p])
      PROVE  IInv'
  <2> DEFINE c == [Idle EXCEPT !.stage = "chosen", !.winner = p]
  <2>1. p \in Projects /\ b.active[p] < ProjectMax
    BY <1>1 DEF Eligible, Choice
  <2>2. c \in Choice /\ c.stage = "chosen" /\ c.winner = p /\ Read(d, c)
    BY <1>2, <2>1, IdleIsChoice DEF Choice, Stages
  <2> HIDE DEF b, c
  <2>3. \A k \in Ranks : CountsAlmost(b, k) => CountsAlmost(c, k)
    BY <1>1, <2>2 DEF CountsAlmost
  <2>4. \A k \in Ranks, q \in Projects : CountsProjectAlmost(b, q, k) => CountsProjectAlmost(c, q, k)
    BY <1>1, <2>1, <2>2 DEF CountsProjectAlmost, Considers
  <2> QED BY <1>1, <2>1, <2>2, <2>3, <2>4, ReadKeeps DEF b
<1> QED BY <1>2, IdleKeeps DEF ChooseProject

LEMMA FetchKeeps ==
  ASSUME IInv, NEW d \in Dispatchers, FetchOldest(d)
  PROVE  IInv'
<1> DEFINE b == choice[d]
           r == Oldest(b.winner)
           c == [Idle EXCEPT !.stage = "claiming", !.run = r]
<1>1. b.stage = "chosen" /\ b.winner \in Projects /\ Executing(d) < Slots(d)
  BY DEF FetchOldest, IInv, ClaimsAreBorn, SlotIsKept
<1>2. CASE r = 0
  BY <1>2, IdleKeeps DEF FetchOldest
<1>3. CASE r # 0
  <2>1. Read(d, c)
    BY <1>3 DEF FetchOldest
  <2>2. r \in 0 .. MaxRuns /\ r \in Runs /\ status[r] = "queued" /\ project[r] = b.winner
    BY <1>3, OldestIsQueued DEF Queued
  <2> HIDE DEF b, r
  <2>3. c \in Choice /\ c.stage = "claiming" /\ c.run = r
    BY <2>2, IdleIsChoice DEF Choice, Stages
  <2> HIDE DEF c
  <2>4. \A k \in Ranks : CountsAlmost(b, k) => CountsAlmost(c, k)
    BY <1>1, <2>3 DEF CountsAlmost
  <2>5. \A k \in Ranks, q \in Projects : CountsProjectAlmost(b, q, k) => CountsProjectAlmost(c, q, k)
    BY <1>1, <2>2, <2>3 DEF CountsProjectAlmost, Considers
  <2> QED BY <1>1, <2>1, <2>2, <2>3, <2>4, <2>5, ReadKeeps DEF b
<1> QED BY <1>2, <1>3

-----------------------------------------------------------------------------
(* Meanwhile runs stop running, and none starts.                           *)
LEMMA FewerRun ==
  ASSUME IInv, UNCHANGED choice, Running' \subseteq Running,
         \A r \in Runs : status[r] # "unborn" => project'[r] = project[r] /\ status'[r] # "unborn"
  PROVE  ClaimsAreBorn' /\ Ranked' /\ BoundedOvershoot'
<1>1. ClaimsAreBorn'
  BY DEF IInv, ClaimsAreBorn
<1>2. \A r \in Running' : r \in Running /\ project'[r] = project[r]
  BY DEF Running
<1>3. /\ Cardinality(Running) \in Nat /\ Cardinality(Running') \in Nat
      /\ Cardinality(Running') <= Cardinality(Running)
  <2>1. Running \in SUBSET Runs /\ Running' \in SUBSET Runs
    BY DEF Running
  <2> QED BY <2>1, RunsAreFinite, FS_Subset
<1>4. ASSUME NEW p
      PROVE  /\ Cardinality(RunningOf(p)) \in Nat /\ Cardinality(RunningOf(p)') \in Nat
             /\ Cardinality(RunningOf(p)') <= Cardinality(RunningOf(p))
  <2>1. /\ RunningOf(p) \in SUBSET Runs /\ RunningOf(p)' \in SUBSET Runs
        /\ RunningOf(p)' \subseteq RunningOf(p)
    BY <1>2 DEF RunningOf, Running
  <2> QED BY <2>1, RunsAreFinite, FS_Subset
<1>5. ASSUME NEW c \in Choice
      PROVE  /\ Estimate(c) \in Nat /\ Estimate(c)' \in Nat
             /\ Cardinality(Running') - Estimate(c)' <= Cardinality(Running) - Estimate(c)
  <2> DEFINE Lost == Running \ Running'
  <2>1. /\ Running \in SUBSET Runs /\ Running' \in SUBSET Runs /\ Running' \cup Lost = Running
        /\ Running' \cap Lost = {} /\ Lost \in SUBSET Runs
    BY DEF Running
  <2>2. Cardinality(Lost) \in Nat /\ Cardinality(Running) = Cardinality(Running') + Cardinality(Lost)
    <3>1. /\ IsFiniteSet(Running') /\ Cardinality(Running') \in Nat
          /\ IsFiniteSet(Lost) /\ Cardinality(Lost) \in Nat
      BY <2>1, RunsAreFinite
    <3>2. Cardinality(Running) = Cardinality(Running') + Cardinality(Lost) - Cardinality({})
      BY <2>1, <3>1, FS_Union
    <3> QED BY <3>1, <3>2, FS_EmptySet
  <2>3. /\ Uncounted(c) \in SUBSET Runs /\ Uncounted(c)' \in SUBSET Runs
        /\ Uncounted(c) \subseteq Uncounted(c)' \cup Lost
    BY <1>2 DEF Uncounted, Running
  <2>4. /\ Cardinality(Uncounted(c)) \in Nat /\ Cardinality(Uncounted(c)') \in Nat
        /\ Cardinality(Uncounted(c)) <= Cardinality(Uncounted(c)') + Cardinality(Lost)
    <3> DEFINE Before == Uncounted(c)
               After == Uncounted(c)'
    <3>1. /\ IsFiniteSet(Before) /\ Cardinality(Before) \in Nat
          /\ IsFiniteSet(After) /\ Cardinality(After) \in Nat
          /\ IsFiniteSet(Lost) /\ Cardinality(Lost) \in Nat
      BY <2>1, <2>3, RunsAreFinite
    <3>2. After \cap Lost \in SUBSET Runs /\ After \cup Lost \in SUBSET Runs
      BY <2>1, <2>3
    <3> HIDE DEF Before, After, Lost
    <3>3. /\ IsFiniteSet(After \cup Lost) /\ Cardinality(After \cup Lost) \in Nat
          /\ Cardinality(After \cap Lost) \in Nat
      BY <3>2, RunsAreFinite
    <3>4. Cardinality(After \cup Lost) = Cardinality(After) + Cardinality(Lost) - Cardinality(After \cap Lost)
      BY <3>1, FS_Union
    <3>5. Cardinality(Before) <= Cardinality(After \cup Lost)
      BY <2>3, <3>3, FS_Subset DEF Before, After
    <3>6. /\ Cardinality(Before) \in Nat /\ Cardinality(After) \in Nat
          /\ Cardinality(Before) <= Cardinality(After) + Cardinality(Lost)
      BY <3>1, <3>3, <3>4, <3>5
    <3> QED BY <3>6 DEF Before, After
  <2> HIDE DEF Lost
  <2>5. CountedOf(c)' = CountedOf(c) /\ Cardinality(CountedOf(c)) \in Nat
    BY EstimateIsNat DEF CountedOf
  <2> QED BY <1>3, <2>2, <2>4, <2>5 DEF Estimate
<1>6. Ranked'
  <2>1. PICK rank \in [Dispatchers -> Ranks] : Ranking(rank)
    BY DEF IInv, Ranked
  <2>2. ASSUME NEW c \in Choice, NEW k \in Nat, CountsAlmost(c, k)
        PROVE  CountsAlmost(c, k)'
    BY <1>3, <1>5, <2>2, SchedulerAssumption DEF CountsAlmost
  <2>3. ASSUME NEW d \in Dispatchers, NEW p \in Projects
        PROVE  CountsProjectAlmost(choice[d], p, rank[d])'
    <3>1. Considers(choice[d], p)' => Considers(choice[d], p)
      BY DEF Considers, IInv, ClaimsAreBorn
    <3>2. rank[d] \in Nat /\ ProjectMax \in Nat
      BY DispatchersCount, SchedulerAssumption
    <3> QED BY <1>4, <2>1, <3>1, <3>2 DEF CountsProjectAlmost, Ranking
  <2>4. \A d \in Dispatchers :
          choice'[d] = choice[d] /\ choice[d] \in Choice /\ rank[d] \in Nat
    BY DispatchersCount DEF IInv, TypeOK
  <2>5. \A c \in Choice, k \in Nat : CountsAlmost(c, k) => CountsAlmost(c, k)'
    BY <2>2
  <2> QED BY <2>1, <2>3, <2>4, <2>5 DEF Ranked, Ranking, Ranks
<1>7. BoundedOvershoot'
  BY <1>3, <1>4, DispatchersCount, SchedulerAssumption DEF IInv, BoundedOvershoot
<1> QED BY <1>1, <1>6, <1>7

LEMMA SlotsAreNumbers ==
  ASSUME TypeOK, NEW d \in Dispatchers
  PROVE  /\ Slots(d) \in Nat /\ stray[d] \in Nat
         /\ IsFiniteSet(Owned(d)) /\ Cardinality(Owned(d)) \in Nat
         /\ Executing(d) = Cardinality(Owned(d)) + stray[d]
<1>1. Owned(d) \in SUBSET Runs
  BY DEF Owned
<1>2. Slots(d) \in Nat /\ stray[d] \in Nat
  BY SchedulerAssumption DEF TypeOK, Slots
<1>3. Executing(d) = Cardinality(Owned(d)) + stray[d]
  BY DEF Executing, Owned
<1> QED BY <1>1, <1>2, <1>3, RunsAreFinite

(* The bound on runs.                                                      *)
LEMMA RequeuesAreBounded ==
  ASSUME TypeOK, Bounded
  PROVE  requeues + 1 \in 0 .. MaxRuns
<1>1. {r \in Runs : status[r] # "unborn"} \in SUBSET Runs
  OBVIOUS
<1>2. Cardinality({r \in Runs : status[r] # "unborn"}) \in Nat
  BY <1>1, RunsAreFinite
<1> QED BY <1>2, SchedulerAssumption DEF TypeOK, Bounded

LEMMA SubmitKeeps ==
  ASSUME IInv, Submit
  PROVE  IInv'
<1>1. PICK r \in Runs, p \in Projects :
        /\ status[r] = "unborn"
        /\ status' = [status EXCEPT ![r] = "queued"]
        /\ project' = [project EXCEPT ![r] = p]
        /\ UNCHANGED <<owner, stray, requeues, choice>>
  BY DEF Submit
<1>2. TypeOK'
  BY <1>1 DEF IInv, TypeOK
<1>3. OwnersRun'
  BY <1>1 DEF IInv, TypeOK, OwnersRun
<1>4. SlotIsKept'
  BY <1>1 DEF IInv, SlotIsKept, Executing
<1>5. Running' \subseteq Running
  BY <1>1 DEF IInv, TypeOK, Running
<1>6. \A s \in Runs : status[s] # "unborn" => project'[s] = project[s] /\ status'[s] # "unborn"
  BY <1>1 DEF IInv, TypeOK
<1> QED BY <1>1, <1>2, <1>3, <1>4, <1>5, <1>6, FewerRun DEF IInv

(* The row of a run that is not running changes.                           *)
LEMMA WaitingKeeps ==
  ASSUME IInv, NEW r \in Runs, Requeue(r) \/ Withdraw(r)
  PROVE  IInv'
<1>1. /\ status[r] \in {"queued", "parked"}
      /\ \E to \in {"queued", "parked", "ended"} : status' = [status EXCEPT ![r] = to]
      /\ requeues' \in 0 .. MaxRuns
      /\ UNCHANGED <<project, owner, stray, choice>>
  BY RequeuesAreBounded DEF IInv, TypeOK, Requeue, Withdraw
<1>2. TypeOK'
  BY <1>1 DEF IInv, TypeOK
<1>3. OwnersRun'
  BY <1>1 DEF IInv, TypeOK, OwnersRun
<1>4. SlotIsKept'
  BY <1>1 DEF IInv, SlotIsKept, Executing
<1>5. Running' \subseteq Running
  BY <1>1 DEF IInv, TypeOK, Running
<1>6. \A s \in Runs : status[s] # "unborn" => project'[s] = project[s] /\ status'[s] # "unborn"
  BY <1>1 DEF IInv, TypeOK
<1> QED BY <1>1, <1>2, <1>3, <1>4, <1>5, <1>6, FewerRun DEF IInv

(* A run stops running; if its execution goes on, it is a stray.           *)
LEMMA RunningKeeps ==
  ASSUME IInv, NEW r \in Runs, Finish(r) \/ TakeAway(r)
  PROVE  IInv'
<1>1. /\ status[r] = "running" /\ owner[r] \in Dispatchers
      /\ \E to \in {"queued", "parked", "ended"} : status' = [status EXCEPT ![r] = to]
      /\ owner' = [owner EXCEPT ![r] = None]
      /\ requeues' \in 0 .. MaxRuns
      /\ UNCHANGED <<project, choice>>
  BY RequeuesAreBounded DEF IInv, TypeOK, OwnersRun, Finish, TakeAway
<1>2. stray' = stray \/ stray' = [stray EXCEPT ![owner[r]] = @ + 1]
  BY DEF Finish, TakeAway
<1>3. TypeOK'
  BY <1>1, <1>2 DEF IInv, TypeOK
<1>4. OwnersRun'
  BY <1>1 DEF IInv, TypeOK, OwnersRun
<1>5. ASSUME NEW d \in Dispatchers
      PROVE  Executing(d)' \in Nat /\ Executing(d)' <= Executing(d)
  <2>1. Owned(d)' = Owned(d) \ {r} /\ (r \in Owned(d) <=> d = owner[r])
    BY <1>1, SchedulerAssumption DEF IInv, TypeOK, Owned, Dispatchers
  <2>2. /\ IsFiniteSet(Owned(d)) /\ Cardinality(Owned(d)) \in Nat /\ stray[d] \in Nat
        /\ Executing(d) = Cardinality(Owned(d)) + stray[d]
        /\ Cardinality(Owned(d)') \in Nat /\ stray'[d] \in Nat
        /\ Executing(d)' = Cardinality(Owned(d)') + stray'[d]
    BY <1>3, SlotsAreNumbers, RunsAreFinite DEF IInv, Executing, Owned, TypeOK
  <2>3. Cardinality(Owned(d)') = IF d = owner[r] THEN Cardinality(Owned(d)) - 1 ELSE Cardinality(Owned(d))
    BY <2>1, <2>2, FS_RemoveElement
  <2>4. stray'[d] = stray[d] \/ (d = owner[r] /\ stray'[d] = stray[d] + 1)
    BY <1>2 DEF IInv, TypeOK
  <2> QED BY <2>2, <2>3, <2>4
<1>6. SlotIsKept'
  <2> SUFFICES ASSUME NEW d \in Dispatchers
               PROVE  /\ Executing(d)' <= Slots(d)
                      /\ choice[d].stage # "idle" => Executing(d)' < Slots(d)
    BY <1>1 DEF SlotIsKept, Slots
  <2>1. Executing(d) \in Nat /\ Slots(d) \in Nat
    BY SlotsAreNumbers DEF IInv
  <2> QED BY <1>5, <2>1 DEF IInv, SlotIsKept
<1>7. Running' \subseteq Running
  BY <1>1 DEF IInv, TypeOK, Running
<1>8. \A s \in Runs : status[s] # "unborn" => project'[s] = project[s] /\ status'[s] # "unborn"
  BY <1>1 DEF IInv, TypeOK
<1> QED BY <1>1, <1>3, <1>4, <1>6, <1>7, <1>8, FewerRun DEF IInv

LEMMA StrayKeeps ==
  ASSUME IInv, NEW d \in Dispatchers, StrayEnds(d)
  PROVE  IInv'
<1>1. /\ stray' = [stray EXCEPT ![d] = @ - 1] /\ stray[d] > 0
      /\ UNCHANGED <<status, project, owner, requeues, choice>>
  BY DEF StrayEnds
<1>2. TypeOK' /\ OwnersRun'
  BY <1>1 DEF IInv, TypeOK, OwnersRun
<1>3. ASSUME NEW e \in Dispatchers
      PROVE  /\ Executing(e)' <= Slots(e)
             /\ choice[e].stage # "idle" => Executing(e)' < Slots(e)
  <2>1. /\ Slots(e) \in Nat /\ stray[e] \in Nat /\ Cardinality(Owned(e)) \in Nat
        /\ Executing(e) = Cardinality(Owned(e)) + stray[e]
    BY SlotsAreNumbers DEF IInv
  <2>2. Executing(e)' = Cardinality(Owned(e)) + stray'[e]
    BY <1>1 DEF Executing, Owned
  <2>3. stray'[e] = stray[e] \/ stray'[e] = stray[e] - 1
    BY <1>1 DEF IInv, TypeOK
  <2> QED BY <2>1, <2>2, <2>3 DEF IInv, SlotIsKept
<1>4. SlotIsKept'
  BY <1>1, <1>3 DEF SlotIsKept, Slots
<1>5. Running' \subseteq Running
  BY <1>1 DEF Running
<1> QED BY <1>1, <1>2, <1>4, <1>5, FewerRun DEF IInv

-----------------------------------------------------------------------------
(* A claim that wins.                                                      *)
Wins(d) == Claim(d) /\ status[choice[d].run] = "queued"

LEMMA WinChanges ==
  ASSUME IInv, NEW d \in Dispatchers, Wins(d), NEW r, r = choice[d].run
  PROVE  /\ r \in Runs /\ project[r] \in Projects
         /\ status' = [status EXCEPT ![r] = "running"]
         /\ owner' = [owner EXCEPT ![r] = d] /\ owner[r] = None
         /\ choice' = [choice EXCEPT ![d] = Idle]
         /\ UNCHANGED <<project, stray, requeues>>
         /\ r \notin Running /\ Running' = Running \cup {r}
         /\ \A p : RunningOf(p)' = IF project[r] = p THEN RunningOf(p) \cup {r} ELSE RunningOf(p)
<1>1. r \in Runs /\ status[r] = "queued"
  BY DEF IInv, ClaimsAreBorn, Claim, Wins
<1>2. /\ status' = [status EXCEPT ![r] = "running"]
      /\ owner' = [owner EXCEPT ![r] = d]
      /\ choice' = [choice EXCEPT ![d] = Idle]
      /\ UNCHANGED <<project, stray, requeues>>
  BY DEF Claim, Wins
<1>3. owner[r] = None /\ project[r] \in Projects
  BY <1>1 DEF IInv, OwnersRun
<1>4. r \notin Running /\ Running' = Running \cup {r}
  BY <1>1, <1>2 DEF IInv, TypeOK, Running
<1>5. ASSUME NEW p
      PROVE  RunningOf(p)' = IF project[r] = p THEN RunningOf(p) \cup {r} ELSE RunningOf(p)
  BY <1>2, <1>4 DEF RunningOf
<1> QED BY <1>1, <1>2, <1>3, <1>4, <1>5

(* It stays within the slots of its dispatcher.                            *)
LEMMA WinHasSlot ==
  ASSUME IInv, NEW d \in Dispatchers, Wins(d)
  PROVE  TypeOK' /\ OwnersRun' /\ SlotIsKept' /\ ClaimsAreBorn'
<1> DEFINE r == choice[d].run
<1>1. /\ r \in Runs /\ project[r] \in Projects
      /\ status' = [status EXCEPT ![r] = "running"]
      /\ owner' = [owner EXCEPT ![r] = d] /\ owner[r] = None
      /\ choice' = [choice EXCEPT ![d] = Idle]
      /\ UNCHANGED <<project, stray, requeues>>
  BY WinChanges
<1>2. choice[d].stage = "claiming"
  BY DEF Wins, Claim
<1> HIDE DEF r
<1>3. TypeOK'
  BY <1>1, IdleIsChoice DEF IInv, TypeOK
<1>4. OwnersRun'
  BY <1>1, SchedulerAssumption DEF IInv, TypeOK, OwnersRun, Dispatchers
<1>5. ClaimsAreBorn'
  BY <1>1, IdleIsChoice DEF IInv, TypeOK, ClaimsAreBorn
<1>6. ASSUME NEW e \in Dispatchers
      PROVE  Executing(e)' = IF e = d THEN Executing(e) + 1 ELSE Executing(e)
  <2>1. Owned(e)' = (IF e = d THEN Owned(e) \cup {r} ELSE Owned(e)) /\ r \notin Owned(e)
    BY <1>1, SchedulerAssumption DEF IInv, TypeOK, Owned, Dispatchers
  <2>2. /\ IsFiniteSet(Owned(e)) /\ Cardinality(Owned(e)) \in Nat /\ stray[e] \in Nat
        /\ Executing(e) = Cardinality(Owned(e)) + stray[e]
    BY SlotsAreNumbers DEF IInv
  <2>3. Executing(e)' = Cardinality(Owned(e)') + stray[e]
    BY <1>1 DEF Executing, Owned
  <2>4. Cardinality(Owned(e)') = IF e = d THEN Cardinality(Owned(e)) + 1 ELSE Cardinality(Owned(e))
    BY <2>1, <2>2, FS_AddElement
  <2> QED BY <2>2, <2>3, <2>4
<1>7. SlotIsKept'
  <2> SUFFICES ASSUME NEW e \in Dispatchers
               PROVE  /\ Executing(e)' <= Slots(e)
                      /\ choice'[e].stage # "idle" => Executing(e)' < Slots(e)
    BY DEF SlotIsKept, Slots
  <2>1. /\ Executing(e) \in Nat /\ Slots(e) \in Nat
        /\ Executing(e) <= Slots(e)
        /\ choice[e].stage # "idle" => Executing(e) < Slots(e)
    BY SlotsAreNumbers DEF IInv, SlotIsKept
  <2>2. choice'[e].stage # "idle" => e # d /\ choice'[e] = choice[e]
    BY <1>1, IdleIsChoice DEF IInv, TypeOK
  <2> QED BY <1>2, <1>6, <2>1, <2>2
<1> QED BY <1>3, <1>4, <1>5, <1>7

(* The dispatcher now ranks first; those that ranked before it, one later. *)
LEMMA WinRanks ==
  ASSUME IInv, NEW d \in Dispatchers, Wins(d)
  PROVE  Ranked' /\ BoundedOvershoot'
<1> DEFINE r == choice[d].run
<1>1. /\ r \in Runs /\ project[r] \in Projects
      /\ choice' = [choice EXCEPT ![d] = Idle]
      /\ UNCHANGED <<project, stray, requeues>>
      /\ r \notin Running /\ Running' = Running \cup {r}
      /\ \A p : RunningOf(p)' = IF project[r] = p THEN RunningOf(p) \cup {r} ELSE RunningOf(p)
  BY WinChanges
<1>2. choice[d].stage = "claiming" /\ Considers(choice[d], project[r])
  BY DEF Wins, Claim, Considers
<1> HIDE DEF r
<1>3. /\ Cardinality(Running) \in Nat
      /\ Cardinality(Running') = Cardinality(Running) + 1
  <2>1. IsFiniteSet(Running) /\ Cardinality(Running) \in Nat
    BY RunsAreFinite DEF Running
  <2> QED BY <1>1, <2>1, FS_AddElement
<1>4. ASSUME NEW p
      PROVE  /\ Cardinality(RunningOf(p)) \in Nat
             /\ Cardinality(RunningOf(p)') =
                  IF project[r] = p THEN Cardinality(RunningOf(p)) + 1 ELSE Cardinality(RunningOf(p))
  <2>1. RunningOf(p) \in SUBSET Runs /\ r \notin RunningOf(p)
    BY <1>1 DEF RunningOf, Running
  <2>2. IsFiniteSet(RunningOf(p)) /\ Cardinality(RunningOf(p)) \in Nat
    BY <2>1, RunsAreFinite
  <2>3. Cardinality(RunningOf(p) \cup {r}) = Cardinality(RunningOf(p)) + 1
    BY <2>1, <2>2, FS_AddElement
  <2> QED BY <1>1, <2>2, <2>3
<1>5. ASSUME NEW c \in Choice
      PROVE  Estimate(c) \in Nat /\ Estimate(c)' \in Nat /\ Estimate(c) <= Estimate(c)'
  <2>1. Uncounted(c) \subseteq Uncounted(c)' /\ Uncounted(c)' \in SUBSET Runs
    BY <1>1 DEF Uncounted, Running
  <2>2. /\ Cardinality(Uncounted(c)) \in Nat /\ Cardinality(Uncounted(c)') \in Nat
        /\ Cardinality(Uncounted(c)) <= Cardinality(Uncounted(c)')
    BY <2>1, RunsAreFinite, EstimateIsNat, FS_Subset
  <2>3. CountedOf(c)' = CountedOf(c) /\ Cardinality(CountedOf(c)) \in Nat
    BY EstimateIsNat DEF CountedOf
  <2> QED BY <2>2, <2>3 DEF Estimate
<1>6. PICK rank \in [Dispatchers -> Ranks] : Ranking(rank)
  BY DEF IInv, Ranked
<1> DEFINE later == [e \in Dispatchers |-> IF e = d THEN 1
                                          ELSE IF rank[e] < rank[d] THEN rank[e] + 1 ELSE rank[e]]
<1>7. /\ Cardinality(Running) <= GlobalMax + rank[d] - 2
      /\ Cardinality(RunningOf(project[r])) <= ProjectMax + rank[d] - 2
  BY <1>1, <1>2, <1>6 DEF Ranking, CountsAlmost, CountsProjectAlmost
<1>8. /\ GlobalMax \in Nat /\ ProjectMax \in Nat /\ Cardinality(Dispatchers) \in Nat
      /\ \A e \in Dispatchers : rank[e] \in Nat \ {0} /\ rank[e] <= Cardinality(Dispatchers)
  BY DispatchersCount, SchedulerAssumption DEF Ranks
<1>9. \A e \in Dispatchers :
        /\ e # d => \/ rank[e] < rank[d] /\ later[e] = rank[e] + 1
                    \/ rank[d] < rank[e] /\ later[e] = rank[e]
        /\ later[e] \in Nat \ {0} /\ later[e] <= Cardinality(Dispatchers)
  BY <1>6, <1>8 DEF Ranking
<1>10. later \in [Dispatchers -> Ranks] /\ \A e, f \in Dispatchers : later[e] = later[f] => e = f
  <2>1. later \in [Dispatchers -> Ranks]
    BY <1>9, <1>8 DEF Ranks
  <2>2. ASSUME NEW e \in Dispatchers, NEW f \in Dispatchers, later[e] = later[f]
        PROVE  e = f
    BY <1>6, <1>8, <1>9, <2>2 DEF Ranking
  <2> QED BY <2>1, <2>2
<1>11. later[d] = 1
  OBVIOUS
<1> HIDE DEF later
<1>12. ASSUME NEW c \in Choice, NEW k \in Nat, NEW m \in Nat,
              \/ m = k + 1
              \/ rank[d] < k /\ m = k
       PROVE  /\ CountsAlmost(c, k) => CountsAlmost(c, m)'
              /\ \A p \in Projects : CountsProjectAlmost(c, p, k) => CountsProjectAlmost(c, p, m)'
  <2>1. rank[d] \in Nat
    BY <1>8
  <2>2. CountsAlmost(c, k) => CountsAlmost(c, m)'
    BY <1>3, <1>5, <1>7, <1>8, <1>12, <2>1 DEF CountsAlmost
  <2>3. ASSUME NEW p \in Projects, CountsProjectAlmost(c, p, k)
        PROVE  CountsProjectAlmost(c, p, m)'
    <3>1. Considers(c, p)' => Considers(c, p)
      BY <1>1 DEF Considers
    <3> QED BY <1>4, <1>7, <1>8, <1>12, <2>1, <2>3, <3>1 DEF CountsProjectAlmost
  <2> QED BY <2>2, <2>3
<1>13. Ranked'
  <2>1. ASSUME NEW e \in Dispatchers, e # d
        PROVE  choice'[e] = choice[e] /\ choice[e] \in Choice
    BY <1>1, <2>1 DEF IInv, TypeOK
  <2>2. choice'[d].stage = "idle"
    BY <1>1, IdleIsChoice DEF IInv, TypeOK
  <2>3. ASSUME NEW e \in Dispatchers, e # d
        PROVE  /\ CountsAlmost(choice[e], rank[e]) => CountsAlmost(choice[e], later[e])'
               /\ \A p \in Projects : CountsProjectAlmost(choice[e], p, rank[e]) =>
                                        CountsProjectAlmost(choice[e], p, later[e])'
    <3>1. \A c \in Choice, k \in Nat, m \in Nat :
            (m = k + 1 \/ (rank[d] < k /\ m = k)) =>
              /\ CountsAlmost(c, k) => CountsAlmost(c, m)'
              /\ \A p \in Projects : CountsProjectAlmost(c, p, k) => CountsProjectAlmost(c, p, m)'
      BY <1>12
    <3>2. rank[e] \in Nat /\ later[e] \in Nat /\ (later[e] = rank[e] + 1 \/ (rank[d] < rank[e] /\ later[e] = rank[e]))
      BY <1>8, <1>9, <2>3
    <3> QED BY <2>1, <2>3, <3>1, <3>2
  <2>4. ASSUME NEW e \in Dispatchers
        PROVE  /\ CountsAlmost(choice[e], later[e])'
               /\ \A p \in Projects : CountsProjectAlmost(choice[e], p, later[e])'
    <3>1. CASE e = d
      BY <2>2, <3>1 DEF CountsAlmost, CountsProjectAlmost, Considers
    <3>2. CASE e # d
      BY <1>6, <2>3, <3>2 DEF Ranking
    <3> QED BY <3>1, <3>2
  <2>5. Ranking(later)'
    BY <1>10, <2>4 DEF Ranking
  <2> QED BY <1>10, <2>5 DEF Ranked, Ranks
<1>14. BoundedOvershoot'
  <2>1. rank[d] \in Nat /\ rank[d] <= Cardinality(Dispatchers)
    BY <1>8
  <2>2. Cardinality(Running') <= GlobalMax + (Cardinality(Dispatchers) - 1)
    BY <1>3, <1>7, <1>8, <2>1
  <2>3. ASSUME NEW p \in Projects
        PROVE  Cardinality(RunningOf(p)') <= ProjectMax + (Cardinality(Dispatchers) - 1)
    BY <1>4, <1>7, <1>8, <2>1 DEF IInv, BoundedOvershoot
  <2> QED BY <2>2, <2>3 DEF BoundedOvershoot
<1> QED BY <1>13, <1>14

LEMMA ClaimKeeps ==
  ASSUME IInv, NEW d \in Dispatchers, Claim(d)
  PROVE  IInv'
<1>1. CASE Wins(d)
  BY <1>1, WinHasSlot, WinRanks DEF IInv
<1>2. CASE ~Wins(d)
  <2>1. Read(d, Idle)
    BY <1>2 DEF Wins, Claim, Read
  <2> QED BY <2>1, IdleKeeps
<1> QED BY <1>1, <1>2

-----------------------------------------------------------------------------
LEMMA StepIInv == IInv /\ [Next]_vars => IInv'
<1> SUFFICES ASSUME IInv, [Next]_vars PROVE IInv'
  OBVIOUS
<1>1. CASE Submit
  BY <1>1, SubmitKeeps
<1>2. ASSUME NEW d \in Dispatchers, Dispatch(d)
      PROVE  IInv'
  BY <1>2, BeginKeeps, CountKeeps, ListKeeps, SaturationKeeps, ChooseKeeps, FetchKeeps, ClaimKeeps
  DEF Dispatch
<1>3. ASSUME NEW d \in Dispatchers, StrayEnds(d)
      PROVE  IInv'
  BY <1>3, StrayKeeps
<1>4. ASSUME NEW r \in Runs, Finish(r) \/ TakeAway(r) \/ Requeue(r) \/ Withdraw(r)
      PROVE  IInv'
  BY <1>4, RunningKeeps, WaitingKeeps
<1>5. CASE UNCHANGED vars
  <2>1. Running' \subseteq Running
    BY <1>5 DEF vars, Running
  <2>2. TypeOK' /\ OwnersRun' /\ SlotIsKept'
    BY <1>5 DEF vars, IInv, TypeOK, OwnersRun, SlotIsKept, Executing
  <2> QED BY <1>5, <2>1, <2>2, FewerRun DEF vars, IInv
<1> QED BY <1>1, <1>2, <1>3, <1>4, <1>5 DEF Next

LEMMA AlwaysIInv == Spec => []IInv
BY InitIInv, StepIInv, PTL DEF Spec

(* The state of the scheduler has its types.                               *)
THEOREM SchedulerTypes == Spec => []TypeOK
<1>1. IInv => TypeOK
  BY DEF IInv
<1> QED BY <1>1, AlwaysIInv, PTL

(* No dispatcher executes more runs than it has threads.                   *)
THEOREM AlwaysWithinSlots == Spec => []WithinSlots
<1>1. IInv => WithinSlots
  BY DEF IInv, SlotIsKept, WithinSlots
<1> QED BY <1>1, AlwaysIInv, PTL

(* Whatever the interleaving of counts, lists and claims, every dispatcher *)
(* but one adds at most one run beyond a quota.                            *)
THEOREM OvershootIsBounded == Spec => []BoundedOvershoot
<1>1. IInv => BoundedOvershoot
  BY DEF IInv
<1> QED BY <1>1, AlwaysIInv, PTL

=============================================================================
