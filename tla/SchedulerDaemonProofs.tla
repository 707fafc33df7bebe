------------------------ MODULE SchedulerDaemonProofs ------------------------
(***************************************************************************)
(* Proofs about the local scheduler, for any jobs, policies and edits of   *)
(* the registry, and any number of restarts and failures.                  *)
(*                                                                         *)
(* What makes jobs.json correct is said of one job state against the       *)
(* history (Sound), and holds of the state in the file and, in a cycle, of *)
(* the one in memory.                                                      *)
(***************************************************************************)
EXTENDS SchedulerDaemon, FiniteSetTheorems, TLAPS

Settled == {"ok", "error", "skipped"}

(* The slots passed with success, and those of them nobody has resolved.   *)
Passed(h, j, last) == {s \in Slots : s <= last /\ h[j][s] = "ok"}

Certain(h, a, j, last) == {s \in Passed(h, j, last) : <<j, s>> \notin a}

CountIsRight(h, a, j, st) ==
  /\ st.count <= Cardinality(Passed(h, j, st.last))
  /\ st.count >= Cardinality(Certain(h, a, j, st.last))

LastIsRecorded(h, a, j, st) ==
  st.last # Never =>
    /\ h[j][st.last] \in Settled
    /\ st.status = h[j][st.last] \/ <<j, st.last>> \in a

(* Beyond the last slot, only the next one may have come to anything.      *)
FutureIsClean(h, j, st) ==
  \A s \in Slots : s > st.last /\ h[j][s] # "none" => s = st.next

(* A job state against the history h, the resolved claims a and the time.  *)
Sound(h, a, j, st, now) ==
  /\ st.last <= now
  /\ st.next # Never => st.next > st.last
  /\ LastIsRecorded(h, a, j, st)
  /\ FutureIsClean(h, j, st)
  /\ CountIsRight(h, a, j, st)

RunsMatchHistory ==
  \A j \in Jobs, s \in Slots : executed[j][s] = IF history[j][s] = "none" THEN 0 ELSE 1

FileIsSound == \A j \in Jobs : Sound(history, audit, j, jobs.state[j], clock)

(* In a cycle, the memory is the file for the jobs yet to come, and moves  *)
(* a job on only from a slot that has come to a result.                    *)
MemoryIsSound ==
  daemon.pc \in InCycle =>
    /\ daemon.loaded.edits = jobs.edits
    /\ \A j \in Jobs :
         /\ Sound(history, audit, j, daemon.loaded.state[j], daemon.now)
         /\ daemon.at <= j => daemon.loaded.state[j] = jobs.state[j]
         /\ jobs.state[j].next # Never /\ daemon.loaded.state[j].next # jobs.state[j].next
              => history[j][jobs.state[j].next] \in Settled

ClaimIsLive ==
  daemon.pc \in {"executing", "recording"} =>
    /\ daemon.at \in Jobs
    /\ Due(daemon.at)
    /\ history[daemon.at][Slot(daemon.at)] = "running"

ResultIsKnown == daemon.pc = "recording" => daemon.result \in {"ok", "error"}

IInv ==
  /\ TypeOK
  /\ daemon.now <= clock
  /\ RunsMatchHistory /\ FileIsSound /\ MemoryIsSound /\ ClaimIsLive /\ ResultIsKnown

-----------------------------------------------------------------------------
(* Schedules and sets of slots.                                            *)

LEMMA SlotsAreFinite ==
  ASSUME NEW S \in SUBSET Slots
  PROVE  IsFiniteSet(S) /\ Cardinality(S) \in Nat
<1>1. IsFiniteSet(Slots)
  BY FS_Interval, DaemonAssumption DEF Slots
<1> QED BY <1>1, FS_Subset, FS_CardinalityType

(* The next slot is a slot, and later than the last one.                   *)
LEMMA NextIsLater ==
  ASSUME NEW e \in 0 .. MaxEdits, NEW j \in Jobs, NEW last \in 0 .. MaxClock,
         NEW now \in 0 .. MaxClock, last <= now
  PROVE  /\ NextSlot(e, j, last, now) \in Slots \cup {Never}
         /\ NextSlot(e, j, last, now) # Never => NextSlot(e, j, last, now) > last
<1> DEFINE policy == PolicyOf[e][j]
<1> DEFINE base == IF last = Never THEN now ELSE last
<1>1. policy \in {"skip", "run_once", "catch_up", "once"}
  BY DaemonAssumption
<1>2. base \in 0 .. MaxClock /\ last <= base /\ MaxClock \in Nat /\ OnceAt \in 1 .. MaxClock
  BY DaemonAssumption DEF Never
<1>3. CASE policy = "skip"
  <2>1. NextSlot(e, j, last, now) = Later(base, now) + 1
    BY <1>3 DEF NextSlot
  <2> HIDE DEF base
  <2> QED BY <1>2, <2>1 DEF Later, Slots, Never
<1>4. CASE policy = "run_once"
  <2>1. NextSlot(e, j, last, now) = IF base < now THEN now ELSE base + 1
    BY <1>4 DEF NextSlot
  <2> QED BY <1>2, <2>1 DEF Slots, Never
<1>5. CASE policy = "catch_up"
  <2>1. NextSlot(e, j, last, now) = base + 1
    BY <1>5 DEF NextSlot
  <2> HIDE DEF base
  <2> QED BY <1>2, <2>1 DEF Slots, Never
<1>6. CASE policy = "once"
  <2>1. NextSlot(e, j, last, now)
          = IF OnceAt > now \/ (last = Never /\ now - OnceAt <= Grace) THEN OnceAt ELSE Never
    BY <1>6 DEF NextSlot
  <2> QED BY <1>2, <2>1 DEF Slots, Never
<1> QED BY <1>1, <1>3, <1>4, <1>5, <1>6

(* Rescheduling a job that has no next slot.                               *)
LEMMA ScheduledIsSound ==
  ASSUME NEW h, NEW a, NEW e \in 0 .. MaxEdits, NEW j \in Jobs, NEW st \in JobState,
         NEW now \in 0 .. MaxClock, Sound(h, a, j, st, now), st.next = Never
  PROVE  Scheduled(e, j, st, now) \in JobState /\ Sound(h, a, j, Scheduled(e, j, st, now), now)
<1> DEFINE n == NextSlot(e, j, st.last, now)
<1> DEFINE new == Scheduled(e, j, st, now)
<1>1. n \in Slots \cup {Never} /\ (n # Never => n > st.last)
  BY NextIsLater DEF Sound, JobState
<1>2. /\ new.next = n /\ new.last = st.last /\ new.status = st.status /\ new.count = st.count
      /\ new \in JobState
  BY <1>1 DEF Scheduled, JobState
<1>3. FutureIsClean(h, j, new)
  <2>1. \A s \in Slots : s # Never
    BY DEF Slots, Never
  <2> QED BY <1>2, <2>1 DEF Sound, FutureIsClean
<1>4. LastIsRecorded(h, a, j, new) /\ CountIsRight(h, a, j, new)
  BY <1>2 DEF Sound, LastIsRecorded, CountIsRight
<1> QED BY <1>1, <1>2, <1>3, <1>4 DEF Sound

(* The result of a due slot: the slot joins the passed ones, and nothing   *)
(* lies between them and it.                                               *)
LEMMA PublishedIsSound ==
  ASSUME NEW h, NEW a, NEW e \in 0 .. MaxEdits, NEW j \in Jobs, NEW st \in JobState,
         NEW now \in 0 .. MaxClock, Sound(h, a, j, st, now),
         st.next # Never, st.next <= now, h[j][st.next] \in Settled,
         NEW new,
         new = Scheduled(e, j, [st EXCEPT !.last = st.next, !.status = h[j][st.next],
                                  !.count = IF h[j][st.next] = "ok" THEN @ + 1 ELSE @], now)
  PROVE  new \in JobState /\ Sound(h, a, j, new, now)
<1> DEFINE s == st.next
<1> DEFINE n == NextSlot(e, j, s, now)
<1> DEFINE Old == Passed(h, j, st.last)
<1> DEFINE OldCertain == Certain(h, a, j, st.last)
<1>1. s \in Slots /\ s \in 0 .. MaxClock /\ st.last \in 0 .. MaxClock /\ s > st.last /\ st.count \in Nat
  BY DaemonAssumption DEF JobState, Sound, Slots, Never
<1>2. n \in Slots \cup {Never} /\ (n # Never => n > s)
  BY <1>1, NextIsLater
<1>3. /\ new.next = n /\ new.last = s /\ new.status = h[j][s]
      /\ new.count = IF h[j][s] = "ok" THEN st.count + 1 ELSE st.count
      /\ new \in JobState
  <2> DEFINE c == IF h[j][s] = "ok" THEN st.count + 1 ELSE st.count
  <2> DEFINE mid == [st EXCEPT !.last = s, !.status = h[j][s], !.count = c]
  <2>1. c \in Nat /\ h[j][s] \in {"none", "ok", "error", "skipped"}
    BY <1>1 DEF Settled
  <2>2. mid \in JobState /\ mid.last = s /\ mid.status = h[j][s] /\ mid.count = c
    <3> HIDE DEF c
    <3> QED BY <1>1, <2>1 DEF JobState
  <2>3. new = [mid EXCEPT !.next = n]
    BY <2>2 DEF Scheduled
  <2> HIDE DEF mid, n, c
  <2>4. /\ new.next = n /\ new.last = mid.last /\ new.status = mid.status /\ new.count = mid.count
        /\ new \in JobState
    BY <1>2, <2>2, <2>3 DEF JobState
  <2> QED BY <2>2, <2>4 DEF c
<1>4. \A t \in Slots : t > st.last /\ h[j][t] # "none" => t = s
  BY DEF Sound, FutureIsClean
<1>0. \A t \in Slots : t \in Int
  BY DEF Slots
<1>5. FutureIsClean(h, j, new)
  <2>1. \A t \in Slots : t > s => t > st.last /\ t # s
    BY <1>0, <1>1
  <2> QED BY <1>3, <1>4, <2>1 DEF FutureIsClean
<1>6. Passed(h, j, s) = IF h[j][s] = "ok" THEN Old \cup {s} ELSE Old
  <2>1. \A t \in Slots : h[j][t] = "ok" /\ t <= s => t <= st.last \/ t = s
    <3>1. \A t \in Slots : t <= st.last \/ t > st.last
      BY <1>0, <1>1
    <3> QED BY <1>4, <3>1
  <2>2. \A t \in Slots : t <= st.last => t <= s
    BY <1>0, <1>1
  <2>3. s <= s
    BY <1>1
  <2> QED BY <1>1, <2>1, <2>2, <2>3 DEF Passed
<1>7. Certain(h, a, j, s) \subseteq IF h[j][s] = "ok" THEN OldCertain \cup {s} ELSE OldCertain
  BY <1>6 DEF Certain
<1>8. /\ IsFiniteSet(Old) /\ Cardinality(Old) \in Nat
      /\ IsFiniteSet(OldCertain) /\ Cardinality(OldCertain) \in Nat
      /\ IsFiniteSet(Old \cup {s}) /\ IsFiniteSet(OldCertain \cup {s})
      /\ Cardinality(Certain(h, a, j, s)) \in Nat
  BY <1>1, SlotsAreFinite DEF Passed, Certain
<1>9. s \notin Old /\ s \notin OldCertain
  BY <1>1 DEF Passed, Certain
<1>10. /\ Cardinality(Old \cup {s}) = Cardinality(Old) + 1
       /\ Cardinality(OldCertain \cup {s}) = Cardinality(OldCertain) + 1
  BY <1>8, <1>9, FS_AddElement
<1>11. Cardinality(Certain(h, a, j, s))
         <= IF h[j][s] = "ok" THEN Cardinality(OldCertain) + 1 ELSE Cardinality(OldCertain)
  BY <1>7, <1>8, <1>10, FS_Subset
<1>12. st.count <= Cardinality(Old) /\ st.count >= Cardinality(OldCertain)
  BY DEF Sound, CountIsRight
<1>13. CountIsRight(h, a, j, new)
  <2> DEFINE P == Cardinality(Passed(h, j, s))
  <2> DEFINE C == Cardinality(Certain(h, a, j, s))
  <2>0. P = IF h[j][s] = "ok" THEN Cardinality(Old) + 1 ELSE Cardinality(Old)
    BY <1>6, <1>10
  <2>1. new.count <= P
    <3> HIDE DEF Old, OldCertain, P, s
    <3> QED BY <1>1, <1>3, <1>8, <1>12, <2>0
  <2>2. new.count >= C
    <3> HIDE DEF Old, OldCertain, s
    <3> QED BY <1>1, <1>3, <1>8, <1>11, <1>12
  <2> QED BY <1>3, <2>1, <2>2 DEF CountIsRight
<1>14. LastIsRecorded(h, a, j, new)
  BY <1>3 DEF LastIsRecorded
<1> QED BY <1>2, <1>3, <1>5, <1>13, <1>14 DEF Sound

LEMMA LastIsSlot ==
  ASSUME NEW st \in JobState, st.last # Never
  PROVE  st.last \in Slots
  BY DaemonAssumption DEF JobState, Slots, Never

(* Time passes.                                                            *)
LEMMA SoundAges ==
  ASSUME NEW h, NEW a, NEW j \in Jobs, NEW st \in JobState, NEW now \in Nat, NEW later \in Nat,
         Sound(h, a, j, st, now), now <= later
  PROVE  Sound(h, a, j, st, later)
<1>1. st.last \in Int
  BY DEF JobState
<1> QED BY <1>1 DEF Sound

(* The slots of another job do not matter.                                 *)
LEMMA OtherSlots ==
  ASSUME NEW h, NEW a, NEW g, NEW b, NEW j \in Jobs, NEW st \in JobState,
         NEW now, Sound(h, a, j, st, now), g[j] = h[j],
         \A s \in Slots : <<j, s>> \in b <=> <<j, s>> \in a
  PROVE  Sound(g, b, j, st, now)
<1>1. Passed(g, j, st.last) = Passed(h, j, st.last)
  BY DEF Passed
<1>2. Certain(g, b, j, st.last) = Certain(h, a, j, st.last)
  BY <1>1 DEF Certain, Passed
<1>3. LastIsRecorded(g, b, j, st)
  BY LastIsSlot DEF Sound, LastIsRecorded
<1> QED BY <1>1, <1>2, <1>3 DEF Sound, FutureIsClean, CountIsRight

(* Something happens to the next slot of the job.                          *)
LEMMA NextSlotMoves ==
  ASSUME NEW h, NEW a, NEW g, NEW j \in Jobs, NEW st \in JobState, NEW now,
         Sound(h, a, j, st, now), st.next # Never,
         \A s \in Slots : s # st.next => g[j][s] = h[j][s]
  PROVE  Sound(g, a, j, st, now)
<1>1. st.last \in Int /\ st.next \in Int /\ st.next > st.last /\ \A s \in Slots : s \in Int
  BY DaemonAssumption DEF JobState, Sound, Slots, Never
<1>2. st.last # st.next /\ \A s \in Slots : s <= st.last => s # st.next
  BY <1>1
<1>3. Passed(g, j, st.last) = Passed(h, j, st.last)
  BY <1>2 DEF Passed
<1>4. Certain(g, a, j, st.last) = Certain(h, a, j, st.last)
  BY <1>3 DEF Certain
<1>5. LastIsRecorded(g, a, j, st)
  BY <1>2, LastIsSlot DEF Sound, LastIsRecorded
<1>6. FutureIsClean(g, j, st)
  BY DEF Sound, FutureIsClean
<1> QED BY <1>3, <1>4, <1>5, <1>6 DEF Sound, CountIsRight

(* A claim is resolved by hand, and audited.                               *)
LEMMA ResolvedIsSound ==
  ASSUME NEW h, NEW a, NEW g, NEW b, NEW k \in Jobs, NEW s \in Slots, NEW r \in {"ok", "skipped"},
         h[k][s] \in {"running", "error"},
         NEW j \in Jobs, NEW st \in JobState, NEW now, Sound(h, a, j, st, now),
         \A i \in Jobs, t \in Slots : g[i][t] = IF i = k /\ t = s THEN r ELSE h[i][t],
         b = a \cup {<<k, s>>}
  PROVE  Sound(g, b, j, st, now)
<1>1. LastIsRecorded(g, b, j, st)
  BY LastIsSlot DEF Sound, LastIsRecorded, Settled
<1>2. FutureIsClean(g, j, st)
  BY DEF Sound, FutureIsClean
<1>3. Passed(h, j, st.last) \subseteq Passed(g, j, st.last)
  BY DEF Passed
<1>4. Certain(g, b, j, st.last) \subseteq Certain(h, a, j, st.last)
  BY DEF Certain, Passed
<1>5. /\ Passed(h, j, st.last) \subseteq Slots /\ Passed(g, j, st.last) \subseteq Slots
      /\ Certain(h, a, j, st.last) \subseteq Slots /\ Certain(g, b, j, st.last) \subseteq Slots
  BY DEF Passed, Certain
<1>6. /\ Cardinality(Passed(h, j, st.last)) <= Cardinality(Passed(g, j, st.last))
      /\ Cardinality(Certain(g, b, j, st.last)) <= Cardinality(Certain(h, a, j, st.last))
  BY <1>3, <1>4, <1>5, SlotsAreFinite, FS_Subset
<1>7. /\ Cardinality(Passed(h, j, st.last)) \in Nat /\ Cardinality(Passed(g, j, st.last)) \in Nat
      /\ Cardinality(Certain(h, a, j, st.last)) \in Nat
      /\ Cardinality(Certain(g, b, j, st.last)) \in Nat
      /\ st.count \in Nat
  BY <1>5, SlotsAreFinite DEF JobState
<1>8. CountIsRight(g, b, j, st)
  BY <1>6, <1>7 DEF Sound, CountIsRight
<1> QED BY <1>1, <1>2, <1>8 DEF Sound

-----------------------------------------------------------------------------
LEMMA BlankIsSound ==
  ASSUME NEW h, NEW a, NEW j \in Jobs, NEW now \in Nat, \A s \in Slots : h[j][s] = "none"
  PROVE  Sound(h, a, j, Blank.state[j], now)
<1> DEFINE st == Blank.state[j]
<1>1. st = [next |-> Never, last |-> Never, status |-> "none", count |-> 0]
  BY DEF Blank
<1>2. Passed(h, j, Never) = {} /\ Certain(h, a, j, Never) = {}
  BY DEF Passed, Certain
<1>3. CountIsRight(h, a, j, st)
  BY <1>1, <1>2, FS_EmptySet DEF CountIsRight
<1> QED BY <1>1, <1>3 DEF Sound, LastIsRecorded, FutureIsClean, Never

LEMMA BlankIsTyped == Blank \in Registry /\ Dead \in Daemon
<1>1. Blank \in Registry
  BY DaemonAssumption DEF Blank, Registry, JobState, Never
<1> QED BY <1>1, DaemonAssumption DEF Dead, Daemon

LEMMA InitIInv == Init => IInv
<1> SUFFICES ASSUME Init PROVE IInv
  OBVIOUS
<1>1. TypeOK
  <2>1. jobs \in Registry /\ daemon \in Daemon
    BY BlankIsTyped DEF Init
  <2>2. /\ history \in [Jobs -> [Slots -> {"none", "running", "ok", "error", "skipped"}]]
        /\ executed \in [Jobs -> [Slots -> Nat]]
    BY DEF Init
  <2>3. clock \in 0 .. MaxClock /\ starts \in 0 .. MaxStarts /\ failures \in 0 .. MaxFailures
    BY DaemonAssumption DEF Init
  <2>4. lease \in [owner: 0 .. MaxStarts, active: BOOLEAN]
    <3>1. 0 \in 0 .. MaxStarts
      BY DaemonAssumption
    <3> QED BY <3>1 DEF Init
  <2>5. stop \in BOOLEAN /\ paused \in BOOLEAN /\ audit \subseteq Jobs \X Slots
    BY DEF Init
  <2> QED BY <2>1, <2>2, <2>3, <2>4, <2>5 DEF TypeOK
<1>2. daemon.now <= clock /\ RunsMatchHistory
  BY DEF Init, Dead, RunsMatchHistory
<1>3. FileIsSound
  BY BlankIsSound DEF Init, FileIsSound
<1>4. MemoryIsSound /\ ClaimIsLive /\ ResultIsKnown
  BY DEF Init, Dead, MemoryIsSound, ClaimIsLive, ResultIsKnown, InCycle
<1> QED BY <1>1, <1>2, <1>3, <1>4 DEF IInv

-----------------------------------------------------------------------------
(* The steps of a cycle.                                                   *)

LEMMA JobsAreNumbers ==
  ASSUME NEW j \in Jobs
  PROVE  j \in Int /\ j + 1 \in 1 .. NumJobs + 1
<1>1. NumJobs \in Nat
  BY DaemonAssumption
<1> QED BY <1>1 DEF Jobs

LEMMA MemoryIsTyped ==
  ASSUME TypeOK, NEW j \in Jobs
  PROVE  /\ jobs.edits \in 0 .. MaxEdits /\ daemon.loaded.edits \in 0 .. MaxEdits
         /\ jobs.state[j] \in JobState /\ daemon.loaded.state[j] \in JobState
         /\ daemon.now \in 0 .. MaxClock /\ clock \in 0 .. MaxClock
         /\ daemon.now \in Nat /\ clock \in Nat
<1>1. daemon \in Daemon /\ jobs \in Registry /\ clock \in 0 .. MaxClock
  BY DEF TypeOK
<1>2. jobs.edits \in 0 .. MaxEdits /\ jobs.state[j] \in JobState
  BY <1>1 DEF Registry
<1>3. daemon.loaded \in Registry /\ daemon.now \in 0 .. MaxClock
  BY <1>1 DEF Daemon
<1>4. daemon.loaded.edits \in 0 .. MaxEdits /\ daemon.loaded.state[j] \in JobState
  BY <1>3 DEF Registry
<1>5. \A x \in 0 .. MaxClock : x \in Nat
  BY DaemonAssumption
<1> QED BY <1>1, <1>2, <1>3, <1>4, <1>5

LEMMA AdvanceIsTyped ==
  ASSUME TypeOK, NEW j \in Jobs, NEW st \in JobState, Advance(j, "at job", st)
  PROVE  /\ daemon' \in Daemon
         /\ daemon'.pc = "at job" /\ daemon'.at = j + 1 /\ daemon'.now = daemon.now
         /\ daemon'.loaded.edits = daemon.loaded.edits
         /\ daemon'.loaded.state = [daemon.loaded.state EXCEPT ![j] = st]
<1> DEFINE new == [daemon.loaded EXCEPT !.state = [@ EXCEPT ![j] = st]]
<1>1. daemon \in Daemon /\ daemon.loaded \in Registry
  BY DEF TypeOK, Daemon
<1>2. /\ new \in Registry /\ new.edits = daemon.loaded.edits
      /\ new.state = [daemon.loaded.state EXCEPT ![j] = st]
  BY <1>1 DEF Registry
<1>3. daemon' = [daemon EXCEPT !.pc = "at job", !.at = j + 1, !.result = "none", !.loaded = new]
  BY <1>1 DEF Advance, Daemon, Registry
<1>4. j + 1 \in 1 .. NumJobs + 1
  BY JobsAreNumbers
<1>5. /\ daemon'.pc = "at job" /\ daemon'.at = j + 1 /\ daemon'.now = daemon.now
      /\ daemon'.loaded = new
      /\ daemon' \in Daemon
  <2> HIDE DEF new
  <2> QED BY <1>1, <1>2, <1>3, <1>4 DEF Daemon, InCycle
<1> QED BY <1>2, <1>5

LEMMA Beyond ==
  ASSUME NEW j \in Jobs, NEW at, at = j + 1
  PROVE  ~(at <= j) /\ \A i \in Jobs : at <= i => j <= i
<1>1. \A i \in Jobs : i \in Int
  BY JobsAreNumbers
<1> QED BY <1>1

(* The memory of the job moves on, soundly and only from a settled slot.   *)
LEMMA AdvanceKeeps ==
  ASSUME IInv, NEW j \in Jobs, daemon.pc \in InCycle, daemon.at = j, NEW st \in JobState,
         Advance(j, "at job", st), UNCHANGED <<clock, jobs, audit>>,
         \A i \in Jobs : i # j => history'[i] = history[i],
         Sound(history', audit, j, st, daemon.now),
         jobs.state[j].next # Never /\ st.next # jobs.state[j].next
           => history'[j][jobs.state[j].next] \in Settled
  PROVE  /\ daemon' \in Daemon /\ daemon'.now <= clock'
         /\ MemoryIsSound' /\ ClaimIsLive' /\ ResultIsKnown'
<1>1. /\ daemon' \in Daemon
      /\ daemon'.pc = "at job" /\ daemon'.at = j + 1 /\ daemon'.now = daemon.now
      /\ daemon'.loaded.edits = daemon.loaded.edits
      /\ daemon'.loaded.state = [daemon.loaded.state EXCEPT ![j] = st]
  BY AdvanceIsTyped DEF IInv
<1>2. daemon.loaded.edits = jobs.edits
  BY DEF IInv, MemoryIsSound
<1>3. \A i \in Jobs : daemon'.loaded.state[i] = IF i = j THEN st ELSE daemon.loaded.state[i]
  <2>1. daemon.loaded.state \in [Jobs -> JobState]
    BY DEF IInv, TypeOK, Daemon, Registry
  <2> QED BY <1>1, <2>1
<1>4. ASSUME NEW i \in Jobs, i # j
      PROVE  /\ Sound(history', audit', i, daemon'.loaded.state[i], daemon'.now)
             /\ daemon'.at <= i => daemon'.loaded.state[i] = jobs.state[i]
             /\ jobs.state[i].next # Never /\ daemon'.loaded.state[i].next # jobs.state[i].next
                  => history'[i][jobs.state[i].next] \in Settled
  <2>1. daemon'.loaded.state[i] = daemon.loaded.state[i] /\ daemon.loaded.state[i] \in JobState
    BY <1>3, <1>4, MemoryIsTyped DEF IInv
  <2>2. history'[i] = history[i] /\ audit' = audit
    BY <1>4
  <2>3. Sound(history, audit, i, daemon.loaded.state[i], daemon.now)
    BY DEF IInv, MemoryIsSound
  <2>4. Sound(history', audit', i, daemon.loaded.state[i], daemon.now)
    BY <2>1, <2>2, <2>3, OtherSlots
  <2>5. daemon'.at <= i => j <= i
    BY <1>1, Beyond
  <2> QED BY <1>1, <2>1, <2>2, <2>4, <2>5 DEF IInv, MemoryIsSound
<1>5. ~(daemon'.at <= j)
  BY <1>1, Beyond
<1>6. MemoryIsSound'
  BY <1>1, <1>2, <1>3, <1>4, <1>5 DEF MemoryIsSound
<1> QED BY <1>1, <1>6 DEF IInv, ClaimIsLive, ResultIsKnown

(* What the step of a job knows about it.                                  *)
LEMMA JobInCycle ==
  ASSUME IInv, NEW j \in Jobs, daemon.pc \in InCycle, daemon.at = j
  PROVE  /\ daemon.loaded.state[j] = jobs.state[j] /\ daemon.loaded.state[j] \in JobState
         /\ daemon.loaded.edits \in 0 .. MaxEdits /\ daemon.now \in 0 .. MaxClock
         /\ Sound(history, audit, j, daemon.loaded.state[j], daemon.now)
<1>1. j <= j
  BY DEF Jobs
<1> QED BY <1>1, MemoryIsTyped DEF IInv, MemoryIsSound

LEMMA PassOverKeeps ==
  ASSUME IInv, NEW j \in Jobs, PassOver(j)
  PROVE  /\ daemon' \in Daemon /\ daemon'.now <= clock'
         /\ MemoryIsSound' /\ ClaimIsLive' /\ ResultIsKnown'
<1> DEFINE st == daemon.loaded.state[j]
<1> DEFINE new == IF Slot(j) = Never THEN Scheduled(daemon.loaded.edits, j, st, daemon.now) ELSE st
<1>1. daemon.pc \in InCycle /\ daemon.at = j /\ Advance(j, "at job", new)
      /\ UNCHANGED <<clock, jobs, audit, history>>
  BY DEF PassOver, AtJob, InCycle
<1>2. new \in JobState /\ Sound(history, audit, j, new, daemon.now)
  BY <1>1, JobInCycle, ScheduledIsSound DEF Slot
<1>3. jobs.state[j].next # Never => new.next = jobs.state[j].next
  BY <1>1, JobInCycle DEF Slot
<1> HIDE DEF new
<1> QED BY <1>1, <1>2, <1>3, AdvanceKeeps

LEMMA CompletedKeeps ==
  ASSUME IInv, NEW j \in Jobs, PublishCompleted(j)
  PROVE  /\ daemon' \in Daemon /\ daemon'.now <= clock'
         /\ MemoryIsSound' /\ ClaimIsLive' /\ ResultIsKnown'
<1> DEFINE st == daemon.loaded.state[j]
<1> DEFINE new == Published(j, Slot(j), history[j][Slot(j)], st.last # Slot(j))
<1>1. daemon.pc \in InCycle /\ daemon.at = j /\ Advance(j, "at job", new)
      /\ UNCHANGED <<clock, jobs, audit, history>>
      /\ Due(j) /\ history[j][Slot(j)] \in {"ok", "skipped"}
  BY DEF PublishCompleted, AtJob, InCycle, Completed
<1>2. /\ st \in JobState /\ Sound(history, audit, j, st, daemon.now) /\ st = jobs.state[j]
      /\ st.next # Never /\ st.next <= daemon.now /\ history[j][st.next] \in Settled
  BY <1>1, JobInCycle DEF Slot, Due, Settled
<1>3. st.last # st.next
  BY <1>2 DEF Sound, JobState
<1>4. new = Scheduled(daemon.loaded.edits, j,
              [st EXCEPT !.last = st.next, !.status = history[j][st.next],
                !.count = IF history[j][st.next] = "ok" THEN @ + 1 ELSE @], daemon.now)
  BY <1>3 DEF Published, Slot
<1>5. new \in JobState /\ Sound(history, audit, j, new, daemon.now)
  <2> HIDE DEF new, st
  <2>1. daemon.loaded.edits \in 0 .. MaxEdits /\ daemon.now \in 0 .. MaxClock
    BY <1>1, JobInCycle
  <2> QED BY <1>2, <1>4, <2>1, PublishedIsSound
<1> HIDE DEF new
<1> QED BY <1>1, <1>2, <1>5, AdvanceKeeps

(* The next slot of the job at hand moves, to something.                   *)
LEMMA SlotMoves ==
  ASSUME IInv, NEW j \in Jobs, daemon.pc \in InCycle, daemon.at = j, Due(j),
         NEW x \in {"running", "ok", "error"}, history[j][Slot(j)] # "none" \/ x = "running",
         history' = [history EXCEPT ![j][Slot(j)] = x], UNCHANGED <<clock, jobs, audit>>
  PROVE  /\ history'[j][Slot(j)] = x /\ Slot(j) \in Slots
         /\ \A s \in Slots : s # Slot(j) => history'[j][s] = history[j][s]
         /\ \A i \in Jobs : i # j => history'[i] = history[i]
         /\ Sound(history', audit, j, daemon.loaded.state[j], daemon.now)
         /\ FileIsSound'
<1>1. history \in [Jobs -> [Slots -> {"none", "running", "ok", "error", "skipped"}]]
  BY DEF IInv, TypeOK
<1>2. /\ daemon.loaded.state[j] = jobs.state[j] /\ daemon.loaded.state[j] \in JobState
      /\ Sound(history, audit, j, daemon.loaded.state[j], daemon.now)
  BY JobInCycle
<1>3. Slot(j) = daemon.loaded.state[j].next /\ Slot(j) # Never /\ Slot(j) \in Slots
  BY <1>2 DEF Slot, Due, JobState
<1>4. /\ history'[j][Slot(j)] = x
      /\ \A s \in Slots : s # Slot(j) => history'[j][s] = history[j][s]
      /\ \A i \in Jobs : i # j => history'[i] = history[i]
  BY <1>1, <1>3
<1> DEFINE st == daemon.loaded.state[j]
<1> DEFINE g == history'
<1>5. /\ st \in JobState /\ st.next # Never
      /\ \A s \in Slots : s # st.next => g[j][s] = history[j][s]
  BY <1>2, <1>3, <1>4
<1>6. Sound(g, audit, j, st, daemon.now)
  <2>1. Sound(history, audit, j, st, daemon.now)
    BY <1>2
  <2> HIDE DEF st, g
  <2> QED BY <1>5, <2>1, NextSlotMoves
<1>7. FileIsSound'
  <2> SUFFICES ASSUME NEW i \in Jobs PROVE Sound(g, audit, i, jobs.state[i], clock)
    BY DEF FileIsSound
  <2>1. Sound(history, audit, i, jobs.state[i], clock) /\ jobs.state[i] \in JobState
    BY MemoryIsTyped DEF IInv, FileIsSound
  <2>2. CASE i = j
    <3>1. Sound(history, audit, j, st, clock)
      BY <1>2, <2>1, <2>2
    <3>2. Sound(g, audit, j, st, clock)
      <4> HIDE DEF st, g
      <4> QED BY <1>5, <3>1, NextSlotMoves
    <3> QED BY <1>2, <2>2, <3>2
  <2>3. CASE i # j
    <3>1. g[i] = history[i]
      BY <1>4, <2>3
    <3> HIDE DEF g
    <3> QED BY <2>1, <3>1, OtherSlots
  <2> QED BY <2>2, <2>3
<1> QED BY <1>3, <1>4, <1>6, <1>7

LEMMA ClaimKeeps ==
  ASSUME IInv, NEW j \in Jobs, Claim(j)
  PROVE  /\ daemon'.now <= clock' /\ FileIsSound' /\ RunsMatchHistory'
         /\ MemoryIsSound' /\ ClaimIsLive' /\ ResultIsKnown'
<1>1. /\ daemon.pc = "at job" /\ daemon.pc \in InCycle /\ daemon.at = j /\ Due(j)
      /\ history[j][Slot(j)] = "none"
      /\ history' = [history EXCEPT ![j][Slot(j)] = "running"]
      /\ executed' = [executed EXCEPT ![j][Slot(j)] = @ + 1]
      /\ UNCHANGED <<clock, jobs, audit>>
  BY DEF Claim, Execute, AtJob, InCycle
<1>2. /\ history'[j][Slot(j)] = "running" /\ Slot(j) \in Slots
      /\ \A s \in Slots : s # Slot(j) => history'[j][s] = history[j][s]
      /\ \A i \in Jobs : i # j => history'[i] = history[i]
      /\ Sound(history', audit, j, daemon.loaded.state[j], daemon.now)
      /\ FileIsSound'
  BY <1>1, SlotMoves
<1>3. /\ daemon'.pc = "executing" /\ daemon'.at = daemon.at /\ daemon'.now = daemon.now
      /\ daemon'.loaded = daemon.loaded
  BY DEF Claim, Execute, IInv, TypeOK, Daemon
<1>4. RunsMatchHistory'
  <2>1. executed \in [Jobs -> [Slots -> Nat]]
    BY DEF IInv, TypeOK
  <2>2. \A i \in Jobs, s \in Slots :
          executed'[i][s] = IF i = j /\ s = Slot(j) THEN executed[i][s] + 1 ELSE executed[i][s]
    BY <1>1, <1>2, <2>1
  <2>3. executed[j][Slot(j)] = 0
    BY <1>1, <1>2 DEF IInv, RunsMatchHistory
  <2> QED BY <1>2, <2>2, <2>3 DEF IInv, RunsMatchHistory
<1>5. MemoryIsSound'
  <2> SUFFICES ASSUME NEW i \in Jobs
               PROVE  /\ Sound(history', audit, i, daemon.loaded.state[i], daemon.now)
                      /\ daemon.at <= i => daemon.loaded.state[i] = jobs.state[i]
                      /\ jobs.state[i].next # Never
                           /\ daemon.loaded.state[i].next # jobs.state[i].next
                           => history'[i][jobs.state[i].next] \in Settled
    BY <1>1, <1>3 DEF MemoryIsSound, IInv
  <2>1. /\ Sound(history, audit, i, daemon.loaded.state[i], daemon.now)
        /\ daemon.loaded.state[i] \in JobState
    BY <1>1, MemoryIsTyped DEF IInv, MemoryIsSound
  <2>2. CASE i = j
    BY <1>1, <1>2, <2>2, JobInCycle
  <2>3. CASE i # j
    <3> DEFINE g == history'
    <3>1. g[i] = history[i]
      BY <1>2, <2>3
    <3>2. Sound(g, audit, i, daemon.loaded.state[i], daemon.now)
      <4> HIDE DEF g
      <4> QED BY <2>1, <3>1, OtherSlots
    <3> QED BY <1>1, <3>1, <3>2 DEF IInv, MemoryIsSound
  <2> QED BY <2>2, <2>3
<1>6. ClaimIsLive'
  BY <1>1, <1>2, <1>3 DEF ClaimIsLive, Due, Slot
<1> QED BY <1>1, <1>2, <1>3, <1>4, <1>5, <1>6 DEF IInv, ResultIsKnown

LEMMA RecordKeeps ==
  ASSUME IInv, NEW j \in Jobs, RecordResult(j)
  PROVE  /\ daemon' \in Daemon /\ daemon'.now <= clock' /\ FileIsSound' /\ RunsMatchHistory'
         /\ MemoryIsSound' /\ ClaimIsLive' /\ ResultIsKnown'
<1> DEFINE st == daemon.loaded.state[j]
<1> DEFINE new == Published(j, Slot(j), daemon.result, TRUE)
<1>1. /\ daemon.pc \in InCycle /\ daemon.at = j /\ Advance(j, "at job", new)
      /\ history' = [history EXCEPT ![j][Slot(j)] = daemon.result]
      /\ UNCHANGED <<clock, jobs, audit, executed>>
  BY DEF RecordResult, InCycle
<1>2. Due(j) /\ history[j][Slot(j)] = "running" /\ daemon.result \in {"ok", "error"}
  BY <1>1 DEF RecordResult, IInv, ClaimIsLive, ResultIsKnown
<1>3. /\ history'[j][Slot(j)] = daemon.result /\ Slot(j) \in Slots
      /\ \A s \in Slots : s # Slot(j) => history'[j][s] = history[j][s]
      /\ \A i \in Jobs : i # j => history'[i] = history[i]
      /\ Sound(history', audit, j, st, daemon.now)
      /\ FileIsSound'
  <2>1. daemon.result \in {"running", "ok", "error"} /\ history[j][Slot(j)] # "none"
    BY <1>2
  <2> QED BY <1>1, <1>2, <2>1, SlotMoves
<1>4. RunsMatchHistory'
  <2>1. \A i \in Jobs, s \in Slots : history'[i][s] = "none" <=> history[i][s] = "none"
    BY <1>2, <1>3
  <2> QED BY <1>1, <2>1 DEF IInv, RunsMatchHistory
<1>5. /\ st \in JobState /\ st.next = Slot(j) /\ st = jobs.state[j]
      /\ st.next # Never /\ st.next <= daemon.now /\ history'[j][st.next] \in Settled
      /\ daemon.loaded.edits \in 0 .. MaxEdits /\ daemon.now \in 0 .. MaxClock
  BY <1>1, <1>2, <1>3, JobInCycle DEF Slot, Due, Settled
<1>6. new = Scheduled(daemon.loaded.edits, j,
              [st EXCEPT !.last = st.next, !.status = history'[j][st.next],
                !.count = IF history'[j][st.next] = "ok" THEN @ + 1 ELSE @], daemon.now)
  BY <1>3, <1>5 DEF Published
<1>7. new \in JobState /\ Sound(history', audit, j, new, daemon.now)
  <2> DEFINE g == history'
  <2>1. /\ st \in JobState /\ st.next # Never /\ st.next <= daemon.now
        /\ g[j][st.next] \in Settled /\ Sound(g, audit, j, st, daemon.now)
        /\ daemon.loaded.edits \in 0 .. MaxEdits /\ daemon.now \in 0 .. MaxClock
    BY <1>3, <1>5
  <2>2. new = Scheduled(daemon.loaded.edits, j,
                [st EXCEPT !.last = st.next, !.status = g[j][st.next],
                  !.count = IF g[j][st.next] = "ok" THEN @ + 1 ELSE @], daemon.now)
    BY <1>6
  <2>3. new \in JobState /\ Sound(g, audit, j, new, daemon.now)
    <3> HIDE DEF new, st, g
    <3> QED BY <2>1, <2>2, PublishedIsSound
  <2> QED BY <2>3
<1> HIDE DEF new
<1> QED BY <1>1, <1>3, <1>4, <1>5, <1>7, AdvanceKeeps

LEMMA RetainKeeps ==
  ASSUME IInv, NEW j \in Jobs, Retain(j)
  PROVE  /\ daemon' \in Daemon /\ daemon'.now <= clock'
         /\ MemoryIsSound' /\ ClaimIsLive' /\ ResultIsKnown'
<1>1. daemon.pc \in InCycle /\ daemon.at = j /\ Advance(j, "at job", daemon.loaded.state[j])
      /\ UNCHANGED <<clock, jobs, audit, history>>
  BY DEF Retain, AtJob, InCycle
<1> QED BY <1>1, JobInCycle, AdvanceKeeps

LEMMA EndsKeeps ==
  ASSUME IInv, ExecutionEnds
  PROVE  /\ daemon' \in Daemon /\ daemon'.now <= clock'
         /\ MemoryIsSound' /\ ClaimIsLive' /\ ResultIsKnown'
<1>1. PICK r \in {"ok", "error"} : daemon' = [daemon EXCEPT !.pc = "recording", !.result = r]
  BY DEF ExecutionEnds
<1>2. /\ daemon' \in Daemon /\ daemon'.pc = "recording" /\ daemon'.result = r
      /\ daemon'.at = daemon.at /\ daemon'.now = daemon.now /\ daemon'.loaded = daemon.loaded
  BY <1>1 DEF IInv, TypeOK, Daemon, InCycle
<1>3. daemon.pc = "executing" /\ UNCHANGED <<clock, jobs, audit, history>>
  BY DEF ExecutionEnds
<1>4. MemoryIsSound'
  BY <1>2, <1>3 DEF IInv, MemoryIsSound, InCycle
<1>5. ClaimIsLive'
  BY <1>2, <1>3 DEF IInv, ClaimIsLive, Due, Slot
<1> QED BY <1>2, <1>3, <1>4, <1>5 DEF IInv, ResultIsKnown

(* The states of the memory become those of the file.                      *)
LEMMA EndCycleKeeps ==
  ASSUME IInv, EndCycle
  PROVE  jobs' \in Registry /\ FileIsSound'
<1>1. jobs' = daemon.loaded /\ UNCHANGED <<clock, history, audit>> /\ daemon.pc \in InCycle
  BY DEF EndCycle, InCycle
<1>2. daemon.loaded \in Registry
  BY DEF IInv, TypeOK, Daemon
<1>3. ASSUME NEW j \in Jobs PROVE Sound(history, audit, j, daemon.loaded.state[j], clock)
  <2>1. Sound(history, audit, j, daemon.loaded.state[j], daemon.now) /\ daemon.now <= clock
    BY <1>1 DEF IInv, MemoryIsSound
  <2> QED BY <2>1, MemoryIsTyped, SoundAges DEF IInv
<1> QED BY <1>1, <1>2, <1>3 DEF FileIsSound

(* A synchronisation outside a cycle.                                      *)
LEMMA SynchroniseKeeps ==
  ASSUME IInv, Synchronise, UNCHANGED <<clock, history, audit>>
  PROVE  jobs' \in Registry /\ FileIsSound' /\ jobs'.edits >= jobs.edits
<1>1. PICK e \in jobs.edits .. MaxEdits : jobs' = Synchronised(e)
  BY DEF Synchronise
<1>2. jobs.edits \in 0 .. MaxEdits /\ jobs \in Registry /\ clock \in 0 .. MaxClock
  BY DEF IInv, TypeOK, Registry
<1>3. e \in 0 .. MaxEdits /\ e >= jobs.edits
  BY <1>2, DaemonAssumption
<1>4. ASSUME NEW j \in Jobs
      PROVE  LET st == IF jobs.state[j].next = Never
                       THEN Scheduled(e, j, jobs.state[j], clock) ELSE jobs.state[j] IN
             st \in JobState /\ Sound(history, audit, j, st, clock)
  <2>1. jobs.state[j] \in JobState /\ Sound(history, audit, j, jobs.state[j], clock)
    BY MemoryIsTyped DEF IInv, FileIsSound
  <2>2. CASE jobs.state[j].next = Never
    BY <1>2, <1>3, <2>1, <2>2, ScheduledIsSound
  <2>3. CASE jobs.state[j].next # Never
    BY <2>1, <2>3
  <2> QED BY <2>2, <2>3
<1>5. /\ jobs'.edits = e
      /\ jobs'.state = [j \in Jobs |-> IF jobs.state[j].next = Never
                                      THEN Scheduled(e, j, jobs.state[j], clock)
                                      ELSE jobs.state[j]]
      /\ jobs' = [edits |-> jobs'.edits, state |-> jobs'.state]
  BY <1>1 DEF Synchronised
<1>6. jobs'.state \in [Jobs -> JobState]
  BY <1>4, <1>5
<1>7. jobs' \in Registry
  BY <1>3, <1>5, <1>6 DEF Registry
<1>8. FileIsSound'
  BY <1>4, <1>5 DEF FileIsSound
<1> QED BY <1>3, <1>5, <1>7, <1>8

LEMMA ResolveKeeps ==
  ASSUME IInv, NEW k \in Jobs, NEW s \in Slots, ResolveClaim(k, s)
  PROVE  FileIsSound' /\ RunsMatchHistory'
<1>1. PICK r \in {"ok", "skipped"} : history' = [history EXCEPT ![k][s] = r]
  BY DEF ResolveClaim, Resolve
<1>2. /\ history[k][s] \in {"running", "error"} /\ audit' = audit \cup {<<k, s>>}
      /\ UNCHANGED <<clock, jobs, executed>>
  BY DEF ResolveClaim, Resolve
<1>3. \A i \in Jobs, t \in Slots : history'[i][t] = IF i = k /\ t = s THEN r ELSE history[i][t]
  BY <1>1 DEF IInv, TypeOK
<1>4. RunsMatchHistory'
  BY <1>2, <1>3 DEF IInv, RunsMatchHistory
<1>5. FileIsSound'
  <2> DEFINE g == history'
  <2> DEFINE b == audit'
  <2> SUFFICES ASSUME NEW j \in Jobs PROVE Sound(g, b, j, jobs.state[j], clock)
    BY <1>2 DEF FileIsSound
  <2>1. Sound(history, audit, j, jobs.state[j], clock) /\ jobs.state[j] \in JobState
    BY MemoryIsTyped DEF IInv, FileIsSound
  <2>2. \A i \in Jobs, t \in Slots : g[i][t] = IF i = k /\ t = s THEN r ELSE history[i][t]
    BY <1>3
  <2>3. b = audit \cup {<<k, s>>}
    BY <1>2
  <2> HIDE DEF g, b
  <2> QED BY <1>2, <2>1, <2>2, <2>3, ResolvedIsSound
<1> QED BY <1>4, <1>5

(* Outside a cycle, there is nothing to say of the memory.                 *)
LEMMA FreeKeeps ==
  ASSUME daemon'.pc \notin InCycle
  PROVE  MemoryIsSound' /\ ClaimIsLive' /\ ResultIsKnown'
  BY DEF MemoryIsSound, ClaimIsLive, ResultIsKnown, InCycle

(* Steps that leave alone what is known of the memory and the file.        *)
LEMMA UntouchedKeeps ==
  ASSUME IInv, UNCHANGED <<jobs, history, audit, executed, daemon>>, clock <= clock', clock' \in Nat
  PROVE  /\ daemon'.now <= clock' /\ FileIsSound' /\ RunsMatchHistory'
         /\ MemoryIsSound' /\ ClaimIsLive' /\ ResultIsKnown'
<1>1. daemon.now <= clock /\ daemon.now \in Int /\ clock \in Int
  <2>1. daemon.now \in 0 .. MaxClock /\ clock \in 0 .. MaxClock
    BY DEF IInv, TypeOK, Daemon
  <2> QED BY <2>1 DEF IInv
<1>2. FileIsSound'
  <2> SUFFICES ASSUME NEW j \in Jobs PROVE Sound(history, audit, j, jobs.state[j], clock')
    BY DEF FileIsSound
  <2> QED BY MemoryIsTyped, SoundAges DEF IInv, FileIsSound
<1>3. MemoryIsSound' /\ ClaimIsLive' /\ ResultIsKnown' /\ RunsMatchHistory'
  BY DEF IInv, MemoryIsSound, ClaimIsLive, ResultIsKnown, RunsMatchHistory, Due, Slot
<1> QED BY <1>1, <1>2, <1>3

(* A daemon whose cycle is over, or has not begun.                         *)
LEMMA WaitingIsTyped ==
  ASSUME NEW i \in 0 .. MaxStarts, NEW p \in {"down", "idle", "granted"}
  PROVE  /\ [Dead EXCEPT !.id = i, !.pc = p] \in Daemon
         /\ [Dead EXCEPT !.id = i, !.pc = p].pc = p /\ [Dead EXCEPT !.id = i, !.pc = p].now = 0
         /\ Dead.pc = "down" /\ Dead.now = 0
<1>1. Dead \in Daemon /\ Dead.pc = "down" /\ Dead.now = 0
  BY BlankIsTyped DEF Dead
<1> QED BY <1>1 DEF Daemon

LEMMA StepIInv == IInv /\ [Next]_vars => IInv'
<1> SUFFICES ASSUME IInv, [Next]_vars PROVE IInv'
  OBVIOUS
<1>0. /\ clock \in 0 .. MaxClock /\ clock \in Nat /\ jobs \in Registry
      /\ history \in [Jobs -> [Slots -> {"none", "running", "ok", "error", "skipped"}]]
      /\ audit \subseteq Jobs \X Slots
      /\ executed \in [Jobs -> [Slots -> Nat]]
      /\ lease \in [owner: 0 .. MaxStarts, active: BOOLEAN]
      /\ daemon \in Daemon /\ daemon.id \in 0 .. MaxStarts
      /\ daemon.now \in Nat /\ daemon.now <= clock
      /\ starts \in 0 .. MaxStarts /\ failures \in 0 .. MaxFailures
      /\ stop \in BOOLEAN /\ paused \in BOOLEAN
  <2>1. clock \in 0 .. MaxClock /\ daemon \in Daemon /\ daemon.now <= clock
    BY DEF IInv, TypeOK
  <2>2. daemon.id \in 0 .. MaxStarts /\ daemon.now \in 0 .. MaxClock
    BY <2>1 DEF Daemon
  <2>3. \A x \in 0 .. MaxClock : x \in Nat
    BY DaemonAssumption
  <2> QED BY <2>1, <2>2, <2>3 DEF IInv, TypeOK
<1>1. CASE UNCHANGED vars
  <2>1. clock <= clock' /\ clock' \in Nat /\ UNCHANGED <<jobs, history, audit, executed, daemon>>
    BY <1>0, <1>1 DEF vars
  <2> QED BY <1>0, <1>1, <2>1, UntouchedKeeps DEF vars, IInv, TypeOK
<1>2. CASE Start
  <2>1. /\ daemon' = [Dead EXCEPT !.id = starts + 1, !.pc = "idle"] /\ starts' = starts + 1
        /\ starts + 1 \in 0 .. MaxStarts
    BY <1>0, <1>2, DaemonAssumption DEF Start
  <2>2. daemon' \in Daemon /\ daemon'.pc = "idle" /\ daemon'.now = 0
    BY <2>1, WaitingIsTyped
  <2>3. jobs' \in Registry /\ FileIsSound'
    BY <1>2, SynchroniseKeeps DEF Start
  <2>4. UNCHANGED <<clock, history, audit, executed, lease, failures, stop, paused>>
    BY <1>2 DEF Start
  <2> QED BY <1>0, <2>1, <2>2, <2>3, <2>4, FreeKeeps DEF IInv, TypeOK, InCycle, RunsMatchHistory
<1>3. CASE Crash
  <2>1. daemon' \in Daemon /\ daemon'.pc = "down" /\ daemon'.now = 0
    BY <1>3, BlankIsTyped DEF Crash, Dead
  <2>2. stop' \in BOOLEAN
        /\ UNCHANGED <<clock, jobs, history, audit, executed, lease, starts, failures, paused>>
    BY <1>3 DEF Crash
  <2> QED BY <1>0, <2>1, <2>2, FreeKeeps DEF IInv, TypeOK, InCycle, FileIsSound, RunsMatchHistory
<1>4. CASE ObeyStop
  <2>1. daemon' \in Daemon /\ daemon'.pc = "down" /\ daemon'.now = 0
    BY <1>4, BlankIsTyped DEF ObeyStop, Dead
  <2>2. stop' \in BOOLEAN /\ UNCHANGED <<clock, jobs, history, audit, executed, starts, failures, paused>>
    BY <1>4 DEF ObeyStop
  <2>3. lease' \in [owner: 0 .. MaxStarts, active: BOOLEAN]
    <3>1. 0 \in 0 .. MaxStarts
      BY DaemonAssumption
    <3> QED BY <1>0, <1>4, <3>1 DEF ObeyStop
  <2> QED BY <1>0, <2>1, <2>2, <2>3, FreeKeeps
          DEF IInv, TypeOK, InCycle, FileIsSound, RunsMatchHistory
<1>5. CASE Acquire
  <2>1. /\ daemon' = [daemon EXCEPT !.pc = "granted"] /\ lease' = [owner |-> daemon.id, active |-> TRUE]
        /\ UNCHANGED <<clock, jobs, history, audit, executed, starts, failures, stop, paused>>
    BY <1>5 DEF Acquire
  <2>2. daemon' \in Daemon /\ daemon'.pc = "granted" /\ daemon'.now = daemon.now
    BY <1>0, <2>1 DEF Daemon, InCycle
  <2>3. lease' \in [owner: 0 .. MaxStarts, active: BOOLEAN]
    BY <1>0, <2>1
  <2> QED BY <1>0, <2>1, <2>2, <2>3, FreeKeeps
          DEF IInv, TypeOK, InCycle, FileIsSound, RunsMatchHistory
<1>6. CASE EnterCycle
  <2>1. UNCHANGED <<clock, jobs, history, audit, executed, lease, starts, failures, stop, paused>>
    BY <1>6 DEF EnterCycle
  <2>2. CASE Own
    <3>1. daemon' = [daemon EXCEPT !.pc = "at job", !.at = 1, !.now = clock, !.loaded = jobs]
      BY <1>6, <2>2 DEF EnterCycle
    <3>2. 1 \in 1 .. NumJobs + 1
      BY DaemonAssumption
    <3>3. /\ daemon' \in Daemon /\ daemon'.pc = "at job" /\ daemon'.now = clock
          /\ daemon'.loaded = jobs /\ daemon'.now = clock
      BY <1>0, <3>1, <3>2 DEF Daemon, InCycle
    <3>4. MemoryIsSound'
      BY <2>1, <3>3 DEF MemoryIsSound, IInv, FileIsSound
    <3>5. ClaimIsLive' /\ ResultIsKnown'
      BY <3>3 DEF ClaimIsLive, ResultIsKnown
    <3>6. daemon'.now <= clock'
      <4>1. daemon'.now = clock /\ clock' = clock
        BY <2>1, <3>3
      <4>2. clock <= clock
        BY <1>0
      <4> QED BY <4>1, <4>2
    <3> QED BY <1>0, <2>1, <3>3, <3>4, <3>5, <3>6
            DEF IInv, TypeOK, FileIsSound, RunsMatchHistory
  <2>3. CASE ~Own
    <3>1. daemon' = [daemon EXCEPT !.pc = "idle"]
      BY <1>6, <2>3 DEF EnterCycle
    <3>2. daemon' \in Daemon /\ daemon'.pc = "idle" /\ daemon'.now = daemon.now
      BY <1>0, <3>1 DEF Daemon, InCycle
    <3> QED BY <1>0, <2>1, <3>2, FreeKeeps
            DEF IInv, TypeOK, InCycle, FileIsSound, RunsMatchHistory
  <2> QED BY <2>2, <2>3
<1>7. ASSUME NEW j \in Jobs, PassOver(j) \/ PublishCompleted(j) \/ Retain(j)
      PROVE  IInv'
  <2>1. /\ daemon' \in Daemon /\ daemon'.now <= clock'
        /\ MemoryIsSound' /\ ClaimIsLive' /\ ResultIsKnown'
    BY <1>7, PassOverKeeps, CompletedKeeps, RetainKeeps
  <2>2. UNCHANGED <<clock, jobs, history, audit, executed, lease, starts, failures, stop, paused>>
    BY <1>7 DEF PassOver, PublishCompleted, Retain
  <2> QED BY <1>0, <2>1, <2>2 DEF IInv, TypeOK, FileIsSound, RunsMatchHistory
<1>8. CASE ExecutionEnds
  <2>1. UNCHANGED <<clock, jobs, history, audit, executed, lease, starts, failures, stop, paused>>
    BY <1>8 DEF ExecutionEnds
  <2> QED BY <1>0, <1>8, <2>1, EndsKeeps DEF IInv, TypeOK, FileIsSound, RunsMatchHistory
<1>9. ASSUME NEW j \in Jobs, Claim(j)
      PROVE  IInv'
  <2>1. /\ daemon'.now <= clock' /\ FileIsSound' /\ RunsMatchHistory'
        /\ MemoryIsSound' /\ ClaimIsLive' /\ ResultIsKnown'
    BY <1>9, ClaimKeeps
  <2>2. /\ UNCHANGED <<clock, jobs, audit, lease, starts, failures, stop, paused>>
        /\ history' = [history EXCEPT ![j][Slot(j)] = "running"]
        /\ executed' = [executed EXCEPT ![j][Slot(j)] = @ + 1]
        /\ daemon' = [daemon EXCEPT !.pc = "executing"]
    BY <1>9 DEF Claim, Execute
  <2>3. history' \in [Jobs -> [Slots -> {"none", "running", "ok", "error", "skipped"}]]
    BY <1>0, <2>2
  <2>4. executed' \in [Jobs -> [Slots -> Nat]]
    <3> DEFINE f == [executed[j] EXCEPT ![Slot(j)] = @ + 1]
    <3>1. executed' = [executed EXCEPT ![j] = f]
      BY <2>2
    <3>2. executed[j] \in [Slots -> Nat]
      BY <1>0
    <3>3. Slot(j) \in Slots
      <4>1. daemon.loaded.state[j] \in JobState /\ Slot(j) # Never
        BY <1>9, MemoryIsTyped DEF Claim, Due, IInv
      <4> QED BY <4>1 DEF JobState, Slot
    <3>4. f \in [Slots -> Nat]
      <4>1. \A i \in Slots : [executed[j] EXCEPT ![i] = executed[j][i] + 1] \in [Slots -> Nat]
        BY <3>2
      <4> QED BY <3>3, <4>1
    <3> QED
      <4> HIDE DEF f
      <4> QED BY <1>0, <3>1, <3>4
  <2>5. daemon' \in Daemon
    BY <1>0, <2>2 DEF Daemon, InCycle
  <2> QED BY <1>0, <2>1, <2>2, <2>3, <2>4, <2>5 DEF IInv, TypeOK
<1>10. ASSUME NEW j \in Jobs, RecordResult(j)
       PROVE  IInv'
  <2>1. /\ daemon' \in Daemon /\ daemon'.now <= clock' /\ FileIsSound' /\ RunsMatchHistory'
        /\ MemoryIsSound' /\ ClaimIsLive' /\ ResultIsKnown'
    BY <1>10, RecordKeeps
  <2>2. /\ UNCHANGED <<clock, jobs, audit, executed, lease, starts, failures, stop, paused>>
        /\ history' = [history EXCEPT ![j][Slot(j)] = daemon.result]
        /\ daemon.result \in {"ok", "error"}
    BY <1>10 DEF RecordResult, IInv, ResultIsKnown
  <2>3. history' \in [Jobs -> [Slots -> {"none", "running", "ok", "error", "skipped"}]]
    BY <1>0, <2>2
  <2> QED BY <1>0, <2>1, <2>2, <2>3 DEF IInv, TypeOK
<1>11. CASE CycleRaises
  <2>1. /\ daemon' = [Dead EXCEPT !.id = daemon.id, !.pc = "idle"]
        /\ UNCHANGED <<clock, jobs, history, audit, executed, lease, starts, stop, paused>>
    BY <1>11 DEF CycleRaises
  <2>3. failures' \in 0 .. MaxFailures
    <3>1. failures' = failures + 1 /\ failures < MaxFailures
      BY <1>11 DEF CycleRaises
    <3> QED BY <1>0, <3>1, DaemonAssumption
  <2>2. daemon' \in Daemon /\ daemon'.pc = "idle" /\ daemon'.now = 0
    BY <1>0, <2>1, WaitingIsTyped
  <2> QED BY <1>0, <2>1, <2>2, <2>3, FreeKeeps
          DEF IInv, TypeOK, InCycle, FileIsSound, RunsMatchHistory
<1>12. CASE EndCycle
  <2>1. /\ daemon' = [Dead EXCEPT !.id = daemon.id, !.pc = "idle"]
        /\ lease' = [owner |-> daemon.id, active |-> TRUE]
        /\ UNCHANGED <<clock, history, audit, executed, starts, failures, stop, paused>>
    BY <1>12 DEF EndCycle
  <2>2. daemon' \in Daemon /\ daemon'.pc = "idle" /\ daemon'.now = 0
    BY <1>0, <2>1, WaitingIsTyped
  <2>3. lease' \in [owner: 0 .. MaxStarts, active: BOOLEAN]
    BY <1>0, <2>1
  <2> QED BY <1>0, <1>12, <2>1, <2>2, <2>3, EndCycleKeeps, FreeKeeps
          DEF IInv, TypeOK, InCycle, RunsMatchHistory
<1>13. CASE Tick
  <2>1. clock' \in 0 .. MaxClock /\ clock' \in Nat /\ clock <= clock'
    BY <1>0, <1>13, DaemonAssumption DEF Tick
  <2>2. UNCHANGED <<jobs, history, audit, executed, lease, daemon, starts, failures, stop, paused>>
    BY <1>13 DEF Tick
  <2> QED BY <1>0, <2>1, <2>2, UntouchedKeeps DEF IInv, TypeOK
<1>14. CASE LeaseExpires \/ RequestStop \/ Resume
  <2>1. UNCHANGED <<clock, jobs, history, audit, executed, daemon, starts, failures>>
    BY <1>14 DEF LeaseExpires, RequestStop, Resume
  <2>4. clock <= clock' /\ clock' \in Nat
    BY <1>0, <2>1
  <2>2. stop' \in BOOLEAN /\ paused' \in BOOLEAN
    BY <1>0, <1>14 DEF LeaseExpires, RequestStop, Resume
  <2>3. lease' \in [owner: 0 .. MaxStarts, active: BOOLEAN]
    BY <1>0, <1>14 DEF LeaseExpires, RequestStop, Resume
  <2> QED BY <1>0, <2>1, <2>2, <2>3, <2>4, UntouchedKeeps DEF IInv, TypeOK
<1>15. CASE SyncRegistry
  <2>1. jobs' \in Registry /\ FileIsSound'
    BY <1>15, SynchroniseKeeps DEF SyncRegistry
  <2>2. /\ UNCHANGED <<clock, history, audit, executed, lease, daemon, starts, failures, stop, paused>>
        /\ daemon'.pc \notin InCycle
    BY <1>15 DEF SyncRegistry, GuardFree
  <2> QED BY <1>0, <2>1, <2>2, FreeKeeps DEF IInv, TypeOK, RunsMatchHistory
<1>16. ASSUME NEW j \in Jobs, NEW s \in Slots, ResolveClaim(j, s)
       PROVE  IInv'
  <2>1. FileIsSound' /\ RunsMatchHistory'
    BY <1>16, ResolveKeeps
  <2>2. /\ UNCHANGED <<clock, jobs, executed, lease, daemon, starts, failures, stop, paused>>
        /\ daemon'.pc \notin InCycle
        /\ audit' = audit \cup {<<j, s>>}
    BY <1>16 DEF ResolveClaim, Resolve, GuardFree
  <2>3. history' \in [Jobs -> [Slots -> {"none", "running", "ok", "error", "skipped"}]]
    <3>1. PICK r \in {"ok", "skipped"} : history' = [history EXCEPT ![j][s] = r]
      BY <1>16 DEF ResolveClaim, Resolve
    <3> QED BY <1>0, <3>1
  <2> QED BY <1>0, <2>1, <2>2, <2>3, FreeKeeps DEF IInv, TypeOK
<1> QED BY <1>1, <1>2, <1>3, <1>4, <1>5, <1>6, <1>7, <1>8, <1>9, <1>10, <1>11, <1>12, <1>13, <1>14,
           <1>15, <1>16 DEF Next, Cycle, JobStep

LEMMA AlwaysIInv == Spec => []IInv
  BY InitIInv, StepIInv, PTL DEF Spec

(* The file is only written by a synchronisation and at the end of a cycle. *)
LEMMA FileMoves ==
  ASSUME IInv, [Next]_vars
  PROVE  \/ UNCHANGED jobs
         \/ Synchronise /\ UNCHANGED <<clock, history, audit>>
         \/ EndCycle
<1>1. CASE Start \/ SyncRegistry
  BY <1>1 DEF Start, SyncRegistry
<1>2. CASE EndCycle
  BY <1>2
<1>3. CASE UNCHANGED jobs
  BY <1>3
<1> QED BY <1>1, <1>2, <1>3 DEF Next, Cycle, JobStep, Crash, ObeyStop, Acquire, EnterCycle, PassOver,
           PublishCompleted, Retain, Claim, Execute, RecordResult, ExecutionEnds, CycleRaises, Tick,
           LeaseExpires, RequestStop, Resume, ResolveClaim, Resolve, vars

-----------------------------------------------------------------------------
(* Every variable keeps its type.                                          *)
THEOREM TypeCorrect == Spec => []TypeOK
<1>1. IInv => TypeOK
  BY DEF IInv
<1> QED BY <1>1, AlwaysIInv, PTL

(* No crash, restart or failed save makes a daemon start the command of a  *)
(* slot a second time: the history knows of every start.                   *)
THEOREM RunsOnce == Spec => []SlotRunsOnce
<1>1. IInv => SlotRunsOnce
  <2> SUFFICES ASSUME IInv, NEW j \in Jobs, NEW s \in Slots PROVE executed[j][s] <= 1
    BY DEF SlotRunsOnce
  <2>1. executed[j][s] = 0 \/ executed[j][s] = 1
    BY DEF IInv, RunsMatchHistory
  <2> QED BY <2>1
<1> QED BY <1>1, AlwaysIInv, PTL

(* The counts of jobs.json are those of the slots passed with success.     *)
THEOREM CountsAreRight == Spec => []CountMatchesHistory
<1>1. IInv => CountMatchesHistory
  BY DEF IInv, FileIsSound, Sound, CountIsRight, Passed, Certain, CountMatchesHistory
<1> QED BY <1>1, AlwaysIInv, PTL

(* What jobs.json tells of the last slot of a job is in the history.       *)
THEOREM AlwaysRecorded == Spec => []PublishedIsRecorded
<1>1. IInv => PublishedIsRecorded
  BY DEF IInv, FileIsSound, Sound, LastIsRecorded, PublishedIsRecorded
<1> QED BY <1>1, AlwaysIInv, PTL

(* jobs.json leaves a slot only when the history has its result.           *)
THEOREM PassesOnlySettled == Spec => OnlySettledSlotsArePassed
<1> DEFINE A == \A j \in Jobs :
                  LET s == jobs.state[j].next IN
                  s # Never /\ jobs'.state[j].next # s
                    => history[j][s] \in {"ok", "error", "skipped"}
<1>1. ASSUME IInv, [Next]_vars PROVE A
  <2> SUFFICES ASSUME NEW j \in Jobs, jobs.state[j].next # Never,
                      jobs'.state[j].next # jobs.state[j].next
               PROVE  history[j][jobs.state[j].next] \in {"ok", "error", "skipped"}
    OBVIOUS
  <2>1. CASE Synchronise
    BY <2>1 DEF Synchronise, Synchronised
  <2>2. CASE EndCycle
    <3>1. jobs' = daemon.loaded /\ daemon.pc \in InCycle
      BY <2>2 DEF EndCycle, InCycle
    <3> QED BY <1>1, <3>1 DEF IInv, MemoryIsSound, Settled
  <2> QED BY <1>1, <2>1, <2>2, FileMoves
<1>2. IInv /\ [Next]_vars => [A]_vars
  BY <1>1
<1>3. [][A]_vars <=> OnlySettledSlotsArePassed
  BY DEF OnlySettledSlotsArePassed
<1> HIDE DEF A
<1> QED BY <1>2, <1>3, AlwaysIInv, PTL DEF Spec

(* A cycle writes back the registry it loaded: nobody has replaced it in   *)
(* the meantime.                                                           *)
THEOREM NeverRegresses == Spec => RegistryNeverRegresses
<1> DEFINE A == jobs'.edits >= jobs.edits
<1>1. ASSUME IInv, [Next]_vars PROVE A
  <2>1. jobs.edits \in 0 .. MaxEdits
    BY <1>1 DEF IInv, TypeOK, Registry
  <2>2. CASE UNCHANGED jobs
    BY <2>1, <2>2
  <2>3. CASE Synchronise /\ UNCHANGED <<clock, history, audit>>
    BY <1>1, <2>3, SynchroniseKeeps
  <2>4. CASE EndCycle
    <3>1. jobs'.edits = jobs.edits
      BY <1>1, <2>4 DEF EndCycle, IInv, MemoryIsSound, InCycle
    <3> QED BY <2>1, <3>1
  <2> QED BY <1>1, <2>2, <2>3, <2>4, FileMoves
<1>2. IInv /\ [Next]_vars => [A]_vars
  BY <1>1
<1>3. [][A]_vars <=> RegistryNeverRegresses
  BY DEF RegistryNeverRegresses
<1> HIDE DEF A
<1> QED BY <1>2, <1>3, AlwaysIInv, PTL DEF Spec

(* The claim of a command that executes is changed by its own result only. *)
THEOREM LiveStaysUntouched == Spec => LiveClaimIsUntouched
<1> DEFINE A == \A j \in Jobs :
                  daemon.pc \in {"executing", "recording"} /\ daemon.at = j
                    /\ history'[j][Slot(j)] # history[j][Slot(j)]
                    => history[j][Slot(j)] = "running" /\ history'[j][Slot(j)] = daemon.result
<1>1. ASSUME IInv, [Next]_vars PROVE A
  <2> SUFFICES ASSUME NEW j \in Jobs, daemon.pc \in {"executing", "recording"}, daemon.at = j,
                      history'[j][Slot(j)] # history[j][Slot(j)]
               PROVE  history[j][Slot(j)] = "running" /\ history'[j][Slot(j)] = daemon.result
    OBVIOUS
  <2>1. history[j][Slot(j)] = "running" /\ Due(j)
    BY <1>1 DEF IInv, ClaimIsLive
  <2>2. \E i \in Jobs : RecordResult(i)
    <3>1. /\ \A i \in Jobs : ~Claim(i)
          /\ \A i \in Jobs, s \in Slots : ~ResolveClaim(i, s)
      BY DEF Claim, AtJob, ResolveClaim, GuardFree, InCycle
    <3>2. history' # history
      OBVIOUS
    <3> QED BY <1>1, <3>1, <3>2 DEF Next, Cycle, JobStep, Start, Crash, ObeyStop, Acquire, EnterCycle,
               PassOver, PublishCompleted, Retain, ExecutionEnds, CycleRaises, EndCycle, Tick,
               LeaseExpires, SyncRegistry, RequestStop, Resume, vars
  <2>3. RecordResult(j)
    BY <2>2 DEF RecordResult
  <2>4. Slot(j) \in Slots
    <3>1. daemon.loaded.state[j] \in JobState /\ Slot(j) # Never
      BY <1>1, <2>1, MemoryIsTyped DEF Due, IInv
    <3> QED BY <3>1 DEF JobState, Slot
  <2>5. /\ history' = [history EXCEPT ![j][Slot(j)] = daemon.result]
        /\ history \in [Jobs -> [Slots -> {"none", "running", "ok", "error", "skipped"}]]
    BY <1>1, <2>3 DEF RecordResult, IInv, TypeOK
  <2>6. history'[j][Slot(j)] = daemon.result
    BY <2>4, <2>5
  <2> QED BY <2>1, <2>6
<1>2. IInv /\ [Next]_vars => [A]_vars
  BY <1>1
<1>3. [][A]_vars <=> LiveClaimIsUntouched
  BY DEF LiveClaimIsUntouched
<1> HIDE DEF A
<1> QED BY <1>2, <1>3, AlwaysIInv, PTL DEF Spec
=============================================================================
