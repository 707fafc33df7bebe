------------------------- MODULE RunSchedulingProofs -------------------------
(***************************************************************************)
(* Proofs about submissions on PostgreSQL, alone and beside the schedule   *)
(* dispatchers, for any calls, keys, schedules, schedule daemons, number   *)
(* of threads and queue limit.                                             *)
(***************************************************************************)
EXTENDS RunScheduling, FiniteSetTheorems, TLAPS

-----------------------------------------------------------------------------
(* Submissions.                                                            *)

Serving == {c \in Calls : pc[c] \in InFlight}

(* The runs never claimed, and those about to be inserted.                 *)
Coming == {c \in Calls : pc[c] = "saving" \/ run[c] = "queued"}

(* An accepted call was told its own run or one with its key.              *)
AnswersExist ==
  \A c \in Calls : pc[c] = "accepted" =>
    /\ answer[c] \in Calls
    /\ run[answer[c]] # "none"
    /\ answer[c] = c \/ (KeyOf[c] # None /\ KeyOf[answer[c]] = KeyOf[c])

KeysAreUnique ==
  \A c, d \in Calls :
    run[c] # "none" /\ run[d] # "none" /\ KeyOf[c] # None /\ KeyOf[c] = KeyOf[d] => c = d

(* Whoever was admitted saw less than a full queue, and at most Threads    *)
(* calls are between their admission and their insert.                     *)
Bounded ==
  /\ Cardinality(Serving) <= Threads
  /\ Cardinality(Coming) <= MaxQueued + Threads - 1

IInv == TypeOK /\ AnswersExist /\ KeysAreUnique /\ Bounded

(* Sets of calls are finite.                                               *)
LEMMA CallsAreFinite ==
  ASSUME NEW S \in SUBSET Calls
  PROVE  IsFiniteSet(S) /\ Cardinality(S) \in Nat
  BY FS_Subset, FS_CardinalityType, SubmissionAssumption

LEMMA InitIInv == Init => IInv
<1> SUFFICES ASSUME Init PROVE IInv
  OBVIOUS
<1>1. TypeOK /\ AnswersExist /\ KeysAreUnique
  BY DEF Init, TypeOK, InFlight, Responses, AnswersExist, KeysAreUnique
<1>2. Serving = {} /\ Coming = {}
  BY DEF Init, Serving, Coming, InFlight
<1>3. Bounded
  BY <1>2, FS_EmptySet, SubmissionAssumption DEF Bounded
<1> QED BY <1>1, <1>3 DEF IInv

(* A call that leaves the server, or stays in it, and adds no run.         *)
LEMMA FewerAreBounded ==
  ASSUME IInv, Serving' \subseteq Serving, Coming' \subseteq Coming
  PROVE  Bounded'
<1>1. Cardinality(Serving') <= Cardinality(Serving)
  BY FS_Subset, CallsAreFinite DEF Serving
<1>2. Cardinality(Coming') <= Cardinality(Coming)
  BY FS_Subset, CallsAreFinite DEF Coming
<1>3. /\ Cardinality(Serving) \in Nat /\ Cardinality(Coming) \in Nat
      /\ Cardinality(Serving') \in Nat /\ Cardinality(Coming') \in Nat
  BY CallsAreFinite DEF Serving, Coming
<1> QED BY <1>1, <1>2, <1>3, SubmissionAssumption DEF IInv, Bounded

(* The lookup of a key that is there, as the first step or at the insert.  *)
LEMMA AcceptKeeps ==
  ASSUME IInv, NEW c \in Calls, NEW d \in SameKey(c), Accept(c, d), UNCHANGED run
  PROVE  TypeOK' /\ AnswersExist' /\ KeysAreUnique'
  BY DEF IInv, TypeOK, AnswersExist, KeysAreUnique, Accept, Goto,
         SameKey, InFlight, Responses

LEMMA LookUpKeeps ==
  ASSUME IInv, NEW c \in Calls, LookUp(c)
  PROVE  IInv'
<1>1. CASE SameKey(c) # {}
  <2>1. PICK d \in SameKey(c) : Accept(c, d)
    BY <1>1 DEF LookUp
  <2>2. UNCHANGED run
    BY DEF LookUp
  <2>3. Serving' \subseteq Serving /\ Coming' \subseteq Coming
    BY <2>1, <2>2 DEF IInv, TypeOK, Accept, Goto, Serving, Coming, InFlight
  <2> QED BY <2>1, <2>2, <2>3, AcceptKeeps, FewerAreBounded DEF IInv
<1>2. CASE SameKey(c) = {}
  <2>1. Goto(c, "admitting") /\ UNCHANGED <<answer, run>>
    BY <1>2 DEF LookUp
  <2>2. TypeOK' /\ AnswersExist' /\ KeysAreUnique'
    BY <2>1 DEF IInv, TypeOK, AnswersExist, KeysAreUnique, Goto,
                InFlight, Responses
  <2>3. Serving' = Serving \cup {c} /\ Coming' \subseteq Coming
    BY <2>1 DEF IInv, TypeOK, Goto, Serving, Coming, InFlight
  <2>4. Cardinality(Serving) < Threads
    BY DEF LookUp, Serving
  <2>5. Cardinality(Serving') <= Cardinality(Serving) + 1
    BY <2>3, FS_AddElement, CallsAreFinite DEF Serving
  <2>6. Cardinality(Coming') <= Cardinality(Coming)
    BY <2>3, FS_Subset, CallsAreFinite DEF Coming
  <2>7. /\ Cardinality(Serving) \in Nat /\ Cardinality(Coming) \in Nat
        /\ Cardinality(Serving') \in Nat /\ Cardinality(Coming') \in Nat
    BY CallsAreFinite DEF Serving, Coming
  <2>8. Bounded'
    BY <2>4, <2>5, <2>6, <2>7, SubmissionAssumption DEF IInv, Bounded
  <2> QED BY <2>2, <2>8 DEF IInv
<1> QED BY <1>1, <1>2

(* The call that is admitted was being served already, so the others that  *)
(* are about to insert are fewer than Threads; and the queue is not full.  *)
LEMMA AdmissionKeeps ==
  ASSUME IInv, NEW c \in Calls, CheckAdmission(c)
  PROVE  IInv'
<1>1. TypeOK' /\ AnswersExist' /\ KeysAreUnique'
  BY DEF IInv, TypeOK, AnswersExist, KeysAreUnique, CheckAdmission, Goto,
         InFlight, Responses
<1>2. Serving' \subseteq Serving /\ c \in Serving
  BY DEF IInv, TypeOK, CheckAdmission, Goto, Serving, InFlight
<1>3. CASE Cardinality(Queue) >= MaxQueued
  <2>1. Coming' \subseteq Coming
    BY <1>3 DEF IInv, TypeOK, CheckAdmission, Goto, Coming
  <2> QED BY <1>1, <1>2, <2>1, FewerAreBounded DEF IInv
<1>4. CASE ~(Cardinality(Queue) >= MaxQueued)
  <2> DEFINE Others == Serving \ {c}
  <2>1. Coming' = Coming \cup {c}
    BY <1>4 DEF IInv, TypeOK, CheckAdmission, Goto, Coming
  <2>2. Coming \subseteq Queue \cup Others
    BY DEF Coming, Queue, Serving, InFlight, CheckAdmission
  <2>3. /\ IsFiniteSet(Queue) /\ IsFiniteSet(Others)
        /\ IsFiniteSet(Queue \cup Others) /\ IsFiniteSet(Coming)
        /\ Cardinality(Queue) \in Nat /\ Cardinality(Others) \in Nat
        /\ Cardinality(Queue \cup Others) \in Nat
        /\ Cardinality(Queue \cap Others) \in Nat
        /\ Cardinality(Coming) \in Nat /\ Cardinality(Coming') \in Nat
        /\ IsFiniteSet(Serving) /\ Cardinality(Serving) \in Nat
        /\ Cardinality(Serving') \in Nat
    BY CallsAreFinite DEF Queue, Serving, Coming
  <2>4. Cardinality(Coming) <= Cardinality(Queue \cup Others)
    BY <2>2, <2>3, FS_Subset
  <2>5. Cardinality(Queue \cup Others) <= Cardinality(Queue) + Cardinality(Others)
    <3>1. Cardinality(Queue \cup Others)
            = Cardinality(Queue) + Cardinality(Others) - Cardinality(Queue \cap Others)
      BY <2>3, FS_Union
    <3> HIDE DEF Others
    <3> QED BY <2>3, <3>1
  <2>6. Cardinality(Others) = Cardinality(Serving) - 1
    BY <1>2, <2>3, FS_RemoveElement
  <2>7. Cardinality(Coming') <= Cardinality(Coming) + 1
    <3>1. Cardinality(Coming \cup {c})
            = IF c \in Coming THEN Cardinality(Coming) ELSE Cardinality(Coming) + 1
      BY <2>3, FS_AddElement
    <3> QED BY <2>1, <2>3, <3>1
  <2>8. Cardinality(Serving') <= Cardinality(Serving)
    BY <1>2, <2>3, FS_Subset
  <2>9. Bounded'
    BY <1>4, <2>3, <2>4, <2>5, <2>6, <2>7, <2>8, SubmissionAssumption DEF IInv, Bounded
  <2> QED BY <1>1, <2>9 DEF IInv
<1> QED BY <1>3, <1>4

(* The conflict clause of the insert decides who creates the run of a key. *)
LEMMA SaveKeeps ==
  ASSUME IInv, NEW c \in Calls, PostgresSave(c)
  PROVE  IInv'
<1>1. CASE SameKey(c) # {}
  <2>1. PICK d \in SameKey(c) : Accept(c, d) /\ UNCHANGED run
    BY <1>1 DEF PostgresSave
  <2>2. Serving' \subseteq Serving /\ Coming' \subseteq Coming
    BY <2>1 DEF IInv, TypeOK, Accept, Goto, Serving, Coming, InFlight
  <2> QED BY <2>1, <2>2, AcceptKeeps, FewerAreBounded DEF IInv
<1>2. CASE SameKey(c) = {}
  <2>1. Insert(c) /\ pc[c] = "saving"
    BY <1>2 DEF PostgresSave
  <2>2. TypeOK' /\ AnswersExist'
    BY <2>1 DEF IInv, TypeOK, AnswersExist, Insert, Accept, Goto,
                InFlight, Responses
  <2>3. KeysAreUnique'
    BY <1>2, <2>1 DEF IInv, TypeOK, KeysAreUnique, Insert, SameKey
  <2>4. Serving' \subseteq Serving /\ Coming' \subseteq Coming
    BY <2>1 DEF IInv, TypeOK, Insert, Accept, Goto, Serving, Coming, InFlight
  <2> QED BY <2>2, <2>3, <2>4, FewerAreBounded DEF IInv
<1> QED BY <1>1, <1>2

LEMMA QueueKeeps ==
  ASSUME IInv, NEW c \in Calls, LeaveQueue(c) \/ ReturnToQueue(c)
  PROVE  IInv'
<1>1. TypeOK' /\ AnswersExist' /\ KeysAreUnique'
  BY DEF IInv, TypeOK, AnswersExist, KeysAreUnique, LeaveQueue,
         ReturnToQueue, Queue
<1>2. Serving' \subseteq Serving /\ Coming' \subseteq Coming
  BY DEF IInv, TypeOK, LeaveQueue, ReturnToQueue, Serving, Coming
<1> QED BY <1>1, <1>2, FewerAreBounded DEF IInv

LEMMA RetryKeeps ==
  ASSUME IInv, NEW c \in Calls, Retry(c)
  PROVE  IInv'
<1>1. TypeOK' /\ AnswersExist' /\ KeysAreUnique'
  BY DEF IInv, TypeOK, AnswersExist, KeysAreUnique, Retry, Goto,
         InFlight, Responses
<1>2. Serving' \subseteq Serving /\ Coming' \subseteq Coming
  BY DEF IInv, TypeOK, Retry, Goto, Serving, Coming, InFlight
<1> QED BY <1>1, <1>2, FewerAreBounded DEF IInv

LEMMA StepIInv == IInv /\ [PostgresNext]_vars => IInv'
<1> SUFFICES ASSUME IInv, [PostgresNext]_vars PROVE IInv'
  OBVIOUS
<1>1. CASE UNCHANGED vars
  <2>1. TypeOK' /\ AnswersExist' /\ KeysAreUnique'
    BY <1>1 DEF IInv, vars, TypeOK, AnswersExist, KeysAreUnique
  <2>2. Serving' = Serving /\ Coming' = Coming
    BY <1>1 DEF vars, Serving, Coming
  <2> QED BY <2>1, <2>2, FewerAreBounded DEF IInv
<1>2. ASSUME NEW c \in Calls, Common(c) \/ PostgresSave(c)
      PROVE  IInv'
  BY <1>2, LookUpKeeps, AdmissionKeeps, RetryKeeps, SaveKeeps, QueueKeeps DEF Common
<1> QED BY <1>1, <1>2 DEF PostgresNext

LEMMA AlwaysIInv == PostgresSpec => []IInv
  BY InitIInv, StepIInv, PTL DEF PostgresSpec

-----------------------------------------------------------------------------
(* Every reachable state of the submissions is well typed.                 *)
THEOREM TypeCorrect == PostgresSpec => []TypeOK
<1>1. IInv => TypeOK
  BY DEF IInv
<1> QED BY <1>1, AlwaysIInv, PTL

(* Accepted submissions with one key were told one and the same run,       *)
(* however their lookups, admission checks and inserts interleave.         *)
THEOREM AlwaysOneRun == PostgresSpec => []OneRunPerKey
<1>1. IInv => OneRunPerKey
  BY DEF IInv, OneRunPerKey, AnswersExist, KeysAreUnique
<1> QED BY <1>1, AlwaysIInv, PTL

(* The runs never claimed exceed the queue limit by at most one for every  *)
(* request thread but the first.                                           *)
THEOREM AlwaysBounded == PostgresSpec => []BoundedQueue
<1>1. ASSUME IInv PROVE BoundedQueue
  <2> DEFINE New == {d \in Calls : run[d] = "queued"}
  <2>1. New \subseteq Coming /\ IsFiniteSet(Coming) /\ Cardinality(Coming) \in Nat
        /\ Cardinality(New) \in Nat
    BY CallsAreFinite DEF Coming
  <2>2. Cardinality(New) <= Cardinality(Coming)
    BY <2>1, FS_Subset
  <2> QED BY <1>1, <2>1, <2>2, SubmissionAssumption DEF IInv, Bounded, BoundedQueue
<1> QED BY <1>1, AlwaysIInv, PTL

-----------------------------------------------------------------------------
(* Every step of a dispatcher is a step of a submission, or none: what is  *)
(* proved of submissions carries over.  The advisory lock makes the        *)
(* dispatcher one more thread, and the slots from next on untouched.       *)

(* One thread is left for the dispatcher that holds the lock.              *)
RequestsBounded == Cardinality({c \in Requests : pc[c] \in InFlight}) <= Threads - 1

(* One dispatcher at a time is at an occurrence, and nobody else has one   *)
(* in flight.                                                              *)
LockIsExclusive ==
  /\ \A d, e \in Dispatchers :
       dispatcher[d].at # None /\ dispatcher[e].at # None => d = e
  /\ \A o \in Occurrences :
       pc[o] \in InFlight => \E d \in Dispatchers : dispatcher[d].at = o

(* It is the next slot of an active schedule, due at the time of the poll. *)
LockedIsDue ==
  \A d \in Dispatchers, s \in Schedules, t \in Slots :
    dispatcher[d].at = <<s, t>> =>
      /\ schedule[s].status = "active"
      /\ schedule[s].next = t
      /\ t <= dispatcher[d].now
      /\ s \in dispatcher[d].due
      /\ pc[<<s, t>>] \in {"admitting", "saving"}
      /\ pc[<<s, t>>] = "saving" => Open(s) = {}

(* Nothing has happened yet to the slots from the next one on.             *)
FutureIsClean ==
  \A s \in Schedules, t \in Slots :
    schedule[s].next <= t =>
      /\ run[<<s, t>>] = "none"
      /\ <<s, t>> \notin skipped
      /\ pc[<<s, t>>] \in {"new"} \cup InFlight

AbsentIsFirst == \A s \in Schedules : schedule[s].status = "absent" => schedule[s].next = 1

OneOpen == \A s \in Schedules : \A o, p \in Open(s) : o = p

SInv ==
  /\ SchedulingTypeOK /\ IInv
  /\ RequestsBounded /\ LockIsExclusive /\ LockedIsDue
  /\ FutureIsClean /\ AbsentIsFirst /\ OneOpen

-----------------------------------------------------------------------------
(* Only the run of an occurrence itself has its key.                       *)
LEMMA OwnKey ==
  ASSUME NEW o \in Occurrences
  PROVE  SameKey(o) = IF run[o] = "none" THEN {} ELSE {o}
<1>1. o \in Calls /\ KeyOf[o] = o /\ o # None
  BY SchedulingAssumption
<1>2. ASSUME NEW c \in Calls, KeyOf[c] = o PROVE c = o
  <2>1. CASE c \in Occurrences
    BY <1>2, <2>1, SchedulingAssumption
  <2>2. CASE c \in Requests
    BY <1>2, <2>2, SchedulingAssumption
  <2> QED BY <2>1, <2>2 DEF Requests
<1> QED BY <1>1, <1>2 DEF SameKey

LEMMA InitSInv == SchedulingInit => SInv
<1> SUFFICES ASSUME SchedulingInit PROVE SInv
  OBVIOUS
<1>1. IInv
  BY InitIInv DEF SchedulingInit
<1>2. SchedulingTypeOK
  BY <1>1, SchedulingAssumption DEF SchedulingInit, SchedulingTypeOK, IInv, Slots, Resting
<1>3. \A c \in Calls : pc[c] = "new" /\ run[c] = "none"
  BY DEF SchedulingInit, Init
<1>4. {c \in Requests : pc[c] \in InFlight} = {}
  BY <1>3 DEF Requests, InFlight
<1>5. RequestsBounded
  BY <1>4, FS_EmptySet, SubmissionAssumption DEF RequestsBounded
<1>6. LockIsExclusive /\ LockedIsDue
  <2>1. \A o \in Occurrences : pc[o] = "new" /\ o # None
    BY <1>3, SchedulingAssumption
  <2> QED BY <2>1 DEF LockIsExclusive, LockedIsDue, SchedulingInit, Resting, InFlight, Occurrences
<1>7. FutureIsClean
  BY <1>3, SchedulingAssumption DEF FutureIsClean, SchedulingInit, Occurrences
<1>8. AbsentIsFirst /\ OneOpen
  BY <1>3, SchedulingAssumption DEF AbsentIsFirst, OneOpen, Open, Of, SchedulingInit
<1> QED BY <1>1, <1>2, <1>5, <1>6, <1>7, <1>8 DEF SInv

-----------------------------------------------------------------------------
(* Every step is a step of the submissions, or leaves them alone.          *)

(* Whoever takes the lock finds every thread but the requests' own free.   *)
LEMMA LockIsLookUp ==
  ASSUME SInv, NEW d \in Dispatchers, NEW s \in Schedules, LockSchedule(d, s),
         Due(s, dispatcher[d].now)
  PROVE  LookUp(<<s, schedule[s].next>>)
<1> DEFINE o == <<s, schedule[s].next>>
<1>1. o \in Occurrences /\ o \in Calls
  BY SchedulingAssumption DEF SInv, SchedulingTypeOK, Occurrences
<1>2. \A e \in Dispatchers : dispatcher[e].at = None
  BY DEF LockSchedule
<1>3. \A p \in Occurrences : pc[p] \notin InFlight
  BY <1>2, SchedulingAssumption DEF SInv, LockIsExclusive
<1>4. run[o] = "none" /\ pc[o] \in {"new"} \cup InFlight
  BY DEF SInv, SchedulingTypeOK, FutureIsClean, Slots
<1>5. pc[o] = "new" /\ SameKey(o) = {}
  BY <1>1, <1>3, <1>4, OwnKey
<1>6. Serving = {c \in Requests : pc[c] \in InFlight}
  BY <1>3 DEF Serving, Requests
<1>7. Cardinality(Serving) \in Nat
  BY CallsAreFinite DEF Serving
<1>8. Cardinality(Serving) < Threads
  BY <1>6, <1>7, SubmissionAssumption DEF SInv, RequestsBounded
<1>9. Goto(o, "admitting") /\ UNCHANGED <<answer, run>>
  BY DEF LockSchedule
<1> QED BY <1>5, <1>8, <1>9 DEF LookUp, Serving

LEMMA LockImplements ==
  ASSUME SInv, NEW d \in Dispatchers, NEW s \in Schedules, LockSchedule(d, s)
  PROVE  [PostgresNext]_vars
<1>1. CASE Due(s, dispatcher[d].now)
  <2>1. <<s, schedule[s].next>> \in Calls
    BY SchedulingAssumption DEF SInv, SchedulingTypeOK, Occurrences
  <2> QED BY <1>1, <2>1, LockIsLookUp DEF PostgresNext, Common
<1>2. CASE ~Due(s, dispatcher[d].now)
  BY <1>2 DEF LockSchedule, vars
<1> QED BY <1>1, <1>2

LEMMA ReleaseIsRetry ==
  ASSUME SInv, NEW d \in Dispatchers, NEW o \in Occurrences, dispatcher[d].at = o,
         Goto(o, "new"), UNCHANGED <<answer, run>>
  PROVE  [PostgresNext]_vars
<1>1. pc[o] \in InFlight
  BY DEF SInv, LockedIsDue, Occurrences, InFlight
<1>2. o \in Calls
  BY SchedulingAssumption
<1> QED BY <1>1, <1>2 DEF PostgresNext, Common, Retry

LEMMA StepImplements == SInv /\ [SchedulingNext]_allVars => [PostgresNext]_vars
<1> SUFFICES ASSUME SInv, [SchedulingNext]_allVars PROVE [PostgresNext]_vars
  OBVIOUS
<1>0. Occurrences \subseteq Calls /\ Requests \subseteq Calls
  BY SchedulingAssumption DEF Requests
<1>1. CASE UNCHANGED allVars
  BY <1>1 DEF allVars, vars
<1>2. ASSUME NEW d \in Dispatchers, Poll(d)
      PROVE  [PostgresNext]_vars
  BY <1>2 DEF Poll, vars
<1>3. ASSUME NEW d \in Dispatchers, Dispatch(d)
      PROVE  [PostgresNext]_vars
  <2>1. ASSUME NEW s \in Schedules, LockSchedule(d, s)
        PROVE  [PostgresNext]_vars
    BY <2>1, LockImplements
  <2>2. ASSUME NEW o \in Occurrences, SkipOverlap(d, o) \/ LeaveDue(d, o)
        PROVE  [PostgresNext]_vars
    BY <2>2, ReleaseIsRetry DEF SkipOverlap, LeaveDue, Locked
  <2>3. ASSUME NEW o \in Occurrences, Admit(d, o) \/ DispatchRun(d, o)
        PROVE  [PostgresNext]_vars
    BY <2>3, <1>0 DEF Admit, DispatchRun, PostgresNext, Common
  <2> QED BY <1>3, <2>1, <2>2, <2>3 DEF Dispatch
<1>4. ASSUME NEW d \in Dispatchers, PollFails(d)
      PROVE  [PostgresNext]_vars
  <2>1. CASE dispatcher[d].at = None
    BY <1>4, <2>1 DEF PollFails, vars
  <2>2. CASE dispatcher[d].at # None
    <3>1. dispatcher[d].at \in Occurrences
      BY <2>2 DEF SInv, SchedulingTypeOK
    <3>2. Goto(dispatcher[d].at, "new") /\ UNCHANGED <<answer, run>>
      BY <1>4, <2>2 DEF PollFails
    <3> QED BY <3>1, <3>2, ReleaseIsRetry
  <2> QED BY <2>1, <2>2
<1>5. ASSUME NEW s \in Schedules, Register(s) \/ Disable(s)
      PROVE  [PostgresNext]_vars
  BY <1>5 DEF Register, Disable, Disabled, vars
<1>6. ASSUME NEW c \in Requests, Submission(c)
      PROVE  [PostgresNext]_vars
  BY <1>6, <1>0 DEF Submission, PostgresNext, Common
<1>7. ASSUME NEW c \in Calls, QueueMoves(c) \/ RunEnds(c)
      PROVE  [PostgresNext]_vars
  BY <1>7 DEF QueueMoves, RunEnds, PostgresNext, Common, vars
<1>8. CASE Tick
  BY <1>8 DEF Tick, vars
<1> QED BY <1>1, <1>2, <1>3, <1>4, <1>5, <1>6, <1>7, <1>8 DEF SchedulingNext

-----------------------------------------------------------------------------
(* Every step keeps the invariant.                                         *)

(* Steps that put no further request into flight.                          *)
LEMMA FewerRequests ==
  ASSUME SInv, \A c \in Requests : pc'[c] \in InFlight => pc[c] \in InFlight
  PROVE  RequestsBounded'
<1> DEFINE S == {c \in Requests : pc[c] \in InFlight}
<1> DEFINE T == {c \in Requests : pc'[c] \in InFlight}
<1>1. T \subseteq S /\ S \subseteq Calls /\ T \subseteq Calls
  BY DEF Requests
<1>2. IsFiniteSet(S) /\ Cardinality(S) \in Nat /\ Cardinality(T) \in Nat
  BY <1>1, CallsAreFinite
<1>3. Cardinality(T) <= Cardinality(S)
  BY <1>1, <1>2, FS_Subset
<1>4. Cardinality(T) <= Threads - 1
  <2> HIDE DEF T
  <2> QED BY <1>2, <1>3, SubmissionAssumption DEF SInv, RequestsBounded
<1> QED BY <1>4 DEF RequestsBounded

(* Steps that leave the occurrences where they are.                        *)
LEMMA OthersKeep ==
  ASSUME SInv, UNCHANGED <<schedule, skipped, dispatcher>>, ended \subseteq ended',
         \A o \in Occurrences : pc'[o] = pc[o] /\ (run'[o] = "none" <=> run[o] = "none")
  PROVE  LockIsExclusive' /\ LockedIsDue' /\ FutureIsClean' /\ AbsentIsFirst' /\ OneOpen'
<1>1. \A s \in Schedules : (Open(s))' \subseteq Open(s)
  BY DEF Open, Of
<1>2. LockIsExclusive'
  BY DEF SInv, LockIsExclusive
<1>3. LockedIsDue'
  BY <1>1 DEF SInv, LockedIsDue, Occurrences
<1>4. FutureIsClean' /\ AbsentIsFirst'
  BY DEF SInv, FutureIsClean, AbsentIsFirst, Occurrences
<1>5. OneOpen'
  BY <1>1 DEF SInv, OneOpen
<1> QED BY <1>2, <1>3, <1>4, <1>5

LEMMA SubmissionKeeps ==
  ASSUME SInv, NEW c \in Requests, Submission(c), SchedulingTypeOK', IInv'
  PROVE  SInv'
<1>1. c \in Calls /\ c \notin Occurrences
  BY DEF Requests
<1>2. \A d \in Calls : d # c => pc'[d] = pc[d] /\ run'[d] = run[d]
  BY <1>1 DEF SInv, IInv, TypeOK, Submission, LookUp, CheckAdmission, PostgresSave, Retry, Accept, Goto,
         Insert
<1>3. LockIsExclusive' /\ LockedIsDue' /\ FutureIsClean' /\ AbsentIsFirst' /\ OneOpen'
  <2>1. \A o \in Occurrences : pc'[o] = pc[o] /\ run'[o] = run[o]
    BY <1>1, <1>2, SchedulingAssumption
  <2>2. UNCHANGED <<schedule, skipped, dispatcher, ended>>
    BY DEF Submission, schedulingVars
  <2> QED BY <2>1, <2>2, OthersKeep
<1>4. CASE CheckAdmission(c) \/ PostgresSave(c) \/ Retry(c)
  <2>1. \A d \in Requests : pc'[d] \in InFlight => pc[d] \in InFlight
    <3>1. pc[c] \in InFlight \/ pc'[c] = "new"
      BY <1>1, <1>4 DEF SInv, IInv, TypeOK, CheckAdmission, PostgresSave, Retry, Goto, InFlight
    <3> QED BY <1>2, <3>1 DEF Requests, InFlight
  <2> QED BY <1>3, <2>1, FewerRequests DEF SInv
<1>5. CASE LookUp(c) /\ Cardinality({d \in Requests : pc[d] \in InFlight}) < Threads - 1
  <2> DEFINE S == {d \in Requests : pc[d] \in InFlight}
  <2> DEFINE T == {d \in Requests : pc'[d] \in InFlight}
  <2>1. T \subseteq S \cup {c} /\ S \subseteq Calls /\ T \subseteq Calls
        /\ S \cup {c} \subseteq Calls
    BY <1>1, <1>2 DEF Requests
  <2>2. /\ IsFiniteSet(S) /\ Cardinality(S) \in Nat /\ Cardinality(T) \in Nat
        /\ IsFiniteSet(S \cup {c}) /\ Cardinality(S \cup {c}) \in Nat
    BY <2>1, CallsAreFinite
  <2>3. Cardinality(T) <= Cardinality(S \cup {c})
    BY <2>1, <2>2, FS_Subset
  <2>4. Cardinality(S \cup {c}) <= Cardinality(S) + 1
    <3>1. Cardinality(S \cup {c}) = IF c \in S THEN Cardinality(S) ELSE Cardinality(S) + 1
      BY <2>2, FS_AddElement
    <3> HIDE DEF S
    <3> QED BY <2>2, <3>1
  <2>5. Cardinality(S) < Threads - 1
    BY <1>5
  <2>6. Cardinality(T) <= Threads - 1
    <3> HIDE DEF S, T
    <3> QED BY <2>2, <2>3, <2>4, <2>5, SubmissionAssumption
  <2> QED BY <1>3, <2>6 DEF SInv, RequestsBounded
<1> QED BY <1>4, <1>5 DEF Submission

LEMMA RunsKeep ==
  ASSUME SInv, NEW c \in Calls, QueueMoves(c) \/ RunEnds(c), SchedulingTypeOK', IInv'
  PROVE  SInv'
<1>1. /\ UNCHANGED <<schedule, skipped, dispatcher, pc>>
      /\ ended \subseteq ended'
      /\ \A d \in Calls : run'[d] = "none" <=> run[d] = "none"
  BY DEF SInv, IInv, TypeOK, QueueMoves, RunEnds, LeaveQueue, ReturnToQueue, Queue, schedulingVars,
         vars
<1>2. LockIsExclusive' /\ LockedIsDue' /\ FutureIsClean' /\ AbsentIsFirst' /\ OneOpen'
  BY <1>1, OthersKeep, SchedulingAssumption
<1>3. RequestsBounded'
  BY <1>1, FewerRequests
<1> QED BY <1>2, <1>3 DEF SInv

LEMMA PollKeeps ==
  ASSUME SInv, NEW d \in Dispatchers, Poll(d), SchedulingTypeOK', IInv'
  PROVE  SInv'
<1>1. dispatcher[d].at = None
  BY DEF SInv, SchedulingTypeOK, LockedIsDue, Poll, Occurrences
<1>2. /\ dispatcher'[d].at = None
      /\ \A e \in Dispatchers : e # d => dispatcher'[e] = dispatcher[e]
      /\ UNCHANGED <<pc, run, schedule, skipped, ended>>
  BY DEF SInv, SchedulingTypeOK, Poll, vars
<1>3. \A s \in Schedules : (Open(s))' = Open(s)
  BY <1>2 DEF Open, Of
<1>4. RequestsBounded'
  BY <1>2, FewerRequests
<1>5. LockIsExclusive'
  BY <1>1, <1>2, SchedulingAssumption DEF SInv, LockIsExclusive
<1>6. LockedIsDue'
  BY <1>2, <1>3, SchedulingAssumption DEF SInv, LockedIsDue, Occurrences
<1>7. FutureIsClean' /\ AbsentIsFirst'
  BY <1>2 DEF SInv, FutureIsClean, AbsentIsFirst
<1>8. OneOpen'
  BY <1>3 DEF SInv, OneOpen
<1> QED BY <1>4, <1>5, <1>6, <1>7, <1>8 DEF SInv

LEMMA LockKeeps ==
  ASSUME SInv, NEW d \in Dispatchers, NEW s \in Schedules, LockSchedule(d, s),
         SchedulingTypeOK', IInv'
  PROVE  SInv'
<1> DEFINE o == <<s, schedule[s].next>>
<1>1. o \in Occurrences /\ o \in Calls /\ o # None
  BY SchedulingAssumption DEF SInv, SchedulingTypeOK, Occurrences
<1>2. /\ \A e \in Dispatchers : dispatcher[e].at = None
      /\ \A p \in Occurrences : pc[p] \notin InFlight
  BY SchedulingAssumption DEF LockSchedule, SInv, LockIsExclusive
<1>3. /\ UNCHANGED <<run, schedule, skipped, ended>>
      /\ \A e \in Dispatchers : e # d => dispatcher'[e] = dispatcher[e]
  BY DEF SInv, SchedulingTypeOK, LockSchedule
<1>4. \A t \in Schedules : (Open(t))' = Open(t)
  BY <1>3 DEF Open, Of
<1>5. AbsentIsFirst' /\ OneOpen'
  BY <1>3, <1>4 DEF SInv, AbsentIsFirst, OneOpen
<1>6. CASE Due(s, dispatcher[d].now)
  <2>1. /\ dispatcher'[d] = [dispatcher[d] EXCEPT !.at = o]
        /\ \A c \in Calls : pc'[c] = IF c = o THEN "admitting" ELSE pc[c]
    BY <1>6 DEF SInv, IInv, TypeOK, SchedulingTypeOK, LockSchedule, Goto
  <2>2. dispatcher'[d].at = o /\ dispatcher'[d].now = dispatcher[d].now
        /\ dispatcher'[d].due = dispatcher[d].due
    BY <2>1 DEF SInv, SchedulingTypeOK
  <2>3. RequestsBounded'
    <3>1. \A c \in Requests : pc'[c] = pc[c]
      BY <1>1, <2>1 DEF Requests
    <3> QED BY <3>1, FewerRequests
  <2>4. LockIsExclusive'
    BY <1>1, <1>2, <1>3, <2>1, <2>2, SchedulingAssumption DEF LockIsExclusive
  <2>5. LockedIsDue'
    <3> SUFFICES ASSUME NEW e \in Dispatchers, NEW u \in Schedules, NEW t \in Slots,
                        dispatcher'[e].at = <<u, t>>
                 PROVE  (/\ schedule[u].status = "active"
                         /\ schedule[u].next = t
                         /\ t <= dispatcher[e].now
                         /\ u \in dispatcher[e].due
                         /\ pc[<<u, t>>] \in {"admitting", "saving"}
                         /\ pc[<<u, t>>] = "saving" => Open(u) = {})'
      BY DEF LockedIsDue
    <3>1. <<u, t>> # None
      BY SchedulingAssumption DEF Occurrences
    <3>2. e = d
      BY <3>1, <1>2, <1>3
    <3>3. <<u, t>> = <<s, schedule[s].next>>
      BY <3>2, <2>2
    <3>4. u = s /\ t = schedule[s].next
      BY <3>3
    <3>5. s \in dispatcher[d].due
      BY DEF LockSchedule
    <3> QED BY <3>2, <3>4, <3>5, <1>1, <1>3, <1>6, <2>1, <2>2 DEF Due
  <2>6. FutureIsClean'
    <3>1. \A u \in Schedules, t \in Slots : <<u, t>> \in Calls
      BY SchedulingAssumption DEF Occurrences
    <3> QED BY <3>1, <1>3, <2>1 DEF SInv, FutureIsClean, InFlight
  <2> QED BY <1>5, <2>3, <2>4, <2>5, <2>6 DEF SInv
<1>7. CASE ~Due(s, dispatcher[d].now)
  <2>1. UNCHANGED pc /\ \A e \in Dispatchers : dispatcher'[e].at = None
    BY <1>2, <1>3, <1>7 DEF SInv, SchedulingTypeOK, LockSchedule
  <2>2. RequestsBounded'
    BY <2>1, FewerRequests
  <2>3. LockIsExclusive' /\ LockedIsDue'
    BY <1>2, <2>1, SchedulingAssumption DEF LockIsExclusive, LockedIsDue, Occurrences
  <2>4. FutureIsClean'
    BY <1>3, <2>1 DEF SInv, FutureIsClean
  <2> QED BY <1>5, <2>2, <2>3, <2>4 DEF SInv
<1> QED BY <1>6, <1>7

(* The dispatcher gives the lock back, and nobody is at an occurrence.     *)
LEMMA ReleasedKeeps ==
  ASSUME SInv, NEW d \in Dispatchers, NEW o \in Occurrences,
         dispatcher[d].at = o, dispatcher'[d].at = None, pc'[o] \notin InFlight,
         \A e \in Dispatchers : e # d => dispatcher'[e] = dispatcher[e],
         \A c \in Calls : c # o => pc'[c] = pc[c]
  PROVE  RequestsBounded' /\ LockIsExclusive' /\ LockedIsDue'
<1>1. o # None
  BY SchedulingAssumption
<1>2. \A e \in Dispatchers : dispatcher'[e].at = None
  BY <1>1 DEF SInv, LockIsExclusive
<1>3. \A p \in Occurrences : pc'[p] \notin InFlight
  <2> SUFFICES ASSUME NEW p \in Occurrences, pc'[p] \in InFlight PROVE FALSE
    OBVIOUS
  <2>1. p # o /\ p \in Calls
    BY SchedulingAssumption
  <2>2. PICK e \in Dispatchers : dispatcher[e].at = p
    BY <2>1 DEF SInv, LockIsExclusive
  <2> QED BY <1>1, <2>1, <2>2, SchedulingAssumption DEF SInv, LockIsExclusive
<1>4. RequestsBounded'
  <2>1. \A c \in Requests : pc'[c] = pc[c]
    BY DEF Requests
  <2> QED BY <2>1, FewerRequests
<1> QED BY <1>2, <1>3, <1>4, SchedulingAssumption DEF LockIsExclusive, LockedIsDue, Occurrences

LEMMA ReleaseLocks ==
  ASSUME SInv, NEW d \in Dispatchers, NEW o \in Occurrences, dispatcher[d].at = o, Release(d)
  PROVE  /\ dispatcher'[d].at = None
         /\ \A e \in Dispatchers : e # d => dispatcher'[e] = dispatcher[e]
  BY DEF SInv, SchedulingTypeOK, Release

(* The slots from the next one on, when a schedule passes one.             *)
LEMMA PassedKeeps ==
  ASSUME SInv, NEW d \in Dispatchers, NEW s \in Schedules, NEW t \in Slots,
         dispatcher[d].at = <<s, t>>, schedule' = Passed(s, dispatcher[d].now),
         SchedulingTypeOK',
         \A c \in Calls : c # <<s, t>> => pc'[c] = pc[c] /\ run'[c] = run[c],
         skipped' \subseteq skipped \cup {<<s, t>>}
  PROVE  FutureIsClean' /\ AbsentIsFirst'
<1>1. /\ schedule[s].status = "active" /\ schedule[s].next = t
      /\ t <= dispatcher[d].now /\ dispatcher[d].now \in Nat /\ t \in Nat
  <2>1. schedule[s].status = "active" /\ schedule[s].next = t /\ t <= dispatcher[d].now
    BY DEF SInv, LockedIsDue
  <2>2. dispatcher[d].now \in 0 .. MaxClock
    BY DEF SInv, SchedulingTypeOK
  <2> QED BY <2>1, <2>2, SchedulingAssumption DEF Slots
<1>2. /\ schedule'[s].status = "active" /\ schedule'[s].next = dispatcher[d].now + 1
      /\ \A u \in Schedules : u # s => schedule'[u] = schedule[u]
  BY <1>1 DEF SInv, SchedulingTypeOK, Passed
<1>3. AbsentIsFirst'
  BY <1>2 DEF SInv, AbsentIsFirst
<1>4. ASSUME NEW u \in Schedules, NEW v \in Slots, schedule'[u].next <= v
      PROVE  run'[<<u, v>>] = "none" /\ <<u, v>> \notin skipped'
             /\ pc'[<<u, v>>] \in {"new"} \cup InFlight
  <2>1. <<u, v>> \in Calls /\ v \in Nat
    BY SchedulingAssumption DEF Occurrences, Slots
  <2>2. <<u, v>> # <<s, t>> /\ schedule[u].next <= v
    BY <1>1, <1>2, <1>4, <2>1
  <2> QED BY <2>1, <2>2 DEF SInv, FutureIsClean
<1> QED BY <1>3, <1>4 DEF FutureIsClean

LEMMA SkipKeeps ==
  ASSUME SInv, NEW d \in Dispatchers, NEW o \in Occurrences, SkipOverlap(d, o),
         SchedulingTypeOK', IInv'
  PROVE  SInv'
<1>1. PICK s \in Schedules, t \in Slots : o = <<s, t>>
  BY DEF Occurrences
<1>2. /\ dispatcher[d].at = o /\ o \in Calls /\ o[1] = s
      /\ schedule' = Passed(s, dispatcher[d].now)
      /\ skipped' = skipped \cup {o}
      /\ UNCHANGED <<run, ended>>
      /\ Release(d)
  BY <1>1, SchedulingAssumption DEF SkipOverlap, Locked
<1>3. pc'[o] = "new" /\ \A c \in Calls : c # o => pc'[c] = pc[c] /\ run'[c] = run[c]
  BY <1>2 DEF SInv, IInv, TypeOK, SkipOverlap, Goto
<1>4. RequestsBounded' /\ LockIsExclusive' /\ LockedIsDue'
  BY <1>2, <1>3, ReleaseLocks, ReleasedKeeps DEF InFlight
<1>5. FutureIsClean' /\ AbsentIsFirst'
  BY <1>1, <1>2, <1>3, PassedKeeps
<1>6. OneOpen'
  BY <1>2 DEF SInv, OneOpen, Open, Of
<1> QED BY <1>4, <1>5, <1>6 DEF SInv

(* A dispatcher that gives up, for a full queue or with an exception.      *)
LEMMA GiveUpKeeps ==
  ASSUME SInv, NEW d \in Dispatchers, NEW o \in Occurrences,
         dispatcher[d].at = o, dispatcher'[d].at = None,
         \A e \in Dispatchers : e # d => dispatcher'[e] = dispatcher[e],
         Goto(o, "new"), UNCHANGED <<run, schedule, skipped, ended>>,
         SchedulingTypeOK', IInv'
  PROVE  SInv'
<1>1. o \in Calls
  BY SchedulingAssumption
<1>2. \A c \in Calls : pc'[c] = IF c = o THEN "new" ELSE pc[c]
  BY <1>1 DEF SInv, IInv, TypeOK, Goto
<1>3. RequestsBounded' /\ LockIsExclusive' /\ LockedIsDue'
  BY <1>1, <1>2, ReleasedKeeps DEF InFlight
<1>4. FutureIsClean' /\ AbsentIsFirst'
  <2>1. \A u \in Schedules, v \in Slots : <<u, v>> \in Calls
    BY SchedulingAssumption DEF Occurrences
  <2> QED BY <2>1, <1>2 DEF SInv, FutureIsClean, AbsentIsFirst
<1>5. OneOpen'
  BY DEF SInv, OneOpen, Open, Of
<1> QED BY <1>3, <1>4, <1>5 DEF SInv

LEMMA AdmitKeeps ==
  ASSUME SInv, NEW d \in Dispatchers, NEW o \in Occurrences, Admit(d, o),
         SchedulingTypeOK', IInv'
  PROVE  SInv'
<1>1. o \in Calls /\ Cardinality(Queue) \in Nat /\ o # None
  BY SchedulingAssumption, CallsAreFinite DEF Queue
<1>2. /\ Goto(o, "saving") /\ pc[o] = "admitting" /\ Open(o[1]) = {}
      /\ dispatcher[d].at = o
      /\ UNCHANGED <<run, schedule, skipped, ended, dispatcher>>
  BY <1>1, SubmissionAssumption DEF Admit, CheckAdmission, Locked, schedulingVars
<1>3. \A c \in Calls : pc'[c] = IF c = o THEN "saving" ELSE pc[c]
  BY <1>1, <1>2 DEF SInv, IInv, TypeOK, Goto
<1>4. \A s \in Schedules : (Open(s))' = Open(s)
  BY <1>2 DEF Open, Of
<1>5. RequestsBounded'
  <2>1. \A c \in Requests : pc'[c] = pc[c]
    BY <1>3 DEF Requests
  <2> QED BY <2>1, FewerRequests
<1>6. LockIsExclusive'
  BY <1>2, <1>3, SchedulingAssumption DEF SInv, LockIsExclusive
<1>7. LockedIsDue'
  <2>1. ASSUME NEW e \in Dispatchers, NEW s \in Schedules, NEW t \in Slots,
               dispatcher[e].at = <<s, t>>
        PROVE  pc'[<<s, t>>] = "saving" /\ Open(s) = {}
    <3>1. <<s, t>> # None /\ <<s, t>> \in Occurrences
      BY SchedulingAssumption DEF Occurrences
    <3>2. <<s, t>> = o
      BY <2>1, <3>1, <1>1, <1>2 DEF SInv, LockIsExclusive
    <3> QED BY <3>2, <1>1, <1>2, <1>3
  <2> QED BY <2>1, <1>2, <1>4 DEF SInv, LockedIsDue
<1>8. FutureIsClean' /\ AbsentIsFirst' /\ OneOpen'
  <2>1. \A u \in Schedules, v \in Slots : <<u, v>> \in Calls
    BY SchedulingAssumption DEF Occurrences
  <2> QED BY <2>1, <1>2, <1>3, <1>4 DEF SInv, FutureIsClean, AbsentIsFirst, OneOpen, InFlight
<1> QED BY <1>5, <1>6, <1>7, <1>8 DEF SInv

(* A run that is dispatched is new, and the only open one of its schedule. *)
LEMMA DispatchInserts ==
  ASSUME SInv, NEW d \in Dispatchers, NEW o \in Occurrences, DispatchRun(d, o)
  PROVE  /\ run[o] = "none" /\ Insert(o) /\ Open(o[1]) = {} /\ o \notin skipped
         /\ schedule[o[1]].status = "active" /\ o = <<o[1], schedule[o[1]].next>>
<1>1. PICK s \in Schedules, t \in Slots : o = <<s, t>>
  BY DEF Occurrences
<1>2. /\ schedule[s].status = "active" /\ schedule[s].next = t
      /\ pc[o] = "saving" /\ Open(s) = {}
  BY <1>1 DEF SInv, LockedIsDue, DispatchRun, Locked
<1>3. t <= t
  BY DEF Slots
<1>4. run[o] = "none" /\ o \notin skipped
  BY <1>1, <1>2, <1>3 DEF SInv, FutureIsClean
<1>5. SameKey(o) = {}
  BY <1>4, OwnKey
<1> QED BY <1>1, <1>2, <1>4, <1>5 DEF DispatchRun, PostgresSave

LEMMA DispatchKeeps ==
  ASSUME SInv, NEW d \in Dispatchers, NEW o \in Occurrences, DispatchRun(d, o),
         SchedulingTypeOK', IInv'
  PROVE  SInv'
<1>1. PICK s \in Schedules, t \in Slots : o = <<s, t>>
  BY DEF Occurrences
<1>2. /\ dispatcher[d].at = o /\ o \in Calls /\ o[1] = s
      /\ schedule' = Passed(s, dispatcher[d].now)
      /\ UNCHANGED <<skipped, ended>>
      /\ Release(d)
  BY <1>1, SchedulingAssumption DEF DispatchRun, Locked
<1>3. pc'[o] = "accepted" /\ \A c \in Calls : c # o => pc'[c] = pc[c] /\ run'[c] = run[c]
  BY <1>2, DispatchInserts DEF SInv, IInv, TypeOK, Insert, Accept, Goto
<1>4. RequestsBounded' /\ LockIsExclusive' /\ LockedIsDue'
  BY <1>2, <1>3, ReleaseLocks, ReleasedKeeps DEF InFlight
<1>5. FutureIsClean' /\ AbsentIsFirst'
  BY <1>1, <1>2, <1>3, PassedKeeps
<1>6. OneOpen'
  <2>1. Open(s) = {}
    BY <1>2, DispatchInserts
  <2>2. (Open(s))' \subseteq {o}
    BY <1>2, <1>3, <2>1, SchedulingAssumption DEF Open, Of
  <2>3. ASSUME NEW u \in Schedules, u # s PROVE (Open(u))' = Open(u)
    <3>1. \A p \in Of(u) : p # o /\ p \in Calls
      BY <1>2, <2>3, SchedulingAssumption DEF Of
    <3> QED BY <1>2, <1>3, <3>1 DEF Open, Of
  <2> QED BY <2>2, <2>3 DEF SInv, OneOpen
<1> QED BY <1>4, <1>5, <1>6 DEF SInv

LEMMA FailsKeeps ==
  ASSUME SInv, NEW d \in Dispatchers, PollFails(d), SchedulingTypeOK', IInv'
  PROVE  SInv'
<1>1. /\ dispatcher'[d].at = None
      /\ \A e \in Dispatchers : e # d => dispatcher'[e] = dispatcher[e]
      /\ UNCHANGED <<run, schedule, skipped, ended>>
  BY DEF SInv, SchedulingTypeOK, PollFails, Resting
<1>2. CASE dispatcher[d].at # None
  <2>1. dispatcher[d].at \in Occurrences
    BY <1>2 DEF SInv, SchedulingTypeOK
  <2>2. Goto(dispatcher[d].at, "new")
    BY <1>2 DEF PollFails
  <2> QED BY <1>1, <2>1, <2>2, GiveUpKeeps
<1>3. CASE dispatcher[d].at = None
  <2>1. UNCHANGED pc
    BY <1>3 DEF PollFails
  <2>2. \A s \in Schedules : (Open(s))' = Open(s)
    BY <1>1 DEF Open, Of
  <2>3. RequestsBounded'
    BY <2>1, FewerRequests
  <2>4. LockIsExclusive'
    BY <1>1, <1>3, <2>1, SchedulingAssumption DEF SInv, LockIsExclusive
  <2>5. LockedIsDue'
    BY <1>1, <2>1, <2>2, SchedulingAssumption DEF SInv, LockedIsDue, Occurrences
  <2>6. FutureIsClean' /\ AbsentIsFirst' /\ OneOpen'
    BY <1>1, <2>1, <2>2 DEF SInv, FutureIsClean, AbsentIsFirst, OneOpen
  <2> QED BY <2>3, <2>4, <2>5, <2>6 DEF SInv
<1> QED BY <1>2, <1>3

(* An absent schedule has its next slot no earlier once it is registered;  *)
(* the lock of a dispatcher keeps its schedule from being disabled.        *)
LEMMA RegisterKeeps ==
  ASSUME SInv, NEW s \in Schedules, Register(s) \/ Disable(s), SchedulingTypeOK', IInv'
  PROVE  SInv'
<1>1. UNCHANGED <<pc, run, skipped, ended, dispatcher>>
  BY DEF Register, Disable, Disabled, vars
<1>2. \A u \in Schedules : u # s => schedule'[u] = schedule[u]
  BY DEF SInv, SchedulingTypeOK, Register, Disable, Disabled
<1>3. /\ schedule'[s].status # "absent"
      /\ schedule[s].next <= schedule'[s].next
      /\ schedule[s].next \in Nat /\ schedule'[s].next \in Nat
  <2>1. clock \in 0 .. MaxClock /\ schedule[s] \in [status: {"absent", "active", "disabled"},
                                                     next: Slots]
    BY DEF SInv, SchedulingTypeOK
  <2>2. CASE Register(s)
    <3>1. schedule'[s] = [status |-> "active", next |-> clock + 1] /\ schedule[s].next = 1
      BY <2>2 DEF SInv, SchedulingTypeOK, AbsentIsFirst, Register
    <3> QED BY <2>1, <3>1, SchedulingAssumption
  <2>3. CASE Disable(s)
    <3>1. schedule'[s] = [schedule[s] EXCEPT !.status = "disabled"]
      BY <2>3 DEF SInv, SchedulingTypeOK, Disable, Disabled
    <3> QED BY <2>1, <3>1, SchedulingAssumption DEF Slots
  <2> QED BY <2>2, <2>3
<1>4. \A d \in Dispatchers, t \in Slots : dispatcher[d].at # <<s, t>>
  <2>1. CASE Register(s)
    BY <2>1 DEF SInv, LockedIsDue, Register
  <2>2. CASE Disable(s)
    <3>1. \A t \in Slots : <<s, t>> \in Of(s)
      BY DEF Of, Occurrences
    <3> QED BY <2>2, <3>1 DEF Disable
  <2> QED BY <2>1, <2>2
<1>5. \A u \in Schedules : (Open(u))' = Open(u)
  BY <1>1 DEF Open, Of
<1>6. RequestsBounded'
  BY <1>1, FewerRequests
<1>7. LockIsExclusive'
  BY <1>1 DEF SInv, LockIsExclusive
<1>8. LockedIsDue'
  BY <1>1, <1>2, <1>4, <1>5 DEF SInv, LockedIsDue
<1>9. FutureIsClean'
  <2>1. \A t \in Slots : t \in Nat
    BY DEF Slots
  <2>2. \A u \in Schedules, t \in Slots : schedule'[u].next <= t => schedule[u].next <= t
    BY <1>2, <1>3, <2>1
  <2> QED BY <1>1, <2>2 DEF SInv, FutureIsClean
<1>10. AbsentIsFirst' /\ OneOpen'
  BY <1>1, <1>2, <1>3, <1>5 DEF SInv, AbsentIsFirst, OneOpen
<1> QED BY <1>6, <1>7, <1>8, <1>9, <1>10 DEF SInv

LEMMA StepIsTyped == SInv /\ [SchedulingNext]_allVars => SchedulingTypeOK' /\ IInv'
<1> SUFFICES ASSUME SInv, [SchedulingNext]_allVars PROVE SchedulingTypeOK' /\ IInv'
  OBVIOUS
<1>1. IInv' /\ TypeOK'
  BY StepImplements, StepIInv DEF SInv, IInv
<1> USE DEF SInv, SchedulingTypeOK
<1>2. CASE UNCHANGED allVars
  BY <1>1, <1>2 DEF allVars, schedulingVars
<1>3. ASSUME NEW d \in Dispatchers, Poll(d)
      PROVE  SchedulingTypeOK'
  BY <1>1, <1>3 DEF Poll
<1>4. ASSUME NEW d \in Dispatchers, Dispatch(d)
      PROVE  SchedulingTypeOK'
  <2>1. ASSUME NEW s \in Schedules, LockSchedule(d, s)
        PROVE  SchedulingTypeOK'
    <3>1. <<s, schedule[s].next>> \in Occurrences
      BY DEF Occurrences
    <3> QED BY <1>1, <2>1, <3>1 DEF LockSchedule
  <2>2. ASSUME NEW o \in Occurrences, SkipOverlap(d, o) \/ DispatchRun(d, o)
        PROVE  SchedulingTypeOK'
    <3>1. o[1] \in Schedules /\ dispatcher[d].now + 1 \in Slots
      BY SchedulingAssumption DEF Occurrences, Slots
    <3>2. /\ schedule' = Passed(o[1], dispatcher[d].now) /\ Release(d)
          /\ UNCHANGED <<clock, failures, ended>> /\ skipped' \subseteq skipped \cup {o}
      BY <2>2 DEF SkipOverlap, DispatchRun
    <3> QED BY <1>1, <3>1, <3>2 DEF Passed, Release
  <2>3. ASSUME NEW o \in Occurrences, LeaveDue(d, o)
        PROVE  SchedulingTypeOK'
    BY <1>1, <2>3 DEF LeaveDue, Release
  <2>4. ASSUME NEW o \in Occurrences, Admit(d, o)
        PROVE  SchedulingTypeOK'
    BY <1>1, <2>4 DEF Admit, schedulingVars
  <2> QED BY <1>4, <2>1, <2>2, <2>3, <2>4 DEF Dispatch
<1>5. ASSUME NEW d \in Dispatchers, PollFails(d)
      PROVE  SchedulingTypeOK'
  BY <1>1, <1>5, SchedulingAssumption DEF PollFails, Resting
<1>6. ASSUME NEW s \in Schedules, Register(s) \/ Disable(s)
      PROVE  SchedulingTypeOK'
  <2>1. clock + 1 \in Slots
    BY SchedulingAssumption DEF Slots
  <2> QED BY <1>1, <1>6, <2>1 DEF Register, Disable, Disabled
<1>7. ASSUME NEW c \in Requests, Submission(c)
      PROVE  SchedulingTypeOK'
  BY <1>1, <1>7 DEF Submission, schedulingVars
<1>8. ASSUME NEW c \in Calls, QueueMoves(c) \/ RunEnds(c)
      PROVE  SchedulingTypeOK'
  BY <1>1, <1>8 DEF QueueMoves, RunEnds, schedulingVars
<1>9. CASE Tick
  BY <1>1, <1>9, SchedulingAssumption DEF Tick
<1> QED BY <1>1, <1>2, <1>3, <1>4, <1>5, <1>6, <1>7, <1>8, <1>9 DEF SchedulingNext

LEMMA StepSInv == SInv /\ [SchedulingNext]_allVars => SInv'
<1> SUFFICES ASSUME SInv, [SchedulingNext]_allVars PROVE SInv'
  OBVIOUS
<1>1. SchedulingTypeOK' /\ IInv'
  BY StepIsTyped
<1>2. CASE UNCHANGED allVars \/ Tick
  <2>1. UNCHANGED <<pc, run, schedule, skipped, ended, dispatcher>>
    BY <1>2 DEF allVars, schedulingVars, vars, Tick
  <2>2. RequestsBounded'
    BY <2>1, FewerRequests
  <2> QED BY <1>1, <2>1, <2>2, OthersKeep DEF SInv
<1>3. ASSUME NEW d \in Dispatchers, Poll(d) \/ Dispatch(d) \/ PollFails(d)
      PROVE  SInv'
  <2>1. ASSUME NEW o \in Occurrences, LeaveDue(d, o)
        PROVE  SInv'
    BY <1>1, <2>1, ReleaseLocks, GiveUpKeeps DEF LeaveDue, Locked
  <2> QED BY <1>1, <1>3, <2>1, PollKeeps, LockKeeps, SkipKeeps, AdmitKeeps, DispatchKeeps,
             FailsKeeps DEF Dispatch
<1>4. ASSUME NEW s \in Schedules, Register(s) \/ Disable(s)
      PROVE  SInv'
  BY <1>1, <1>4, RegisterKeeps
<1>5. ASSUME NEW c \in Requests, Submission(c)
      PROVE  SInv'
  BY <1>1, <1>5, SubmissionKeeps
<1>6. ASSUME NEW c \in Calls, QueueMoves(c) \/ RunEnds(c)
      PROVE  SInv'
  BY <1>1, <1>6, RunsKeep
<1> QED BY <1>2, <1>3, <1>4, <1>5, <1>6 DEF SchedulingNext

LEMMA AlwaysSInv == SchedulingSpec => []SInv
  BY InitSInv, StepSInv, PTL DEF SchedulingSpec

-----------------------------------------------------------------------------
(* Dispatchers and requests together behave as concurrent submissions do:  *)
(* a dispatcher is one more thread.                                        *)
THEOREM DispatchersSubmit == SchedulingSpec => PostgresSpec
<1>1. SchedulingInit => Init
  BY DEF SchedulingInit
<1> QED BY <1>1, StepImplements, AlwaysSInv, PTL DEF SchedulingSpec, PostgresSpec

(* So a key still has one run, and every submission was told it.           *)
THEOREM OneRunWithSchedules == SchedulingSpec => []OneRunPerKey
  BY DispatchersSubmit, AlwaysOneRun, PTL

(* The dispatchers together add one run to what the queue may exceed.      *)
THEOREM BoundedWithSchedules == SchedulingSpec => []BoundedQueue
  BY DispatchersSubmit, AlwaysBounded, PTL

(* A schedule never has two open runs, however many daemons poll and       *)
(* although runs come back to the queue.                                   *)
THEOREM NeverOverlaps == SchedulingSpec => []NoOverlap
<1>1. ASSUME SInv PROVE NoOverlap
  <2> SUFFICES ASSUME NEW s \in Schedules PROVE Cardinality(Open(s)) <= 1
    BY DEF NoOverlap
  <2>1. CASE Open(s) = {}
    BY <2>1, FS_EmptySet
  <2>2. CASE Open(s) # {}
    <3>1. PICK o \in Open(s) : TRUE
      BY <2>2
    <3>2. Open(s) = {o}
      BY <1>1, <3>1 DEF SInv, OneOpen
    <3> QED BY <3>2, FS_Singleton
  <2> QED BY <2>1, <2>2
<1> QED BY <1>1, AlwaysSInv, PTL

(* A poll that is going on began in the past.                              *)
PollsStarted == \A d \in Dispatchers : dispatcher[d].now <= clock

LEMMA AlwaysPollsStarted == SchedulingSpec => []PollsStarted
<1>1. SchedulingInit => PollsStarted
  BY DEF SchedulingInit, PollsStarted, Resting
<1>2. SInv /\ PollsStarted /\ [SchedulingNext]_allVars => PollsStarted'
  <2> SUFFICES ASSUME SInv, PollsStarted, [SchedulingNext]_allVars PROVE PollsStarted'
    OBVIOUS
  <2> USE DEF SInv, SchedulingTypeOK, PollsStarted
  <2>1. ASSUME NEW d \in Dispatchers, Poll(d) \/ PollFails(d) PROVE PollsStarted'
    BY <2>1 DEF Poll, PollFails, Resting
  <2>2. ASSUME NEW d \in Dispatchers, Dispatch(d) PROVE PollsStarted'
    <3>1. clock' = clock
      BY <2>2 DEF Dispatch, LockSchedule, SkipOverlap, LeaveDue, Admit, DispatchRun, schedulingVars
    <3>2. CASE Release(d)
      BY <3>1, <3>2 DEF Release
    <3>3. ASSUME NEW s \in Schedules, LockSchedule(d, s) PROVE PollsStarted'
      BY <3>1, <3>3 DEF LockSchedule
    <3> QED BY <2>2, <3>1, <3>2, <3>3 DEF Dispatch, SkipOverlap, LeaveDue, Admit, DispatchRun,
               schedulingVars
  <2>3. CASE Tick
    BY <2>3 DEF Tick
  <2>4. CASE UNCHANGED <<clock, dispatcher>>
    BY <2>4
  <2> QED BY <2>1, <2>2, <2>3, <2>4 DEF SchedulingNext, Register, Disable, Disabled, Submission,
             QueueMoves, RunEnds, allVars, schedulingVars
<1> QED BY <1>1, <1>2, AlwaysSInv, PTL DEF SchedulingSpec

(* A due slot is passed with a run or as skipped, never with both or       *)
(* neither; the slots missed behind it were due, and have neither.         *)
THEOREM SettlesOccurrences == SchedulingSpec => OccurrenceIsSettled
<1> DEFINE A == \A s \in Schedules :
                  LET due  == schedule[s].next
                      next == schedule'[s].next IN
                  schedule[s].status # "absent" /\ next # due =>
                    /\ (run'[<<s, due>>] # "none") # (<<s, due>> \in skipped')
                    /\ due < next
                    /\ \A n \in due + 1 .. next - 1 :
                         n <= clock /\ run'[<<s, n>>] = "none" /\ <<s, n>> \notin skipped'
<1>1. ASSUME SInv, PollsStarted, [SchedulingNext]_allVars PROVE A
  <2> SUFFICES ASSUME NEW s \in Schedules, schedule[s].status # "absent",
                      schedule'[s].next # schedule[s].next
               PROVE  /\ (run'[<<s, schedule[s].next>>] # "none")
                           # (<<s, schedule[s].next>> \in skipped')
                      /\ schedule[s].next < schedule'[s].next
                      /\ \A n \in schedule[s].next + 1 .. schedule'[s].next - 1 :
                           n <= clock /\ run'[<<s, n>>] = "none" /\ <<s, n>> \notin skipped'
    OBVIOUS
  <2> DEFINE o == <<s, schedule[s].next>>
  <2>1. o \in Occurrences /\ o \in Calls
    BY <1>1, SchedulingAssumption DEF SInv, SchedulingTypeOK, Occurrences
  <2>2. schedule[s].next \in Slots /\ schedule[s].next \in Nat /\ clock \in Nat
    BY <1>1, SchedulingAssumption DEF SInv, SchedulingTypeOK, Slots
  <2>3. ASSUME NEW t \in Slots, schedule[s].next <= t
        PROVE  <<s, t>> \in Calls /\ run[<<s, t>>] = "none" /\ <<s, t>> \notin skipped
    BY <1>1, <2>3, SchedulingAssumption DEF SInv, FutureIsClean, Occurrences
  <2>4. ASSUME NEW d \in Dispatchers, NEW p \in Occurrences, SkipOverlap(d, p) \/ DispatchRun(d, p)
        PROVE  /\ p = o /\ schedule'[s].next = dispatcher[d].now + 1
               /\ schedule[s].next <= dispatcher[d].now
               /\ dispatcher[d].now <= clock /\ dispatcher[d].now \in 0 .. MaxClock
    <3>1. PICK u \in Schedules, t \in Slots : p = <<u, t>>
      BY DEF Occurrences
    <3>2. /\ schedule[u].next = t /\ schedule' = Passed(u, dispatcher[d].now)
          /\ t <= dispatcher[d].now
      BY <1>1, <2>4, <3>1 DEF SInv, LockedIsDue, SkipOverlap, DispatchRun, Locked
    <3>3. p = o
      BY <1>1, <3>1, <3>2 DEF SInv, SchedulingTypeOK, Passed
    <3>4. dispatcher[d].now <= clock /\ dispatcher[d].now \in 0 .. MaxClock
      BY <1>1 DEF PollsStarted, SInv, SchedulingTypeOK
    <3> QED BY <1>1, <3>1, <3>2, <3>3, <3>4 DEF SInv, SchedulingTypeOK, Passed
  <2>5. ASSUME NEW d \in Dispatchers, NEW p \in Occurrences, SkipOverlap(d, p) \/ DispatchRun(d, p)
        PROVE  /\ (run'[o] # "none") # (o \in skipped')
               /\ \A t \in Slots : schedule[s].next < t =>
                    run'[<<s, t>>] = "none" /\ <<s, t>> \notin skipped'
    <3>1. p = o
      BY <2>4, <2>5
    <3>2. CASE SkipOverlap(d, p)
      <4>1. run' = run /\ skipped' = skipped \cup {o}
        BY <3>1, <3>2 DEF SkipOverlap
      <4>2. run'[o] = "none" /\ o \in skipped'
        BY <2>2, <2>3, <4>1
      <4>3. \A t \in Slots : schedule[s].next < t => <<s, t>> # o
        BY <2>2
      <4> HIDE DEF o
      <4> QED BY <2>2, <2>3, <4>1, <4>2, <4>3 DEF Slots
    <3>3. CASE DispatchRun(d, p)
      <4>1. Insert(p) /\ UNCHANGED skipped
        BY <1>1, <3>3, DispatchInserts DEF DispatchRun
      <4>2. run' = [run EXCEPT ![o] = "queued"]
        BY <3>1, <4>1 DEF Insert
      <4>3. run'[o] = "queued" /\ \A c \in Calls \ {o} : run'[c] = run[c]
        BY <1>1, <2>1, <4>2 DEF SInv, IInv, TypeOK
      <4>4. \A t \in Slots : schedule[s].next < t => <<s, t>> # o
        BY <2>2
      <4> HIDE DEF o
      <4> QED BY <2>2, <2>3, <4>1, <4>3, <4>4 DEF o, Slots
    <3> QED BY <2>5, <3>2, <3>3
  <2>6. ASSUME NEW d \in Dispatchers, NEW p \in Occurrences, SkipOverlap(d, p) \/ DispatchRun(d, p)
        PROVE  /\ (run'[o] # "none") # (o \in skipped')
               /\ schedule[s].next < schedule'[s].next
               /\ \A n \in schedule[s].next + 1 .. schedule'[s].next - 1 :
                    n <= clock /\ run'[<<s, n>>] = "none" /\ <<s, n>> \notin skipped'
    <3>1. schedule[s].next < schedule'[s].next
      BY <2>2, <2>4, <2>6, SchedulingAssumption
    <3>2. ASSUME NEW n \in schedule[s].next + 1 .. schedule'[s].next - 1
          PROVE  n \in Slots /\ schedule[s].next < n /\ n <= clock
      BY <2>2, <2>4, <2>6, SchedulingAssumption DEF Slots
    <3> HIDE DEF o
    <3> QED BY <2>5, <2>6, <3>1, <3>2
  <2>7. ASSUME NEW u \in Schedules, Register(u) \/ Disable(u)
        PROVE  FALSE
    BY <1>1, <2>7 DEF SInv, SchedulingTypeOK, Register, Disable, Disabled
  <2>8. CASE UNCHANGED schedule
    BY <2>8
  <2> HIDE DEF o
  <2> QED BY <1>1, <2>6, <2>7, <2>8 DEF o, SchedulingNext, Dispatch, Poll, LockSchedule, LeaveDue,
             Admit, PollFails, Submission, QueueMoves, RunEnds, Tick, allVars, schedulingVars
<1>2. SInv /\ PollsStarted /\ [SchedulingNext]_allVars => [A]_allVars
  BY <1>1
<1>3. [][A]_allVars <=> OccurrenceIsSettled
  BY DEF OccurrenceIsSettled
<1> HIDE DEF A
<1> QED BY <1>2, <1>3, AlwaysSInv, AlwaysPollsStarted, PTL DEF SchedulingSpec

(* A disabled schedule starts no run, not even by a dispatcher that found  *)
(* it due before: the row is locked, and looked at again under the lock.   *)
THEOREM DisabledStaysQuiet == SchedulingSpec => DisabledIsQuiet
<1> DEFINE A == \A s \in Schedules :
                  schedule[s].status = "disabled"
                    => \A o \in Of(s) : run[o] = "none" => run'[o] = "none"
<1>1. ASSUME SInv, [SchedulingNext]_allVars PROVE A
  <2> SUFFICES ASSUME NEW s \in Schedules, schedule[s].status = "disabled",
                      NEW o \in Of(s), run[o] = "none"
               PROVE  run'[o] = "none"
    OBVIOUS
  <2>1. o \in Occurrences /\ o \in Calls /\ o[1] = s
    BY SchedulingAssumption DEF Of
  <2>2. ASSUME NEW d \in Dispatchers, NEW p \in Occurrences, DispatchRun(d, p)
        PROVE  run'[o] = "none"
    <3>1. Insert(p) /\ schedule[p[1]].status = "active"
      BY <1>1, <2>2, DispatchInserts
    <3>2. p # o
      BY <2>1, <3>1
    <3> QED BY <2>1, <3>1, <3>2, <1>1 DEF SInv, IInv, TypeOK, Insert
  <2>3. ASSUME NEW c \in Requests, Submission(c)
        PROVE  run'[o] = "none"
    <3>1. c # o
      BY <2>1 DEF Requests
    <3> QED BY <1>1, <2>1, <2>3, <3>1 DEF SInv, IInv, TypeOK, Submission, LookUp, CheckAdmission,
               PostgresSave, Retry, Insert
  <2>4. ASSUME NEW c \in Calls, QueueMoves(c)
        PROVE  run'[o] = "none"
    BY <1>1, <2>1, <2>4 DEF SInv, IInv, TypeOK, QueueMoves, LeaveQueue, ReturnToQueue, Queue
  <2>5. CASE UNCHANGED run
    BY <2>5
  <2> QED BY <1>1, <2>2, <2>3, <2>4, <2>5 DEF SchedulingNext, Dispatch, Poll, LockSchedule,
             SkipOverlap, LeaveDue, Admit, CheckAdmission, PollFails, Register, Disable, Disabled,
             RunEnds, Tick, allVars, vars
<1>2. SInv /\ [SchedulingNext]_allVars => [A]_allVars
  BY <1>1
<1>3. [][A]_allVars <=> DisabledIsQuiet
  BY DEF DisabledIsQuiet
<1> HIDE DEF A
<1> QED BY <1>2, <1>3, AlwaysSInv, PTL DEF SchedulingSpec
=============================================================================
