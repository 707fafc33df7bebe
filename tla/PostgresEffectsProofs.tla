----------------------- MODULE PostgresEffectsProofs -----------------------
(***************************************************************************)
(* Proofs about PostgresEffects for every set of calls.                    *)
(***************************************************************************)
EXTENDS PostgresEffects, TLAPS

IInv ==
  /\ TypeOK
  /\ SingleFlight
  /\ Reservation
  /\ OneResultForAll
  /\ ClaimIsNeverLost

(* The first call finds no row, so nothing is at work or answered.         *)
LEMMA InitIInv == Init => IInv
  BY NoneIsNoCall DEF Init, EffectInit, IInv, TypeOK, EffectTypeOK, Stages, Endings,
     SingleFlight, AtWork, Reservation, OneResultForAll, ClaimIsNeverLost

(* Every step of a call keeps the reservation with the one call at work.   *)
LEMMA StepIInv == IInv /\ [Next]_effectVars => IInv'
<1> SUFFICES ASSUME IInv, [Next]_effectVars PROVE IInv'
  OBVIOUS
<1> USE NoneIsNoCall DEF IInv, TypeOK, EffectTypeOK, Stages, Endings, SingleFlight,
        AtWork, Reservation, OneResultForAll, ClaimIsNeverLost, Completed, Move
<1>1. CASE UNCHANGED effectVars
  BY <1>1 DEF effectVars
<1>2. ASSUME NEW c \in Calls, Reserve(c) PROVE IInv'
  <2>1. CASE effect.status \in {"absent", "failed"}
    BY <1>2, <2>1 DEF Reserve, Reserved
  <2>2. CASE effect.status = "completed"
    BY <1>2, <2>2 DEF Reserve, Cached
  <2>3. CASE effect.status = "pending"
    BY <1>2, <2>3 DEF Reserve, Busy
  <2> QED BY <2>1, <2>2, <2>3
<1>3. ASSUME NEW c \in Calls, Perform(c) PROVE IInv'
  BY <1>3 DEF Perform
<1>4. ASSUME NEW c \in Calls, PerformFails(c) PROVE IInv'
  BY <1>4 DEF PerformFails
<1>5. ASSUME NEW c \in Calls, RecordCompletion(c) PROVE IInv'
  BY <1>5 DEF RecordCompletion
<1>6. ASSUME NEW c \in Calls, RecordFailure(c) PROVE IInv'
  BY <1>6 DEF RecordFailure
<1>7. ASSUME NEW c \in Calls, Crash(c) PROVE IInv'
  BY <1>7 DEF Crash
<1> QED BY <1>1, <1>2, <1>3, <1>4, <1>5, <1>6, <1>7 DEF Next

LEMMA AlwaysIInv == Spec => []IInv
  BY InitIInv, StepIInv, PTL DEF Spec

(* The state of the calls and of the row is always well formed.            *)
THEOREM TypeCorrect == Spec => []TypeOK
<1>1. IInv => TypeOK
  BY DEF IInv
<1> QED BY <1>1, AlwaysIInv, PTL

(* At any moment at most one call performs the effect or has yet to record *)
(* what came of it.                                                        *)
THEOREM AlwaysSingleFlight == Spec => []SingleFlight
<1>1. IInv => SingleFlight
  BY DEF IInv
<1> QED BY <1>1, AlwaysIInv, PTL

(* All calls that return a result return the one the row holds.            *)
THEOREM AlwaysOneResult == Spec => []OneResultForAll
<1>1. IInv => OneResultForAll
  BY DEF IInv
<1> QED BY <1>1, AlwaysIInv, PTL

(* The "claim was lost" errors of the store cannot be raised.              *)
THEOREM NeverLost == Spec => []ClaimIsNeverLost
<1>1. IInv => ClaimIsNeverLost
  BY DEF IInv
<1> QED BY <1>1, AlwaysIInv, PTL

(* At most one call ever reports that it executed the effect.              *)
THEOREM AtMostOneExecution == Spec => []ExecutedAtMostOnce
<1>1. IInv => ExecutedAtMostOnce
  BY DEF IInv, Reservation, OneResultForAll, ExecutedAtMostOnce, Completed
<1> QED BY <1>1, AlwaysIInv, PTL

(* Once the row is completed neither it nor the set of performed effects   *)
(* changes again.                                                          *)
THEOREM CompletedStays == Spec => CompletedIsFinal
<1>1. IInv /\ [Next]_effectVars =>
        [effect.status = "completed" => effect' = effect /\ performed' = performed]_effectVars
  <2> SUFFICES ASSUME IInv, Next, effect.status = "completed"
               PROVE  effect' = effect /\ performed' = performed
    OBVIOUS
  <2>1. \A c \in Calls : ~AtWork(c)
    BY DEF IInv, Reservation
  <2> QED BY <2>1 DEF Next, Reserve, Cached, Perform, PerformFails, RecordCompletion,
             RecordFailure, Crash, AtWork
<1> QED BY <1>1, AlwaysIInv, PTL DEF Spec, CompletedIsFinal
=============================================================================
