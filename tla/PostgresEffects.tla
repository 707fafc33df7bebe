--------------------------- MODULE PostgresEffects ---------------------------
(***************************************************************************)
(* PostgresEffectIdempotencyStore: the reservation is one upsert that only *)
(* takes an absent or a failed key, and the outcome is recorded by updates *)
(* that require the reservation to be there still.                         *)
(***************************************************************************)
EXTENDS EffectCalls

TypeOK == EffectTypeOK

Init == EffectInit

Reserve_Always(c) ==
  /\ pc[c] = "called"
  /\ effect' = Reserved
  /\ Move(c, "reserved")
  /\ UNCHANGED <<answer, performed>>

(* INSERT ... ON CONFLICT DO UPDATE ... WHERE status = 'failed', and the   *)
(* SELECT of the same transaction when nothing was written.                *)
Reserve(c) ==
  /\ pc[c] = "called"
  /\ \/ /\ effect.status \in {"absent", "failed"}
        /\ effect' = Reserved
        /\ Move(c, "reserved")
        /\ UNCHANGED <<answer, performed>>
     \/ effect.status = "completed" /\ Cached(c)
     \/ effect.status = "pending" /\ Busy(c)

RecordCompletion_ResultDropped(c) ==
  /\ pc[c] = "returned"
  /\ IF effect.status = "pending"
     THEN /\ effect' = [status |-> "completed", result |-> None]
          /\ Move(c, "executed")
          /\ answer' = [answer EXCEPT ![c] = c]
     ELSE Move(c, "lost") /\ UNCHANGED <<effect, answer>>
  /\ UNCHANGED performed

RecordCompletion(c) ==
  /\ pc[c] = "returned"
  /\ IF effect.status = "pending"
     THEN /\ effect' = Completed(c)
          /\ Move(c, "executed")
          /\ answer' = [answer EXCEPT ![c] = c]
     ELSE Move(c, "lost") /\ UNCHANGED <<effect, answer>>
  /\ UNCHANGED performed

RecordFailure(c) ==
  /\ pc[c] = "raised"
  /\ IF effect.status = "pending"
     THEN effect' = [effect EXCEPT !.status = "failed"] /\ Move(c, "failed")
     ELSE Move(c, "lost") /\ UNCHANGED effect
  /\ UNCHANGED <<answer, performed>>

Next == \E c \in Calls :
  \/ Reserve(c) \/ Perform(c) \/ PerformFails(c)
  \/ RecordCompletion(c) \/ RecordFailure(c) \/ Crash(c)

Spec == Init /\ [][Next]_effectVars

-----------------------------------------------------------------------------
(* Why this store can promise the above: a call at work holds the pending  *)
(* row, alone, and a completed row names the one call that executed.       *)
Reservation ==
  /\ \A c \in Calls : AtWork(c) => effect.status = "pending"
  /\ \A c \in Calls : pc[c] = "returned" => c \in performed
  /\ \A c \in Calls : pc[c] = "executed" => answer[c] = c
  /\ effect.status = "completed" => effect.result \in performed

(* The RuntimeErrors "Effect claim was lost" cannot be raised: a           *)
(* reservation belongs to its call until that call records its outcome.    *)
ClaimIsNeverLost == \A c \in Calls : pc[c] # "lost"
=============================================================================
