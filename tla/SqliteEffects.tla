---------------------------- MODULE SqliteEffects ----------------------------
(***************************************************************************)
(* EffectIdempotencyStore: the key is looked up in one statement and       *)
(* reserved by another (INSERT OR REPLACE), and sqlite3 begins its         *)
(* transaction at the second.  The updates that record the outcome name    *)
(* the key only.                                                           *)
(***************************************************************************)
EXTENDS EffectCalls

TypeOK == EffectTypeOK

Init == EffectInit

LookUp(c) ==
  /\ pc[c] = "called"
  /\ \/ effect.status = "completed" /\ Cached(c)
     \/ effect.status = "pending" /\ Busy(c)
     \/ /\ effect.status \in {"absent", "failed"}
        /\ Move(c, "checked")
        /\ UNCHANGED <<effect, answer, performed>>

Reserve(c) ==
  /\ pc[c] = "checked"
  /\ effect' = Reserved
  /\ Move(c, "reserved")
  /\ UNCHANGED <<answer, performed>>

RecordCompletion(c) ==
  /\ pc[c] = "returned"
  /\ effect' = Completed(c)
  /\ Move(c, "executed")
  /\ answer' = [answer EXCEPT ![c] = c]
  /\ UNCHANGED performed

(* The UPDATE to 'completed' is inside the try block: when it raises, an   *)
(* effect that has taken place is recorded as failed.                      *)
CompletionFails(c) ==
  /\ pc[c] = "returned"
  /\ Move(c, "raised")
  /\ UNCHANGED <<effect, answer, performed>>

(* The stored result stays where it was.                                   *)
RecordFailure(c) ==
  /\ pc[c] = "raised"
  /\ effect' = [effect EXCEPT !.status = "failed"]
  /\ Move(c, "failed")
  /\ UNCHANGED <<answer, performed>>

Next == \E c \in Calls :
  \/ LookUp(c) \/ Reserve(c) \/ Perform(c) \/ PerformFails(c)
  \/ RecordCompletion(c) \/ CompletionFails(c) \/ RecordFailure(c) \/ Crash(c)

Spec == Init /\ [][Next]_effectVars
=============================================================================
