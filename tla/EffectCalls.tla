----------------------------- MODULE EffectCalls -----------------------------
(***************************************************************************)
(* Calls of execute_idempotent_effect with one (project, key, type): what  *)
(* both effect stores share.  A call reserves the row of the key, performs *)
(* the effect outside every transaction, and records what came of it.      *)
(***************************************************************************)
CONSTANTS
  Calls,   \* the calls ever made with this key
  None     \* no result, no answer

ASSUME NoneIsNoCall == None \notin Calls

VARIABLES
  effect,     \* the row of external_effects: status, and whose result it holds
  pc,         \* where each call is, then how it ended
  answer,     \* whose result a call that returned gave to its caller
  performed   \* the calls whose effect has taken place

effectVars == <<effect, pc, answer, performed>>

(* "checked": has read the row but not reserved it (SQLite only).          *)
(* "returned", "raised": fn is over, its outcome not recorded yet.         *)
Stages == {"called", "checked", "reserved", "returned", "raised"}

(* "executed" and "cached" return a result.  "busy" raises                 *)
(* EffectAlreadyInProgressError, "failed" the exception of fn, "lost" the  *)
(* RuntimeError of a claim that was taken away.  "dead" is a call whose    *)
(* process crashed or whose database access raised.                        *)
Endings == {"executed", "cached", "busy", "failed", "lost", "dead"}

EffectTypeOK ==
  /\ effect \in [status: {"absent", "pending", "completed", "failed"},
                 result: Calls \cup {None}]
  /\ pc \in [Calls -> Stages \cup Endings]
  /\ answer \in [Calls -> Calls \cup {None}]
  /\ performed \subseteq Calls

EffectInit ==
  /\ effect = [status |-> "absent", result |-> None]
  /\ pc = [c \in Calls |-> "called"]
  /\ answer = [c \in Calls |-> None]
  /\ performed = {}

-----------------------------------------------------------------------------
Move(c, to) == pc' = [pc EXCEPT ![c] = to]

Reserved == [status |-> "pending", result |-> None]

Completed(c) == [status |-> "completed", result |-> c]

(* A second look at a completed key returns the stored result.             *)
Cached(c) ==
  /\ Move(c, "cached")
  /\ answer' = [answer EXCEPT ![c] = effect.result]
  /\ UNCHANGED <<effect, performed>>

Busy(c) ==
  /\ Move(c, "busy")
  /\ UNCHANGED <<effect, answer, performed>>

(* fn returns a result that json.dumps encodes.                            *)
Perform(c) ==
  /\ pc[c] = "reserved"
  /\ Move(c, "returned")
  /\ performed' = performed \cup {c}
  /\ UNCHANGED <<effect, answer>>

(* fn raises before it has done anything, or json.dumps rejects the result *)
(* of an effect that has taken place.                                      *)
PerformFails(c) ==
  /\ pc[c] = "reserved"
  /\ Move(c, "raised")
  /\ performed' \in {performed, performed \cup {c}}
  /\ UNCHANGED <<effect, answer>>

(* The process of the call dies: nobody takes the reservation back.        *)
Crash(c) ==
  /\ pc[c] \in Stages
  /\ Move(c, "dead")
  /\ UNCHANGED <<effect, answer, performed>>

-----------------------------------------------------------------------------
(* Every call that returns a result gives the result of the same           *)
(* performance: the one the row holds.                                     *)
OneResultForAll ==
  \A c \in Calls : pc[c] \in {"executed", "cached"} =>
    /\ effect = Completed(answer[c])
    /\ answer[c] \in performed

AtWork(c) == pc[c] \in {"reserved", "returned", "raised"}

(* Never two calls at work on the effect at the same time.                 *)
SingleFlight ==
  \A c, d \in Calls : AtWork(c) /\ AtWork(d) => c = d

(* What was recorded as completed is not performed again, nor is its       *)
(* result replaced: not after a failure, a retry or a late caller.         *)
CompletedIsFinal ==
  [][effect.status = "completed" =>
       effect' = effect /\ performed' = performed]_effectVars

(* Whatever the number of calls, one of them executes the effect and the   *)
(* others are served from its record.                                      *)
ExecutedAtMostOnce ==
  \A c, d \in Calls : pc[c] = "executed" /\ pc[d] = "executed" => c = d
=============================================================================
