-------------------------- MODULE SnapshotRegister --------------------------
(***************************************************************************)
(* What the store of dashboard generations promises: a register.  Writers  *)
(* publish the state of the inputs in it, never an older one than it       *)
(* holds; a reader sees, for as long as it reads, what the register held   *)
(* when it looked.  Files, directories, their collection, and processes    *)
(* that die half way are not visible here.                                 *)
(***************************************************************************)
EXTENDS Naturals

CONSTANTS Readers, None

VARIABLES
  current,   \* version of the inputs that is published, 0 before the first
  view       \* what each reader reads, None while it does not

Init == current = 0 /\ view = [r \in Readers |-> None]

Publish ==
  /\ current' \in Nat /\ current' >= current
  /\ UNCHANGED view

Look(r) ==
  /\ view[r] = None
  /\ current # 0
  /\ view' = [view EXCEPT ![r] = current]
  /\ UNCHANGED current

Leave(r) ==
  /\ view' = [view EXCEPT ![r] = None]
  /\ UNCHANGED current

Next == Publish \/ \E r \in Readers : Look(r) \/ Leave(r)

Spec == Init /\ [][Next]_<<current, view>>
=============================================================================
