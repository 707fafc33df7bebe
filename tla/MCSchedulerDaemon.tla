-------------------------- MODULE MCSchedulerDaemon --------------------------
(* An instance of SchedulerDaemon for TLC: two jobs, whose policies an     *)
(* edit of the registry changes so that each of the four occurs.           *)
EXTENDS SchedulerDaemon

TwoRegistries ==
  [e \in 0 .. MaxEdits |->
     [j \in Jobs |-> IF e = 0 THEN (IF j = 1 THEN "catch_up" ELSE "once")
                              ELSE (IF j = 1 THEN "run_once" ELSE "skip")]]
=============================================================================
