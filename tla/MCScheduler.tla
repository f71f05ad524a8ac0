---------------------------- MODULE MCScheduler ----------------------------
(* Instances of Scheduler for TLC. *)
EXTENDS Scheduler, TLC

CONSTANTS a1, a2, b   (* job objects; a1 and a2 have the same id *)

MCId == [j \in Jobs |-> IF j \in {a1, a2} THEN "a" ELSE "b"]
MCPeriod == [j \in Jobs |-> IF j \in CronJobs THEN 2 ELSE 1]
=============================================================================
