----------------------------- MODULE MCScheduler -----------------------------
(* Dates and periods for the schedules of Scheduler.                       *)
EXTENDS Scheduler

CONSTANTS o, r

MCAt == [i \in Once |-> 2]
MCPeriod == [i \in Recurring |-> 2]
=============================================================================
