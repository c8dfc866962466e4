---------------------------- MODULE MCScheduler ----------------------------
(***************************************************************************)
(* Small instances of Scheduler.  The job "once" is due at time 1, the job  *)
(* "rep" repeats every tick.                                                *)
(***************************************************************************)
EXTENDS Scheduler

DueAtOne == [j \in Jobs |-> 1]
EveryTick == [j \in Jobs |-> 1]
OrdersOnRep == {"add", "remove"} \X (Jobs \ Once)
AllJobs == [n \in Nodes |-> Jobs]
=============================================================================
