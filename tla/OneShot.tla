------------------------------ MODULE OneShot ------------------------------
(***************************************************************************)
(* What the scheduler promises for a one-shot job: it is scheduled, it is   *)
(* dispatched, it runs once, and it is settled only after it ran.  Nothing  *)
(* ever moves it back.                                                      *)
(***************************************************************************)
EXTENDS Naturals

CONSTANT Jobs

VARIABLES phase, ran

Phases == {"absent", "scheduled", "dispatched", "settled"}

Init ==
  /\ phase = [j \in Jobs |-> "absent"]
  /\ ran = [j \in Jobs |-> 0]

Move(j, from, to) == phase[j] = from /\ phase' = [phase EXCEPT ![j] = to]

Schedule(j) == Move(j, "absent", "scheduled") /\ UNCHANGED ran

Dispatch(j) == Move(j, "scheduled", "dispatched") /\ UNCHANGED ran

Run(j) ==
  /\ phase[j] = "dispatched"
  /\ ran[j] = 0
  /\ ran' = [ran EXCEPT ![j] = 1]
  /\ UNCHANGED phase

Settle(j) == Move(j, "dispatched", "settled") /\ ran[j] = 1 /\ UNCHANGED ran

Next == \E j \in Jobs : Schedule(j) \/ Dispatch(j) \/ Run(j) \/ Settle(j)

Spec == Init /\ [][Next]_<<phase, ran>>
=============================================================================
