-------------------------- MODULE MCResourceLease --------------------------
(***************************************************************************)
(* A small instance of ResourceLease: requests take one of two channel      *)
(* slots, then the only user slot; one of them tries a key twice, as a tool *)
(* call does.  The callers of process p die when it crashes.                *)
(***************************************************************************)
EXTENDS ResourceLease

OwnHolder == [c \in Callers |-> c]
ProcessOf == [c \in Callers |-> IF c = "a" THEN "p" ELSE "q"]

QuotaLastStage == [c \in Callers |-> 2]
QuotaSlots == [c \in Callers |-> <<<<"channel0", "channel1">>, <<"user0">>>>]
QuotaAttempts == [c \in Callers |-> IF c = "a" THEN 1 ELSE 2]
=============================================================================
