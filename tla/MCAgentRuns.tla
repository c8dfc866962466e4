---------------------------- MODULE MCAgentRuns ----------------------------
(***************************************************************************)
(* Small instances of AgentRuns: one client cancels runs, the others retry  *)
(* them and take them over.                                                 *)
(***************************************************************************)
EXTENDS AgentRuns

CONSTANT Canceller

Roles ==
  [c \in Clients |-> IF c = Canceller THEN {"cancel"} ELSE {"retry", "takeover"}]
=============================================================================
