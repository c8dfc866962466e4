--------------------------- MODULE MCSessionTurn ---------------------------
(* Two requests of one chat, one of them with a contract that wants an      *)
(* artifact; the other numbers are in the configurations.                  *)
EXTENDS SessionTurn

MCRequests == {"r1", "r2"}
MCContracted == {"r1"}
=============================================================================
