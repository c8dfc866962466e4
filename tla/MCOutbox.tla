------------------------------ MODULE MCOutbox ------------------------------
(***************************************************************************)
(* Small instances of Outbox.  The first two senders send one response, as  *)
(* for a request handled twice, the third sends another.                    *)
(***************************************************************************)
EXTENDS Outbox

Responses == [s \in Senders |-> IF s = "s3" THEN "f" ELSE "e"]
Places == [s \in Senders |-> IF s = "s2" THEN "q" ELSE "p"]
=============================================================================
