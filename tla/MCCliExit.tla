----------------------------- MODULE MCCliExit -----------------------------
(* One console session, two lanes, one supervised adapter.                  *)
EXTENDS CliGateway

MCLaneOfKey == [session \in Sessions |-> "lane1"]
=============================================================================
