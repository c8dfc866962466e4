---------------------------- MODULE DurableQueue ----------------------------
(***************************************************************************)
(* What the durable queue promises of a message: it is in one worker's hand *)
(* at a time; a claim ends acknowledged, and then the message was delivered, *)
(* failed, or abandoned; the dead letters get the message at the failure    *)
(* that uses up its attempts, again after every replay.  A claim that is    *)
(* abandoned is nobody's for good: no worker takes the message over.        *)
(***************************************************************************)
EXTENDS Naturals

CONSTANTS Messages, Workers, MaxAttempts, None

VARIABLES phase, holder, tries, delivered

vars == <<phase, holder, tries, delivered>>

Init ==
  /\ phase = [m \in Messages |-> "absent"]
  /\ holder = [m \in Messages |-> None]
  /\ tries = [m \in Messages |-> 0]
  /\ delivered = {}

Goes(m, from, to) == phase[m] = from /\ phase' = [phase EXCEPT ![m] = to]
LetGo(m) == holder' = [holder EXCEPT ![m] = None]

Put(m) == Goes(m, "absent", "pending") /\ UNCHANGED <<holder, tries, delivered>>

Take(m, w) ==
  /\ \A other \in Messages : holder[other] # w
  /\ Goes(m, "pending", "held")
  /\ holder' = [holder EXCEPT ![m] = w]
  /\ UNCHANGED <<tries, delivered>>

(* The recipient gets the text: from the worker, or from the sender before  *)
(* the message was queued.                                                  *)
Deliver(m) == delivered' = delivered \cup {m} /\ UNCHANGED <<phase, holder, tries>>

Acknowledge(m) ==
  /\ m \in delivered
  /\ Goes(m, "held", "acked")
  /\ LetGo(m)
  /\ UNCHANGED <<tries, delivered>>

Fail(m) ==
  /\ Goes(m, "held", IF tries[m] + 1 >= MaxAttempts THEN "dead" ELSE "pending")
  /\ tries' = [tries EXCEPT ![m] = @ + 1]
  /\ LetGo(m)
  /\ UNCHANGED delivered

Abandon(m) == Goes(m, "held", "stranded") /\ LetGo(m) /\ UNCHANGED <<tries, delivered>>

Replay(m) == Goes(m, "dead", "pending") /\ UNCHANGED <<holder, tries, delivered>>

Next ==
  \E m \in Messages :
    \/ Put(m) \/ Deliver(m) \/ Acknowledge(m) \/ Fail(m) \/ Abandon(m) \/ Replay(m)
    \/ \E w \in Workers : Take(m, w)

Spec == Init /\ [][Next]_vars
=============================================================================
