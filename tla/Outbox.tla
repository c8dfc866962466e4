------------------------------- MODULE Outbox -------------------------------
(***************************************************************************)
(* Outbound deliveries.  A response is sent to its channel at once; if that *)
(* fails, a worker tries again later.  A single process looks for deliveries*)
(* marked failed; in a cluster the response goes to a durable queue, whose  *)
(* messages the workers of all nodes claim, acknowledge or fail, and which  *)
(* moves a message to the dead letters after MaxAttempts failures.          *)
(***************************************************************************)
EXTENDS Naturals, FiniteSets

CONSTANTS
  Envelopes,    (* envelope ids, a hash of request, channel and text        *)
  Senders,      (* tasks that send a response                               *)
  EnvelopeOf,   (* what a sender sends                                      *)
  Nodes,        (* each runs one retry worker                               *)
  HostOf,       (* the node a sender runs on                                *)
  Main,         (* the node of a deployment that is not a cluster           *)
  Modes,        (* which deployments: TRUE is a cluster                     *)
  Fickle,       (* envelopes whose recipient connects and disconnects       *)
  MaxAttempts,  (* worker failures before the dead letters (3)              *)
  Limit,        (* deliveries a pass looks at (64)                          *)
  None,
  MaxSends,     (* bound: responses sent                                    *)
  MaxReplays,   (* bound: dead letters an operator replays                  *)
  MaxFaults     (* bound: store and transport errors and nodes that die     *)

Tasks == Senders \cup Nodes

ASSUME OutboxAssumption ==
  /\ Senders \cap Nodes = {} /\ None \notin Envelopes \cup Nodes
  /\ EnvelopeOf \in [Senders -> Envelopes] /\ HostOf \in [Senders -> Nodes]
  /\ Main \in Nodes /\ Modes \subseteq BOOLEAN /\ Fickle \subseteq Envelopes
  /\ MaxAttempts \in Nat \ {0} /\ Limit \in Nat \ {0}
  /\ MaxSends \in Nat /\ MaxReplays \in Nat /\ MaxFaults \in Nat

(* A delivery is kept with the time its envelope was made.                  *)
Delivery == [status : {"sent", "failed"}, stamp : Nat]

Message ==
  [status : {"Pending", "Claimed", "Acked", "DeadLetter"}, attempts : Nat,
   by : Nodes \cup {None}, stamp : Nat]

Item == [env : Envelopes, stamp : Nat]

Task ==
  [at : {"next", "check", "send", "record", "enqueue", "settle"}, item : Item \cup {None},
   ok : BOOLEAN, todo : SUBSET Item]

ASSUME NoneAssumption == None \notin Delivery \cup Message \cup Item \cup Task

VARIABLES
  cluster,    (* config.cluster.is_cluster()                                *)
  delivery,   (* outbound_deliveries                                        *)
  msg,        (* durable_queue_messages; the message id holds the envelope's*)
  dlq,        (* durable_queue_dlq: how many rows a message has there       *)
  task,       (* what a sender or a worker has in hand                      *)
  up,         (* envelopes whose recipient can be reached                   *)
  clock,      (* the time, one tick for each envelope made                  *)
  reached,    (* auxiliary: envelopes their recipient got                   *)
  rounds,     (* auxiliary: how often a worker sent a queued message        *)
  replays,    (* auxiliary: how often a message was replayed                *)
  faults

vars == <<cluster, delivery, msg, dlq, task, up, clock, reached, rounds, replays, faults>>
queue == <<msg, dlq, replays>>
outside == <<cluster, up, clock>>

Recorded(e) == delivery[e] # None
Failed(e) == Recorded(e) /\ delivery[e].status = "failed"
(* is_outbound_delivery_sent.                                               *)
Sent(e) == Recorded(e) /\ delivery[e].status = "sent"

Is(e, status) == msg[e] # None /\ msg[e].status = status

Init ==
  /\ cluster \in Modes
  /\ delivery = [e \in Envelopes |-> None]
  /\ msg = [e \in Envelopes |-> None]
  /\ dlq = [e \in Envelopes |-> 0]
  /\ task = [t \in Tasks |-> None]
  /\ up \in {Envelopes, Envelopes \ Fickle}
  /\ clock = 0
  /\ reached = {}
  /\ rounds = [e \in Envelopes |-> 0]
  /\ replays = [e \in Envelopes |-> 0]
  /\ faults = 0

-----------------------------------------------------------------------------
At(t, place) == task[t] # None /\ task[t].at = place
Env(t) == task[t].item.env
GoOn(t, place) == task' = [task EXCEPT ![t].at = place]
Fault == faults < MaxFaults /\ faults' = faults + 1
NoFault == UNCHANGED faults

Starts(t, place, item) ==
  task' = [task EXCEPT ![t] = [at |-> place, item |-> item, ok |-> FALSE, todo |-> {}]]

(* A worker outside a cluster goes on with its list; the others are done.   *)
Rest(t) ==
  task' = [task EXCEPT ![t] = IF t \in Senders \/ @.todo = {} THEN None
                              ELSE [@ EXCEPT !.at = "next", !.item = None]]

-----------------------------------------------------------------------------
(* What senders and workers have in common.                                 *)

(* The check for a delivery already sent; an error counts as "not sent".    *)
Check(t) ==
  /\ At(t, "check")
  /\ \/ Sent(Env(t)) /\ Rest(t) /\ NoFault
     \/ ~ Sent(Env(t)) /\ GoOn(t, "send") /\ NoFault
     \/ GoOn(t, "send") /\ Fault
  /\ UNCHANGED <<outside, queue, delivery, reached, rounds>>

(* dispatch_outbound_with_retry.  It fails when the recipient cannot be     *)
(* reached or the transport fails; the recipient may have got the text even *)
(* so.                                                                      *)
Dispatch(t) ==
  /\ At(t, "send")
  /\ LET e == Env(t)
         Returns(ok) == task' = [task EXCEPT ![t].at = "record", ![t].ok = ok]
     IN
     /\ \/ e \in up /\ Returns(TRUE) /\ reached' = reached \cup {e} /\ NoFault
        \/ e \notin up /\ Returns(FALSE) /\ UNCHANGED reached /\ NoFault
        \/ e \in up /\ Returns(FALSE) /\ reached' \in {reached, reached \cup {e}} /\ Fault
     /\ rounds' = IF cluster /\ t \in Nodes THEN [rounds EXCEPT ![e] = @ + 1] ELSE rounds
  /\ UNCHANGED <<outside, queue, delivery>>

(* Mutant: a retry that fails is marked in its own way.                     *)
RecordRetrying(t) ==
  /\ At(t, "record")
  /\ LET row == [status |-> IF task[t].ok THEN "sent" ELSE IF t \in Nodes THEN "retrying"
                            ELSE "failed", stamp |-> task[t].item.stamp]
     IN \/ delivery' = [delivery EXCEPT ![Env(t)] = row] /\ NoFault
        \/ UNCHANGED delivery /\ Fault
  /\ IF cluster /\ t \in Nodes THEN GoOn(t, "settle")
     ELSE IF cluster /\ ~ task[t].ok THEN GoOn(t, "enqueue")
     ELSE Rest(t)
  /\ UNCHANGED <<outside, queue, reached, rounds>>

(* record_outbound_delivery, whatever the row says; its error is ignored.   *)
Record(t) ==
  /\ At(t, "record")
  /\ LET row == [status |-> IF task[t].ok THEN "sent" ELSE "failed", stamp |-> task[t].item.stamp]
     IN \/ delivery' = [delivery EXCEPT ![Env(t)] = row] /\ NoFault
        \/ UNCHANGED delivery /\ Fault
  /\ IF cluster /\ t \in Nodes THEN GoOn(t, "settle")
     ELSE IF cluster /\ ~ task[t].ok THEN GoOn(t, "enqueue")
     ELSE Rest(t)
  /\ UNCHANGED <<outside, queue, reached, rounds>>

-----------------------------------------------------------------------------
(* send_universal_response, for one of its targets.                         *)

Respond(s) ==
  /\ task[s] = None
  /\ cluster \/ HostOf[s] = Main
  /\ clock < MaxSends
  /\ clock' = clock + 1
  /\ Starts(s, "check", [env |-> EnvelopeOf[s], stamp |-> clock + 1])
  /\ UNCHANGED <<cluster, up, queue, delivery, reached, rounds, faults>>

NewMessage(t) ==
  [status |-> "Pending", attempts |-> 0, by |-> None, stamp |-> task[t].item.stamp]

(* enqueue_durable_message: INSERT OR IGNORE, its error is ignored.         *)
Enqueue(s) ==
  /\ At(s, "enqueue")
  /\ \/ msg' = [msg EXCEPT ![Env(s)] = IF @ = None THEN NewMessage(s) ELSE @] /\ NoFault
     \/ UNCHANGED msg /\ Fault
  /\ Rest(s)
  /\ UNCHANGED <<outside, dlq, replays, delivery, reached, rounds>>

-----------------------------------------------------------------------------
(* retry_failed_outbound_deliveries_once in a cluster.                      *)

(* Mutant: the claim does not look at the status.                           *)
ClaimAny(n) ==
  /\ cluster /\ task[n] = None
  /\ \E e \in Envelopes :
       /\ Is(e, "Pending") \/ Is(e, "Claimed")
       /\ msg' = [msg EXCEPT ![e].status = "Claimed", ![e].by = n]
       /\ Starts(n, "send", [env |-> e, stamp |-> msg[e].stamp])
  /\ UNCHANGED <<outside, dlq, replays, delivery, reached, rounds, faults>>

(* claim_durable_message, one transaction.                                  *)
Claim(n) ==
  /\ cluster /\ task[n] = None
  /\ \E e \in Envelopes :
       /\ Is(e, "Pending")
       /\ msg' = [msg EXCEPT ![e].status = "Claimed", ![e].by = n]
       /\ Starts(n, "send", [env |-> e, stamp |-> msg[e].stamp])
  /\ UNCHANGED <<outside, dlq, replays, delivery, reached, rounds, faults>>

(* ack_durable_message, by id.                                              *)
Ack(e) ==
  /\ msg' = [msg EXCEPT ![e].status = "Acked", ![e].by = None]
  /\ UNCHANGED <<dlq, replays>>

(* Mutant: a message that goes back keeps its claim.                        *)
FailKeeps(e) ==
  LET tries == msg[e].attempts + 1
      dead == tries >= MaxAttempts
  IN
  /\ msg' = [msg EXCEPT ![e].status = IF dead THEN "DeadLetter" ELSE "Claimed",
                        ![e].attempts = tries]
  /\ dlq' = IF dead THEN [dlq EXCEPT ![e] = @ + 1] ELSE dlq
  /\ UNCHANGED replays

(* Mutant: one attempt more than allowed.                                   *)
FailLate(e) ==
  LET tries == msg[e].attempts + 1
      dead == tries > MaxAttempts
  IN
  /\ msg' = [msg EXCEPT ![e].status = IF dead THEN "DeadLetter" ELSE "Pending",
                        ![e].attempts = tries, ![e].by = None]
  /\ dlq' = IF dead THEN [dlq EXCEPT ![e] = @ + 1] ELSE dlq
  /\ UNCHANGED replays

(* fail_durable_message, one transaction, by id.                            *)
Fail(e) ==
  LET tries == msg[e].attempts + 1
      dead == tries >= MaxAttempts
  IN
  /\ msg' = [msg EXCEPT ![e].status = IF dead THEN "DeadLetter" ELSE "Pending",
                        ![e].attempts = tries, ![e].by = None]
  /\ dlq' = IF dead THEN [dlq EXCEPT ![e] = @ + 1] ELSE dlq
  /\ UNCHANGED replays

(* Mutant: acknowledged whether or not it was sent.                         *)
SettleAcks(n) ==
  /\ At(n, "settle")
  /\ \/ Ack(Env(n)) /\ NoFault
     \/ UNCHANGED queue /\ Fault
  /\ Rest(n)
  /\ UNCHANGED <<outside, delivery, reached, rounds>>

(* Both errors are ignored.                                                 *)
Settle(n) ==
  /\ At(n, "settle")
  /\ \/ (IF task[n].ok THEN Ack(Env(n)) ELSE Fail(Env(n))) /\ NoFault
     \/ UNCHANGED queue /\ Fault
  /\ Rest(n)
  /\ UNCHANGED <<outside, delivery, reached, rounds>>

(* Mutant: the row stays in the dead letters.                               *)
ReplayKeeps(e) ==
  /\ dlq[e] > 0
  /\ replays[e] < MaxReplays
  /\ msg' = [msg EXCEPT ![e].status = "Pending", ![e].by = None]
  /\ replays' = [replays EXCEPT ![e] = @ + 1]
  /\ UNCHANGED <<outside, dlq, task, delivery, reached, rounds, faults>>

(* replay_durable_dlq, an operator's command.  The attempts stay.           *)
Replay(e) ==
  /\ dlq[e] > 0
  /\ replays[e] < MaxReplays
  /\ msg' = [msg EXCEPT ![e].status = "Pending", ![e].by = None]
  /\ dlq' = [dlq EXCEPT ![e] = @ - 1]
  /\ replays' = [replays EXCEPT ![e] = @ + 1]
  /\ UNCHANGED <<outside, task, delivery, reached, rounds, faults>>

-----------------------------------------------------------------------------
(* retry_failed_outbound_deliveries_once in a single process.               *)

(* list_outbound_deliveries_by_status: the Limit oldest that failed.        *)
Window ==
  LET failed == {e \in Envelopes : Failed(e)}
      Older(e) == {f \in failed : delivery[f].stamp < delivery[e].stamp}
  IN {[env |-> e, stamp |-> delivery[e].stamp] : e \in {f \in failed : Cardinality(Older(f)) < Limit}}

List(n) ==
  /\ ~ cluster /\ n = Main /\ task[n] = None
  /\ Window # {}
  /\ task' = [task EXCEPT ![n] = [at |-> "next", item |-> None, ok |-> FALSE, todo |-> Window]]
  /\ UNCHANGED <<outside, queue, delivery, reached, rounds, faults>>

(* The order within a list is left open.                                    *)
Pick(n) ==
  /\ At(n, "next")
  /\ \E item \in task[n].todo :
       task' = [task EXCEPT ![n].at = "check", ![n].item = item, ![n].todo = @ \ {item}]
  /\ UNCHANGED <<outside, queue, delivery, reached, rounds, faults>>

-----------------------------------------------------------------------------
(* The surroundings.                                                        *)

Host(t) == IF t \in Senders THEN HostOf[t] ELSE t

(* A node dies with its tasks and starts again.                             *)
Crash(n) ==
  /\ \E t \in Tasks : Host(t) = n /\ task[t] # None
  /\ Fault
  /\ task' = [t \in Tasks |-> IF Host(t) = n THEN None ELSE task[t]]
  /\ UNCHANGED <<outside, queue, delivery, reached, rounds>>

(* register_websocket_recipient and unregister_websocket_recipient.  A      *)
(* recipient connected to another node counts as away for a dispatch: it may*)
(* come and go between any two steps.                                       *)
Connect(e) ==
  /\ e \in Fickle
  /\ up' = IF e \in up THEN up \ {e} ELSE up \cup {e}
  /\ UNCHANGED <<cluster, clock, queue, delivery, task, reached, rounds, faults>>

Send(s) == Respond(s) \/ Check(s) \/ Dispatch(s) \/ Record(s) \/ Enqueue(s)
Work(n) == List(n) \/ Pick(n) \/ Check(n) \/ Claim(n) \/ Dispatch(n) \/ Record(n) \/ Settle(n)

Next ==
  \/ \E s \in Senders : Send(s)
  \/ \E n \in Nodes : Work(n) \/ Crash(n)
  \/ \E e \in Envelopes : Replay(e) \/ Connect(e)

Spec == Init /\ [][Next]_vars

(* Every worker's loop keeps coming round; nothing else has to happen.      *)
FairSpec == Spec /\ \A n \in Nodes : WF_vars(Work(n))

-----------------------------------------------------------------------------
(* What the tables hold; a delivery is sent or failed, the two values the   *)
(* worker and the check for duplicates look for.                            *)
TypeOK ==
  /\ cluster \in BOOLEAN
  /\ delivery \in [Envelopes -> Delivery \cup {None}]
  /\ msg \in [Envelopes -> Message \cup {None}]
  /\ dlq \in [Envelopes -> Nat]
  /\ task \in [Tasks -> Task \cup {None}]
  /\ up \subseteq Envelopes
  /\ clock \in Nat
  /\ reached \subseteq Envelopes
  /\ rounds \in [Envelopes -> Nat]
  /\ replays \in [Envelopes -> Nat]
  /\ faults \in Nat

Holds(n, e) == cluster /\ task[n] # None /\ Env(n) = e

(* No two workers of a cluster have one message in hand, though ack, fail   *)
(* and replay write by id and look neither at the status nor at the claimer.*)
OneHolder ==
  \A m, n \in Nodes, e \in Envelopes : Holds(m, e) /\ Holds(n, e) => m = n

(* A message is in the dead letters once if its status says so, else not:   *)
(* what an operator sees and replays is what the queue gave up.             *)
DeadLettersAgree ==
  \A e \in Envelopes : dlq[e] = IF Is(e, "DeadLetter") THEN 1 ELSE 0

(* A worker sends a response MaxAttempts times at most, and once more for   *)
(* each replay: the attempts of a replayed message are not set back.        *)
RoundsBounded ==
  \A e \in Envelopes : rounds[e] <= MaxAttempts + replays[e]

(* A claim that nobody will settle; no code ends it, claimed_until is never *)
(* read.                                                                    *)
Stranded(e) == Is(e, "Claimed") /\ \A n \in Nodes : ~ Holds(n, e)

(* Without faults no response is lost: when its senders are done, it has    *)
(* reached its recipient, or it is marked failed where the worker looks, or *)
(* its message is claimable, in a worker's hand or in the dead letters.     *)
Accounted ==
  faults = 0 =>
    \A e \in Envelopes :
      \/ ~ Recorded(e)
      \/ \E s \in Senders : task[s] # None /\ Env(s) = e
      \/ e \in reached
      \/ ~ cluster /\ Failed(e)
      \/ cluster /\ msg[e] # None /\ ~ Is(e, "Acked") /\ ~ Stranded(e)

(* A message as its queue sees it.                                          *)
Phase(e) ==
  CASE msg[e] = None -> "absent"
    [] Is(e, "Pending") -> "pending"
    [] Is(e, "Claimed") -> IF Stranded(e) THEN "stranded" ELSE "held"
    [] Is(e, "Acked") -> "acked"
    [] Is(e, "DeadLetter") -> "dead"

Holder(e) == IF Phase(e) = "held" THEN msg[e].by ELSE None
Attempts(e) == IF msg[e] = None THEN 0 ELSE msg[e].attempts

Queue == INSTANCE DurableQueue WITH
  Messages <- Envelopes, Workers <- Nodes,
  phase <- [e \in Envelopes |-> Phase(e)], holder <- [e \in Envelopes |-> Holder(e)],
  tries <- [e \in Envelopes |-> Attempts(e)], delivered <- reached

(* Whatever fails or dies, the workers of all nodes, the senders and the    *)
(* operator work the table as one durable queue: one worker has a message,  *)
(* only what was delivered is acknowledged, the failure that uses up the    *)
(* attempts ends in the dead letters, and an abandoned claim stays so.      *)
IsDurableQueue == Queue!Spec

(* What was acknowledged is never queued again, by a late failure, a second *)
(* send of the same response or a replay.                                   *)
AckIsFinal == [][\A e \in Envelopes : Is(e, "Acked") => Is(e, "Acked")']_vars

(* A queued message is acknowledged or ends in the dead letters, unless a   *)
(* fault strands its claim.                                                 *)
MessageSettles ==
  \A e \in Envelopes :
    Is(e, "Pending") ~> (Is(e, "Acked") \/ Is(e, "DeadLetter") \/ (Stranded(e) /\ faults > 0))

(* Outside a cluster a failed delivery is marked sent once its recipient is *)
(* back for good (the reconnection test, test_support.rs:19098).            *)
RecoversAfterReconnect ==
  \A e \in Envelopes :
    <>[](e \in up /\ ~ cluster) => [](Failed(e) => <>Sent(e))
=============================================================================
