---------------------------- MODULE OutboxProofs ----------------------------
(***************************************************************************)
(* Theorems about Outbox, for any envelopes, senders, nodes, attempts and   *)
(* faults.                                                                  *)
(***************************************************************************)
EXTENDS Outbox, TLAPS

(* Where a sender or a worker can be.                                       *)
Located ==
  \A t \in Tasks :
    task[t] # None =>
      /\ task[t].at # "next" => task[t].item # None
      /\ t \in Senders => task[t].at \in {"check", "send", "record", "enqueue"}
      /\ t \in Nodes /\ cluster => task[t].at \in {"send", "record", "settle"} /\ task[t].todo = {}
      /\ t \in Nodes /\ ~ cluster => task[t].at \in {"next", "check", "send", "record"}

(* What a worker has in hand is claimed by it.                              *)
HoldsClaim ==
  \A n \in Nodes, e \in Envelopes : Holds(n, e) => Is(e, "Claimed") /\ msg[e].by = n

(* How often a message was sent by workers, against its failures.           *)
Tries(e) ==
  IF msg[e] = None THEN rounds[e] = 0
  ELSE
    /\ msg[e].attempts <= MaxAttempts + replays[e]
    /\ rounds[e] <= MaxAttempts + replays[e]
    /\ msg[e].status \in {"Pending", "Claimed"} => msg[e].attempts < MaxAttempts + replays[e]
    /\ msg[e].status \in {"Pending", "DeadLetter"} => rounds[e] <= msg[e].attempts
    /\ msg[e].status = "Claimed" => rounds[e] <= msg[e].attempts + 1
    /\ \A n \in Nodes : Holds(n, e) /\ task[n].at = "send" => rounds[e] <= msg[e].attempts

TriesTied == \A e \in Envelopes : Tries(e)

Inv == TypeOK /\ Located /\ HoldsClaim /\ DeadLettersAgree /\ TriesTied

-----------------------------------------------------------------------------
(* What the helpers make of the task they move.                             *)

Others(t) == \A u \in Tasks : u # t => task'[u] = task[u]

(* A task that was typed and moves to another place keeps the rest.         *)
LEMMA GoOnMoves ==
  ASSUME TypeOK, NEW t \in Tasks, task[t] # None,
         NEW place \in {"send", "settle", "enqueue"}, GoOn(t, place)
  PROVE  /\ task' \in [Tasks -> Task \cup {None}]
         /\ task'[t] = [task[t] EXCEPT !.at = place] /\ task'[t] \in Task
         /\ task'[t].at = place /\ task'[t].item = task[t].item /\ task'[t].todo = task[t].todo
         /\ Others(t)
<1>1. task \in [Tasks -> Task \cup {None}] /\ task[t] \in Task
  BY DEF TypeOK
<1>2. task'[t] = [task[t] EXCEPT !.at = place] /\ Others(t)
  BY <1>1 DEF GoOn, Others
<1>3. task'[t] \in Task /\ task'[t].at = place /\ task'[t].item = task[t].item
      /\ task'[t].todo = task[t].todo
  BY <1>1, <1>2 DEF Task
<1> QED
  BY <1>1, <1>2, <1>3 DEF GoOn, Others

(* A task that takes up an envelope.                                        *)
LEMMA StartsMoves ==
  ASSUME TypeOK, NEW t \in Tasks, NEW place \in {"check", "send"}, NEW item \in Item,
         Starts(t, place, item)
  PROVE  /\ task' \in [Tasks -> Task \cup {None}]
         /\ task'[t] \in Task /\ task'[t].at = place /\ task'[t].item = item
         /\ task'[t].todo = {} /\ Others(t)
<1>1. task \in [Tasks -> Task \cup {None}]
  BY DEF TypeOK
<1>2. [at |-> place, item |-> item, ok |-> FALSE, todo |-> {}] \in Task
  BY DEF Task
<1> QED
  BY <1>1, <1>2 DEF Starts, Others

(* A task that is done with an envelope.                                    *)
LEMMA RestMoves ==
  ASSUME TypeOK, NEW t \in Tasks, task[t] # None, Rest(t)
  PROVE  /\ task' \in [Tasks -> Task \cup {None}]
         /\ Others(t)
         /\ \/ task'[t] = None
            \/ /\ task'[t] \in Task /\ task'[t].at = "next"
               /\ t \notin Senders /\ task[t].todo # {}
<1>1. task \in [Tasks -> Task \cup {None}] /\ task[t] \in Task
  BY DEF TypeOK
<1>2. task'[t] = None \/ (task'[t] = [task[t] EXCEPT !.at = "next", !.item = None]
                          /\ t \notin Senders /\ task[t].todo # {})
  BY <1>1 DEF Rest
<1>3. [task[t] EXCEPT !.at = "next", !.item = None] \in Task
      /\ [task[t] EXCEPT !.at = "next", !.item = None].at = "next"
  BY <1>1 DEF Task
<1>4. Others(t)
  BY <1>1 DEF Rest, Others
<1> QED
  BY <1>1, <1>2, <1>3, <1>4 DEF Rest, Others

(* What a dispatch leaves behind.                                           *)
LEMMA DispatchMoves ==
  ASSUME TypeOK, NEW t \in Tasks, Dispatch(t)
  PROVE  /\ task' \in [Tasks -> Task \cup {None}]
         /\ task'[t] \in Task /\ task'[t].at = "record" /\ task'[t].item = task[t].item
         /\ task'[t].todo = task[t].todo /\ Others(t)
<1>1. task \in [Tasks -> Task \cup {None}] /\ task[t] \in Task
  BY DEF TypeOK, Dispatch, At
<1>2. PICK ok \in BOOLEAN : task' = [task EXCEPT ![t].at = "record", ![t].ok = ok]
  BY DEF Dispatch
<1>3. task'[t] = [task[t] EXCEPT !.at = "record", !.ok = ok] /\ Others(t)
  BY <1>1, <1>2 DEF Others
<1>4. task'[t] \in Task /\ task'[t].at = "record" /\ task'[t].item = task[t].item
      /\ task'[t].todo = task[t].todo
  BY <1>1, <1>3 DEF Task
<1> QED
  BY <1>1, <1>2, <1>3, <1>4 DEF Others

-----------------------------------------------------------------------------
(* What the steps leave to the rest of the state: the tables stay typed.    *)

LocatedAt(t) ==
  task[t] # None =>
    /\ task[t].at # "next" => task[t].item # None
    /\ t \in Senders => task[t].at \in {"check", "send", "record", "enqueue"}
    /\ t \in Nodes /\ cluster => task[t].at \in {"send", "record", "settle"} /\ task[t].todo = {}
    /\ t \in Nodes /\ ~ cluster => task[t].at \in {"next", "check", "send", "record"}

(* A task in hand at a place where it has an envelope.                      *)
LEMMA HasItem ==
  ASSUME TypeOK, Located, NEW t \in Tasks, task[t] # None, task[t].at # "next"
  PROVE  task[t].item \in Item /\ Env(t) \in Envelopes /\ task[t].item.stamp \in Nat
         /\ task[t].ok \in BOOLEAN
  BY DEF TypeOK, Located, Task, Item, Env

(* If only one task moves and is where it may be, all are.                  *)
LEMMA OneMoves ==
  ASSUME TypeOK, Located, NEW t \in Tasks, Others(t), UNCHANGED cluster, LocatedAt(t)'
  PROVE  Located'
<1> SUFFICES ASSUME NEW u \in Tasks PROVE LocatedAt(u)'
  BY DEF Located, LocatedAt
<1>1. CASE u = t
  BY <1>1
<1>2. CASE u # t
  BY <1>2 DEF Others, Located, LocatedAt
<1> QED
  BY <1>1, <1>2

(* A worker of a cluster keeps the message it has in hand.                  *)
HeldKept ==
  \A n \in Nodes, e \in Envelopes :
    Holds(n, e)' => Holds(n, e) /\ (task'[n].at = "send" => task[n].at = "send")

KeptAt(t) ==
  t \in Nodes /\ cluster /\ task'[t] # None =>
    /\ task[t] # None /\ task'[t].item = task[t].item
    /\ task'[t].at = "send" => task[t].at = "send"

LEMMA OneKeeps ==
  ASSUME NEW t \in Tasks, Others(t), UNCHANGED cluster, KeptAt(t)
  PROVE  HeldKept
<1> SUFFICES ASSUME NEW n \in Nodes, NEW e \in Envelopes, Holds(n, e)'
             PROVE  Holds(n, e) /\ (task'[n].at = "send" => task[n].at = "send")
  BY DEF HeldKept
<1>1. CASE n = t
  BY <1>1 DEF KeptAt, Holds, Env
<1>2. CASE n # t
  BY <1>2 DEF Others, Tasks, Holds, Env
<1> QED
  BY <1>1, <1>2

USE OutboxAssumption, NoneAssumption DEF Tasks

LEMMA CheckTypes ==
  ASSUME TypeOK, Located, NEW t \in Tasks, Check(t)
  PROVE  TypeOK' /\ Located' /\ HeldKept
<1>1. /\ task[t] # None /\ task[t].at = "check"
      /\ UNCHANGED <<cluster, delivery, msg, dlq, up, clock, reached, rounds, replays>>
  BY DEF Check, At, outside, queue
<1>2. faults' \in Nat
  BY DEF Check, TypeOK, Fault, NoFault
<1>3. CASE GoOn(t, "send")
  <2>1. /\ task' \in [Tasks -> Task \cup {None}] /\ Others(t)
        /\ task'[t].at = "send" /\ task'[t].item = task[t].item /\ task'[t].todo = task[t].todo
    BY <1>1, <1>3, GoOnMoves
  <2>2. LocatedAt(t)' /\ KeptAt(t)
    BY <1>1, <2>1 DEF Located, LocatedAt, KeptAt
  <2> QED
    BY <1>1, <1>2, <2>1, <2>2, OneMoves, OneKeeps DEF TypeOK
<1>4. CASE Rest(t)
  <2>1. /\ task' \in [Tasks -> Task \cup {None}] /\ Others(t)
        /\ task'[t] = None \/ (task'[t].at = "next" /\ t \notin Senders /\ task[t].todo # {})
    BY <1>1, <1>4, RestMoves
  <2>2. LocatedAt(t)' /\ KeptAt(t)
    BY <1>1, <2>1 DEF Located, LocatedAt, KeptAt
  <2> QED
    BY <1>1, <1>2, <2>1, <2>2, OneMoves, OneKeeps DEF TypeOK
<1> QED
  BY <1>3, <1>4 DEF Check

LEMMA DispatchTypes ==
  ASSUME TypeOK, Located, NEW t \in Tasks, Dispatch(t)
  PROVE  TypeOK' /\ Located' /\ HeldKept
<1>1. /\ task[t] # None /\ task[t].at = "send"
      /\ UNCHANGED <<cluster, delivery, msg, dlq, up, clock, replays>>
  BY DEF Dispatch, At, outside, queue
<1>2. Env(t) \in Envelopes
  BY <1>1, HasItem
<1>3. faults' \in Nat /\ reached' \subseteq Envelopes
  BY <1>2 DEF Dispatch, TypeOK, Fault, NoFault
<1>4. rounds' \in [Envelopes -> Nat]
  BY <1>2 DEF Dispatch, TypeOK
<1>5. /\ task' \in [Tasks -> Task \cup {None}] /\ Others(t)
      /\ task'[t].at = "record" /\ task'[t].item = task[t].item /\ task'[t].todo = task[t].todo
  BY DispatchMoves
<1>6. LocatedAt(t)' /\ KeptAt(t)
  BY <1>1, <1>5 DEF Located, LocatedAt, KeptAt
<1> QED
  BY <1>1, <1>3, <1>4, <1>5, <1>6, OneMoves, OneKeeps DEF TypeOK

LEMMA RecordTypes ==
  ASSUME TypeOK, Located, NEW t \in Tasks, Record(t)
  PROVE  TypeOK' /\ Located' /\ HeldKept
<1>1. /\ task[t] # None /\ task[t].at = "record"
      /\ UNCHANGED <<cluster, msg, dlq, up, clock, reached, rounds, replays>>
  BY DEF Record, At, outside, queue
<1>2. Env(t) \in Envelopes /\ task[t].item.stamp \in Nat
  BY <1>1, HasItem
<1>3. faults' \in Nat
  BY DEF Record, TypeOK, Fault, NoFault
<1>4. [status |-> IF task[t].ok THEN "sent" ELSE "failed", stamp |-> task[t].item.stamp] \in Delivery
  BY <1>2 DEF Delivery
<1>5. delivery' \in [Envelopes -> Delivery \cup {None}]
  BY <1>2, <1>4 DEF Record, TypeOK
<1>6. CASE cluster /\ t \in Nodes /\ GoOn(t, "settle")
  <2>1. /\ task' \in [Tasks -> Task \cup {None}] /\ Others(t)
        /\ task'[t].at = "settle" /\ task'[t].item = task[t].item /\ task'[t].todo = task[t].todo
    BY <1>1, <1>6, GoOnMoves
  <2>2. LocatedAt(t)' /\ KeptAt(t)
    BY <1>1, <1>6, <2>1 DEF Located, LocatedAt, KeptAt
  <2> QED
    BY <1>1, <1>3, <1>5, <2>1, <2>2, OneMoves, OneKeeps DEF TypeOK
<1>7. CASE cluster /\ t \in Senders /\ GoOn(t, "enqueue")
  <2>1. /\ task' \in [Tasks -> Task \cup {None}] /\ Others(t)
        /\ task'[t].at = "enqueue" /\ task'[t].item = task[t].item /\ task'[t].todo = task[t].todo
    BY <1>1, <1>7, GoOnMoves
  <2>2. LocatedAt(t)' /\ KeptAt(t)
    BY <1>1, <1>7, <2>1 DEF Located, LocatedAt, KeptAt
  <2> QED
    BY <1>1, <1>3, <1>5, <2>1, <2>2, OneMoves, OneKeeps DEF TypeOK
<1>8. CASE Rest(t)
  <2>1. /\ task' \in [Tasks -> Task \cup {None}] /\ Others(t)
        /\ task'[t] = None \/ (task'[t].at = "next" /\ t \notin Senders /\ task[t].todo # {})
    BY <1>1, <1>8, RestMoves
  <2>2. LocatedAt(t)' /\ KeptAt(t)
    BY <1>1, <2>1 DEF Located, LocatedAt, KeptAt
  <2> QED
    BY <1>1, <1>3, <1>5, <2>1, <2>2, OneMoves, OneKeeps DEF TypeOK
<1> QED
  BY <1>6, <1>7, <1>8 DEF Record

LEMMA RespondTypes ==
  ASSUME TypeOK, Located, NEW s \in Senders, Respond(s)
  PROVE  TypeOK' /\ Located' /\ HeldKept
<1>1. UNCHANGED <<cluster, delivery, msg, dlq, up, reached, rounds, replays, faults>>
  BY DEF Respond, queue
<1>2. [env |-> EnvelopeOf[s], stamp |-> clock + 1] \in Item
      /\ [env |-> EnvelopeOf[s], stamp |-> clock + 1] # None
  BY DEF Item, TypeOK
<1>3. /\ task' \in [Tasks -> Task \cup {None}] /\ Others(s)
      /\ task'[s].at = "check" /\ task'[s].item # None
  BY <1>2, StartsMoves DEF Respond
<1>4. LocatedAt(s)' /\ KeptAt(s)
  BY <1>3 DEF LocatedAt, KeptAt
<1>5. clock' \in Nat
  BY DEF Respond, TypeOK
<1> QED
  BY <1>1, <1>3, <1>4, <1>5, OneMoves, OneKeeps DEF TypeOK

LEMMA EnqueueTypes ==
  ASSUME TypeOK, Located, NEW s \in Senders, Enqueue(s)
  PROVE  TypeOK' /\ Located' /\ HeldKept
<1>1. /\ task[s] # None /\ task[s].at = "enqueue"
      /\ UNCHANGED <<cluster, delivery, dlq, up, clock, reached, rounds, replays>>
  BY DEF Enqueue, At, outside
<1>2. Env(s) \in Envelopes /\ NewMessage(s) \in Message
  BY <1>1, HasItem DEF NewMessage, Message
<1>3. msg' \in [Envelopes -> Message \cup {None}]
  BY <1>2 DEF Enqueue, TypeOK
<1>4. faults' \in Nat
  BY DEF Enqueue, TypeOK, Fault, NoFault
<1>5. /\ task' \in [Tasks -> Task \cup {None}] /\ Others(s) /\ task'[s] = None
  BY <1>1, RestMoves DEF Enqueue
<1>6. LocatedAt(s)' /\ KeptAt(s)
  BY <1>5 DEF LocatedAt, KeptAt
<1> QED
  BY <1>1, <1>3, <1>4, <1>5, <1>6, OneMoves, OneKeeps DEF TypeOK

LEMMA ListTypes ==
  ASSUME TypeOK, Located, NEW n \in Nodes, List(n)
  PROVE  TypeOK' /\ Located' /\ HeldKept
<1>1. /\ ~ cluster
      /\ UNCHANGED <<cluster, delivery, msg, dlq, up, clock, reached, rounds, replays, faults>>
  BY DEF List, outside, queue
<1>2. Window \subseteq Item
  <2> SUFFICES ASSUME NEW item \in Window PROVE item \in Item
    OBVIOUS
  <2>1. PICK e \in Envelopes : Failed(e) /\ item = [env |-> e, stamp |-> delivery[e].stamp]
    BY DEF Window
  <2>2. delivery[e].stamp \in Nat
    BY <2>1 DEF Failed, Recorded, TypeOK, Delivery
  <2> QED
    BY <2>1, <2>2 DEF Item
<1>3. [at |-> "next", item |-> None, ok |-> FALSE, todo |-> Window] \in Task
  BY <1>2 DEF Task
<1>4. /\ task' \in [Tasks -> Task \cup {None}] /\ Others(n) /\ task'[n].at = "next"
  BY <1>3 DEF List, TypeOK, Others
<1>5. LocatedAt(n)' /\ KeptAt(n)
  BY <1>1, <1>4 DEF LocatedAt, KeptAt
<1> QED
  BY <1>1, <1>4, <1>5, OneMoves, OneKeeps DEF TypeOK

LEMMA PickTypes ==
  ASSUME TypeOK, Located, NEW n \in Nodes, Pick(n)
  PROVE  TypeOK' /\ Located' /\ HeldKept
<1>1. /\ task[n] # None /\ task[n].at = "next"
      /\ UNCHANGED <<cluster, delivery, msg, dlq, up, clock, reached, rounds, replays, faults>>
  BY DEF Pick, At, outside, queue
<1>2. ~ cluster
  BY <1>1 DEF Located
<1>3. PICK item \in task[n].todo :
        task' = [task EXCEPT ![n].at = "check", ![n].item = item, ![n].todo = @ \ {item}]
  BY DEF Pick
<1>4. task[n] \in Task /\ item \in Item
  BY <1>1 DEF TypeOK, Task
<1>5. task'[n] = [task[n] EXCEPT !.at = "check", !.item = item, !.todo = @ \ {item}] /\ Others(n)
  BY <1>3 DEF TypeOK, Others
<1>6. task'[n] \in Task /\ task'[n].at = "check" /\ task'[n].item # None
  <2>1. /\ task[n].todo \ {item} \in SUBSET Item /\ task[n].ok \in BOOLEAN /\ item # None
    BY <1>4 DEF Task
  <2>2. task'[n] = [at |-> "check", item |-> item, ok |-> task[n].ok, todo |-> task[n].todo \ {item}]
    BY <1>4, <1>5 DEF Task
  <2> QED
    BY <1>4, <2>1, <2>2 DEF Task
<1>7. task' \in [Tasks -> Task \cup {None}]
  BY <1>3, <1>5, <1>6 DEF TypeOK
<1>8. LocatedAt(n)' /\ KeptAt(n)
  BY <1>1, <1>2, <1>6 DEF LocatedAt, KeptAt
<1> QED
  BY <1>1, <1>5, <1>7, <1>8, OneMoves, OneKeeps DEF TypeOK

LEMMA CrashTypes ==
  ASSUME TypeOK, Located, NEW n \in Nodes, Crash(n)
  PROVE  TypeOK' /\ Located' /\ HeldKept
<1>1. UNCHANGED <<cluster, delivery, msg, dlq, up, clock, reached, rounds, replays>>
  BY DEF Crash, outside, queue
<1>2. task' = [t \in Tasks |-> IF Host(t) = n THEN None ELSE task[t]] /\ faults' \in Nat
  BY DEF Crash, Fault, TypeOK
<1>3. \A t \in Tasks : task'[t] = None \/ task'[t] = task[t]
  BY <1>2
<1>4. task' \in [Tasks -> Task \cup {None}]
  BY <1>2 DEF TypeOK
<1>5. Located'
  BY <1>1, <1>3 DEF Located
<1>6. HeldKept
  BY <1>1, <1>3 DEF HeldKept, Holds, Env
<1> QED
  BY <1>1, <1>2, <1>4, <1>5, <1>6 DEF TypeOK

LEMMA ConnectTypes ==
  ASSUME TypeOK, Located, NEW e \in Envelopes, Connect(e)
  PROVE  TypeOK' /\ Located' /\ HeldKept
  BY DEF Connect, queue, TypeOK, Located, HeldKept, Holds, Env

-----------------------------------------------------------------------------
(* Steps that leave the queue alone, also as seen from the invariant.       *)

LEMMA QuietStep ==
  ASSUME HoldsClaim, DeadLettersAgree, TriesTied, HeldKept,
         UNCHANGED <<msg, dlq, replays, rounds>>
  PROVE  HoldsClaim' /\ DeadLettersAgree' /\ TriesTied'
<1>1. HoldsClaim'
  BY DEF HoldsClaim, HeldKept, Is
<1>2. DeadLettersAgree'
  BY DEF DeadLettersAgree, Is
<1>3. TriesTied'
  BY DEF TriesTied, Tries, HeldKept
<1> QED
  BY <1>1, <1>2, <1>3

(* A dispatch by a worker of a cluster counts a round of the message it     *)
(* holds.                                                                   *)
LEMMA DispatchQueue ==
  ASSUME Inv, NEW t \in Tasks, Dispatch(t)
  PROVE  HoldsClaim' /\ DeadLettersAgree' /\ TriesTied'
<1>1. /\ task[t] # None /\ task[t].at = "send"
      /\ UNCHANGED <<cluster, msg, dlq, replays>>
  BY DEF Dispatch, At, outside, queue
<1>2. HeldKept
  BY DispatchTypes DEF Inv
<1>3. CASE ~ (cluster /\ t \in Nodes)
  <2>1. UNCHANGED rounds
    BY <1>3 DEF Dispatch
  <2> QED
    BY <1>1, <1>2, <2>1, QuietStep DEF Inv
<1>4. CASE cluster /\ t \in Nodes
  <2>1. PICK e \in Envelopes : e = Env(t)
    BY <1>1, HasItem DEF Inv
  <2>2. rounds' = [rounds EXCEPT ![e] = @ + 1] /\ rounds \in [Envelopes -> Nat]
    BY <1>4, <2>1 DEF Dispatch, Inv, TypeOK
  <2>3. Is(e, "Claimed") /\ msg[e].by = t /\ Holds(t, e)
    BY <1>1, <1>4, <2>1 DEF Inv, HoldsClaim, Holds
  <2>4. HoldsClaim' /\ DeadLettersAgree'
    BY <1>1, <1>2 DEF Inv, HoldsClaim, HeldKept, DeadLettersAgree, Is
  <2>5. task'[t].at = "record"
    BY DispatchMoves DEF Inv
  <2>6. ASSUME NEW f \in Envelopes, f # e PROVE Tries(f)'
    <3>1. rounds'[f] = rounds[f]
      BY <2>1, <2>2, <2>6
    <3> QED
      BY <1>1, <1>2, <2>6, <3>1 DEF Inv, TriesTied, Tries, HeldKept
  <2>7. Tries(e)'
    <3>1. rounds'[e] = rounds[e] + 1 /\ rounds[e] \in Nat
      BY <2>1, <2>2
    <3>2. /\ msg[e].attempts \in Nat /\ replays[e] \in Nat /\ msg[e] # None
          /\ msg[e].status = "Claimed"
      BY <2>1, <2>3 DEF Inv, TypeOK, Message, Is
    <3>3. /\ msg[e].attempts < MaxAttempts + replays[e]
          /\ rounds[e] <= msg[e].attempts
      BY <1>1, <1>4, <2>1, <2>3, <3>2 DEF Inv, TriesTied, Tries
    <3>4. rounds'[e] <= msg[e].attempts + 1 /\ rounds'[e] <= MaxAttempts + replays[e]
      BY <3>1, <3>2, <3>3
    <3>5. \A n \in Nodes : ~ (Holds(n, e)' /\ task'[n].at = "send")
      <4> SUFFICES ASSUME NEW n \in Nodes, Holds(n, e)', task'[n].at = "send" PROVE FALSE
        OBVIOUS
      <4>1. Holds(n, e)
        BY <1>2, <2>1 DEF HeldKept
      <4>2. n = t
        BY <2>1, <2>3, <4>1 DEF Inv, HoldsClaim
      <4> QED
        BY <2>5, <4>2
    <3> QED
      BY <1>1, <3>2, <3>3, <3>4, <3>5 DEF Tries
  <2> QED
    BY <2>4, <2>6, <2>7 DEF TriesTied
<1> QED
  BY <1>3, <1>4

(* An insertion leaves a message that is there alone.                       *)
LEMMA EnqueueQueue ==
  ASSUME Inv, NEW s \in Senders, Enqueue(s)
  PROVE  HoldsClaim' /\ DeadLettersAgree' /\ TriesTied'
<1>1. /\ task[s] # None /\ task[s].at = "enqueue"
      /\ UNCHANGED <<cluster, dlq, replays, rounds>>
  BY DEF Enqueue, At, outside
<1>2. HeldKept
  BY EnqueueTypes DEF Inv
<1>3. CASE UNCHANGED msg
  BY <1>1, <1>2, <1>3, QuietStep DEF Inv
<1>4. CASE msg' = [msg EXCEPT ![Env(s)] = IF @ = None THEN NewMessage(s) ELSE @]
  <2>1. Env(s) \in Envelopes /\ NewMessage(s) \in Message /\ NewMessage(s) # None
    BY <1>1, HasItem DEF Inv, NewMessage, Message
  <2>2. \A e \in Envelopes : msg'[e] = msg[e] \/ (msg[e] = None /\ msg'[e] = NewMessage(s))
    BY <1>4 DEF Inv, TypeOK
  <2>3. NewMessage(s).status = "Pending" /\ NewMessage(s).attempts = 0
    BY DEF NewMessage
  <2>4. HoldsClaim'
    BY <1>2, <2>2 DEF Inv, HoldsClaim, HeldKept, Is
  <2>5. DeadLettersAgree'
    BY <1>1, <2>1, <2>2, <2>3 DEF Inv, DeadLettersAgree, Is
  <2>6. ASSUME NEW e \in Envelopes PROVE Tries(e)'
    <3>1. CASE msg'[e] = msg[e]
      BY <1>1, <1>2, <3>1 DEF Inv, TriesTied, Tries, HeldKept
    <3>2. CASE msg[e] = None /\ msg'[e] = NewMessage(s)
      <4>1. rounds[e] = 0 /\ replays[e] \in Nat
        BY <3>2 DEF Inv, TriesTied, Tries, TypeOK
      <4>2. \A n \in Nodes : ~ Holds(n, e)'
        BY <1>2, <3>2 DEF Inv, HoldsClaim, HeldKept, Is
      <4> QED
        BY <1>1, <2>1, <2>3, <3>2, <4>1, <4>2 DEF Tries
    <3> QED
      BY <2>2, <3>1, <3>2
  <2> QED
    BY <2>4, <2>5, <2>6 DEF TriesTied
<1> QED
  BY <1>3, <1>4 DEF Enqueue

(* What a claim, an acknowledgement, a failure and a replay make of the one *)
(* message they write.                                                      *)
OthersKept(e) ==
  \A f \in Envelopes : f # e => msg'[f] = msg[f] /\ dlq'[f] = dlq[f] /\ replays'[f] = replays[f]

(* The invariant for the other messages.                                    *)
LEMMA OthersAfter ==
  ASSUME Inv, NEW e \in Envelopes, OthersKept(e), UNCHANGED rounds,
         \A n \in Nodes, f \in Envelopes :
           f # e /\ Holds(n, f)' => Holds(n, f) /\ (task'[n].at = "send" => task[n].at = "send")
  PROVE  \A f \in Envelopes \ {e} :
           /\ \A n \in Nodes : Holds(n, f)' => Is(f, "Claimed")' /\ msg'[f].by = n
           /\ dlq'[f] = IF Is(f, "DeadLetter")' THEN 1 ELSE 0
           /\ Tries(f)'
<1> SUFFICES ASSUME NEW f \in Envelopes, f # e
             PROVE  /\ \A n \in Nodes : Holds(n, f)' => Is(f, "Claimed")' /\ msg'[f].by = n
                    /\ dlq'[f] = IF Is(f, "DeadLetter")' THEN 1 ELSE 0
                    /\ Tries(f)'
  OBVIOUS
<1>1. msg'[f] = msg[f] /\ dlq'[f] = dlq[f] /\ replays'[f] = replays[f]
  BY DEF OthersKept
<1>2. \A n \in Nodes : Holds(n, f)' => Is(f, "Claimed")' /\ msg'[f].by = n
  BY <1>1 DEF Inv, HoldsClaim, Is
<1>3. dlq'[f] = IF Is(f, "DeadLetter")' THEN 1 ELSE 0
  BY <1>1 DEF Inv, DeadLettersAgree, Is
<1>4. Tries(f)'
  BY <1>1 DEF Inv, TriesTied, Tries
<1> QED
  BY <1>2, <1>3, <1>4

LEMMA ClaimKeeps ==
  ASSUME Inv, NEW n \in Nodes, Claim(n)
  PROVE  Inv'
<1>1. /\ cluster /\ task[n] = None
      /\ UNCHANGED <<cluster, delivery, dlq, up, clock, reached, rounds, replays, faults>>
  BY DEF Claim, outside
<1>2. PICK e \in Envelopes :
        /\ Is(e, "Pending")
        /\ msg' = [msg EXCEPT ![e].status = "Claimed", ![e].by = n]
        /\ Starts(n, "send", [env |-> e, stamp |-> msg[e].stamp])
  BY DEF Claim
<1>3. msg \in [Envelopes -> Message \cup {None}] /\ msg[e] \in Message /\ TypeOK
      /\ replays[e] \in Nat /\ rounds[e] \in Nat
  BY <1>2 DEF Inv, TypeOK, Is
<1>4. msg'[e] = [msg[e] EXCEPT !.status = "Claimed", !.by = n] /\ OthersKept(e)
  BY <1>1, <1>2, <1>3 DEF OthersKept
<1>5. /\ msg'[e] \in Message /\ msg'[e].status = "Claimed" /\ msg'[e].by = n
      /\ msg'[e].attempts = msg[e].attempts /\ msg[e].attempts \in Nat /\ msg'[e] # None
  BY <1>3, <1>4 DEF Message
<1>6. msg' \in [Envelopes -> Message \cup {None}]
  BY <1>2, <1>3, <1>5
<1>7. PICK item \in Item : item = [env |-> e, stamp |-> msg[e].stamp]
  BY <1>3 DEF Item, Message
<1>8. /\ task' \in [Tasks -> Task \cup {None}] /\ task'[n].at = "send" /\ task'[n] # None
      /\ task'[n].item = item /\ item.env = e /\ item # None /\ task'[n].todo = {} /\ Others(n)
  <2>1. Starts(n, "send", item)
    BY <1>2, <1>7
  <2>2. task'[n] \in Task => task'[n] # None
    OBVIOUS
  <2> QED
    BY <1>3, <1>7, <2>1, <2>2, StartsMoves
<1>9. TypeOK' /\ Located'
  <2>1. LocatedAt(n)'
    BY <1>1, <1>7, <1>8 DEF LocatedAt
  <2> QED
    BY <1>1, <1>3, <1>6, <1>8, <2>1, OneMoves DEF Inv, TypeOK
<1>10. \A m \in Nodes, f \in Envelopes :
         Holds(m, f)' => (m = n /\ f = e)
                         \/ (Holds(m, f) /\ (task'[m].at = "send" => task[m].at = "send"))
  BY <1>1, <1>8 DEF Holds, Env, Others
<1>11. \A m \in Nodes : ~ Holds(m, e)
  BY <1>2 DEF Inv, HoldsClaim, Is
<1>12. \A f \in Envelopes \ {e} :
         /\ \A m \in Nodes : Holds(m, f)' => Is(f, "Claimed")' /\ msg'[f].by = m
         /\ dlq'[f] = IF Is(f, "DeadLetter")' THEN 1 ELSE 0
         /\ Tries(f)'
  BY <1>1, <1>4, <1>10, OthersAfter
<1>13. \A m \in Nodes : Holds(m, e)' => Is(e, "Claimed")' /\ msg'[e].by = m
  BY <1>5, <1>10, <1>11 DEF Is
<1>14. dlq'[e] = IF Is(e, "DeadLetter")' THEN 1 ELSE 0
  BY <1>1, <1>2, <1>5 DEF Inv, DeadLettersAgree, Is
<1>15. Tries(e)'
  BY <1>1, <1>2, <1>3, <1>5 DEF Inv, TriesTied, Tries, Is
<1> QED
  BY <1>9, <1>12, <1>13, <1>14, <1>15 DEF Inv, HoldsClaim, DeadLettersAgree, TriesTied

LEMMA ReplayKeepsInv ==
  ASSUME Inv, NEW e \in Envelopes, Replay(e)
  PROVE  Inv'
<1>1. /\ dlq[e] > 0
      /\ UNCHANGED <<cluster, delivery, task, up, clock, reached, rounds, faults>>
      /\ msg' = [msg EXCEPT ![e].status = "Pending", ![e].by = None]
      /\ dlq' = [dlq EXCEPT ![e] = @ - 1]
      /\ replays' = [replays EXCEPT ![e] = @ + 1]
  BY DEF Replay, outside
<1>2. dlq[e] = 1 /\ Is(e, "DeadLetter")
  BY <1>1 DEF Inv, DeadLettersAgree
<1>3. msg \in [Envelopes -> Message \cup {None}] /\ msg[e] \in Message /\ TypeOK
      /\ replays[e] \in Nat /\ rounds[e] \in Nat
  BY <1>2 DEF Inv, TypeOK, Is
<1>4. /\ msg'[e] = [msg[e] EXCEPT !.status = "Pending", !.by = None]
      /\ dlq'[e] = 0 /\ replays'[e] = replays[e] + 1 /\ OthersKept(e)
  BY <1>1, <1>2, <1>3 DEF OthersKept, TypeOK
<1>5. /\ msg'[e] \in Message /\ msg'[e].status = "Pending"
      /\ msg'[e].attempts = msg[e].attempts /\ msg[e].attempts \in Nat /\ msg'[e] # None
  BY <1>3, <1>4 DEF Message
<1>6. TypeOK' /\ Located'
  <2>1. msg' \in [Envelopes -> Message \cup {None}]
    BY <1>1, <1>3, <1>5
  <2>2. dlq' \in [Envelopes -> Nat] /\ replays' \in [Envelopes -> Nat]
    BY <1>1, <1>2, <1>3, <1>4 DEF TypeOK
  <2> QED
    BY <1>1, <1>3, <2>1, <2>2 DEF Inv, TypeOK, Located
<1>7. \A m \in Nodes, f \in Envelopes : Holds(m, f)' <=> Holds(m, f)
  BY <1>1 DEF Holds, Env
<1>8. \A m \in Nodes : ~ Holds(m, e)
  BY <1>2 DEF Inv, HoldsClaim, Is
<1>9. \A f \in Envelopes \ {e} :
         /\ \A m \in Nodes : Holds(m, f)' => Is(f, "Claimed")' /\ msg'[f].by = m
         /\ dlq'[f] = IF Is(f, "DeadLetter")' THEN 1 ELSE 0
         /\ Tries(f)'
  BY <1>1, <1>4, <1>7, OthersAfter
<1>10. Tries(e)'
  <2>1. \A m \in Nodes : ~ Holds(m, e)'
    BY <1>7, <1>8
  <2>2. rounds[e] <= msg[e].attempts /\ msg[e].attempts <= MaxAttempts + replays[e]
    BY <1>2 DEF Inv, TriesTied, Tries, Is
  <2> QED
    BY <1>1, <1>3, <1>4, <1>5, <2>1, <2>2 DEF Tries
<1>11. HoldsClaim'
  BY <1>7, <1>8, <1>9 DEF HoldsClaim
<1>12. ~ Is(e, "DeadLetter")'
  BY <1>5 DEF Is
<1>13. DeadLettersAgree'
  BY <1>4, <1>9, <1>12 DEF DeadLettersAgree
<1>14. TriesTied'
  BY <1>9, <1>10 DEF TriesTied
<1> QED
  BY <1>6, <1>11, <1>13, <1>14 DEF Inv

(* The worker that settles a message is the one that claimed it.            *)
LEMMA SettleKeeps ==
  ASSUME Inv, NEW n \in Nodes, Settle(n)
  PROVE  Inv'
<1>1. /\ task[n] # None /\ task[n].at = "settle" /\ TypeOK /\ Located
      /\ UNCHANGED <<cluster, delivery, up, clock, reached, rounds>>
  BY DEF Settle, At, outside, Inv
<1>2. cluster /\ task[n].todo = {}
  BY <1>1 DEF Located, TypeOK
<1>3. PICK e \in Envelopes : e = Env(n)
  BY <1>1, HasItem
<1>4. Holds(n, e) /\ Is(e, "Claimed") /\ msg[e].by = n
  BY <1>1, <1>2, <1>3 DEF Holds, Inv, HoldsClaim
<1>5. task' \in [Tasks -> Task \cup {None}] /\ Others(n) /\ task'[n] = None
  BY <1>1, <1>2, RestMoves DEF Settle
<1>6. Located' /\ HeldKept /\ faults' \in Nat
  <2>1. LocatedAt(n)' /\ KeptAt(n)
    BY <1>5 DEF LocatedAt, KeptAt
  <2>2. faults' \in Nat
    BY <1>1 DEF Settle, TypeOK, Fault, NoFault
  <2> QED
    BY <1>1, <1>5, <2>1, <2>2, OneMoves, OneKeeps
<1>7. \A m \in Nodes : ~ Holds(m, e)'
  <2> SUFFICES ASSUME NEW m \in Nodes, Holds(m, e)' PROVE FALSE
    OBVIOUS
  <2>1. m = n
    BY <1>4, <1>6 DEF Inv, HoldsClaim, HeldKept
  <2> QED
    BY <1>5, <2>1 DEF Holds
<1>8. CASE UNCHANGED queue
  <2>1. UNCHANGED <<msg, dlq, replays>>
    BY <1>8 DEF queue
  <2>2. TypeOK'
    BY <1>1, <1>5, <1>6, <2>1 DEF TypeOK
  <2> QED
    BY <1>1, <1>6, <2>1, <2>2, QuietStep DEF Inv
<1>9. ASSUME NEW row \in Message, msg' = [msg EXCEPT ![e] = row], UNCHANGED replays,
             row.status # "Claimed",
             dlq' = IF row.status = "DeadLetter" THEN [dlq EXCEPT ![e] = @ + 1] ELSE dlq,
             row.attempts <= MaxAttempts + replays[e],
             rounds[e] <= MaxAttempts + replays[e],
             row.status = "Pending" => row.attempts < MaxAttempts + replays[e],
             row.status \in {"Pending", "DeadLetter"} => rounds[e] <= row.attempts
      PROVE  Inv'
  <2>1. msg'[e] = row /\ row # None /\ dlq[e] = 0
    BY <1>1, <1>4, <1>9 DEF TypeOK, Inv, DeadLettersAgree, Is
  <2>2. OthersKept(e)
    BY <1>1, <1>9 DEF TypeOK, OthersKept
  <2>3. TypeOK'
    BY <1>1, <1>5, <1>6, <1>9 DEF TypeOK
  <2>4. \A f \in Envelopes \ {e} :
         /\ \A m \in Nodes : Holds(m, f)' => Is(f, "Claimed")' /\ msg'[f].by = m
         /\ dlq'[f] = IF Is(f, "DeadLetter")' THEN 1 ELSE 0
         /\ Tries(f)'
    BY <1>1, <1>6, <2>2, OthersAfter DEF HeldKept
  <2>5. dlq'[e] = IF Is(e, "DeadLetter")' THEN 1 ELSE 0
    BY <1>1, <1>9, <2>1 DEF TypeOK, Is
  <2>6. Tries(e)'
    BY <1>1, <1>7, <1>9, <2>1 DEF Tries
  <2>7. HoldsClaim'
    BY <1>7, <2>4 DEF HoldsClaim
  <2>8. DeadLettersAgree'
    BY <2>4, <2>5 DEF DeadLettersAgree
  <2>9. TriesTied'
    BY <2>4, <2>6 DEF TriesTied
  <2> QED
    BY <1>6, <2>3, <2>7, <2>8, <2>9 DEF Inv
<1>10. /\ msg[e] \in Message /\ msg[e].attempts \in Nat /\ replays[e] \in Nat
       /\ rounds[e] \in Nat
       /\ msg[e].attempts < MaxAttempts + replays[e] /\ rounds[e] <= msg[e].attempts + 1
  <2>1. /\ msg[e] \in Message /\ msg[e].attempts \in Nat /\ replays[e] \in Nat
        /\ rounds[e] \in Nat /\ msg[e] # None /\ msg[e].status = "Claimed"
    BY <1>1, <1>4 DEF TypeOK, Is, Message
  <2> QED
    BY <2>1 DEF Inv, TriesTied, Tries
<1>11. CASE Ack(e)
  <2>1. PICK row \in Message : row = [msg[e] EXCEPT !.status = "Acked", !.by = None]
    BY <1>10 DEF Message
  <2>2. row.status = "Acked" /\ row.attempts = msg[e].attempts
    BY <1>10, <2>1 DEF Message
  <2>3. msg' = [msg EXCEPT ![e] = row] /\ UNCHANGED <<dlq, replays>>
    BY <1>1, <1>11, <2>1 DEF Ack, TypeOK
  <2>4. rounds[e] <= MaxAttempts + replays[e] /\ row.attempts <= MaxAttempts + replays[e]
    BY <1>10, <2>2
  <2> QED
    BY <1>9, <2>2, <2>3, <2>4
<1>12. CASE Fail(e)
  <2>1. PICK tries \in Nat : tries = msg[e].attempts + 1
    BY <1>10
  <2>2. PICK status \in {"Pending", "DeadLetter"} :
          status = IF tries >= MaxAttempts THEN "DeadLetter" ELSE "Pending"
    OBVIOUS
  <2>3. PICK row \in Message :
          row = [msg[e] EXCEPT !.status = status, !.attempts = tries, !.by = None]
    BY <1>10 DEF Message
  <2>4. row.status = status /\ row.attempts = tries
    BY <1>10, <2>3 DEF Message
  <2>5. /\ msg' = [msg EXCEPT ![e] = row] /\ UNCHANGED replays
        /\ dlq' = IF row.status = "DeadLetter" THEN [dlq EXCEPT ![e] = @ + 1] ELSE dlq
    BY <1>1, <1>12, <2>1, <2>2, <2>3, <2>4 DEF Fail, TypeOK
  <2>6. /\ row.attempts <= MaxAttempts + replays[e] /\ rounds[e] <= MaxAttempts + replays[e]
        /\ rounds[e] <= row.attempts
        /\ row.status = "Pending" => row.attempts < MaxAttempts + replays[e]
    BY <1>10, <2>1, <2>2, <2>4
  <2> QED
    BY <1>9, <2>2, <2>4, <2>5, <2>6
<1> QED
  BY <1>3, <1>8, <1>11, <1>12 DEF Settle

-----------------------------------------------------------------------------
LEMMA InitInv == Init => Inv
  BY DEF Init, Inv, TypeOK, Located, HoldsClaim, Holds, DeadLettersAgree, TriesTied, Tries, Is

LEMMA QuietKeeps ==
  ASSUME Inv, TypeOK' /\ Located' /\ HeldKept, UNCHANGED <<msg, dlq, replays, rounds>>
  PROVE  Inv'
  BY QuietStep DEF Inv

LEMMA NextInv == Inv /\ [Next]_vars => Inv'
<1> SUFFICES ASSUME Inv, [Next]_vars PROVE Inv'
  OBVIOUS
<1>1. TypeOK /\ Located
  BY DEF Inv
<1>2. ASSUME NEW t \in Tasks, Check(t) PROVE Inv'
  BY <1>1, <1>2, CheckTypes, QuietKeeps DEF Check, queue
<1>3. ASSUME NEW t \in Tasks, Dispatch(t) PROVE Inv'
  BY <1>1, <1>3, DispatchTypes, DispatchQueue DEF Inv
<1>4. ASSUME NEW t \in Tasks, Record(t) PROVE Inv'
  BY <1>1, <1>4, RecordTypes, QuietKeeps DEF Record, queue
<1>5. ASSUME NEW s \in Senders, Respond(s) PROVE Inv'
  BY <1>1, <1>5, RespondTypes, QuietKeeps DEF Respond, queue
<1>6. ASSUME NEW s \in Senders, Enqueue(s) PROVE Inv'
  BY <1>1, <1>6, EnqueueTypes, EnqueueQueue DEF Inv
<1>7. ASSUME NEW n \in Nodes, List(n) PROVE Inv'
  BY <1>1, <1>7, ListTypes, QuietKeeps DEF List, queue
<1>8. ASSUME NEW n \in Nodes, Pick(n) PROVE Inv'
  BY <1>1, <1>8, PickTypes, QuietKeeps DEF Pick, queue
<1>9. ASSUME NEW n \in Nodes, Crash(n) PROVE Inv'
  BY <1>1, <1>9, CrashTypes, QuietKeeps DEF Crash, queue
<1>10. ASSUME NEW e \in Envelopes, Connect(e) PROVE Inv'
  BY <1>1, <1>10, ConnectTypes, QuietKeeps DEF Connect, queue
<1>11. ASSUME UNCHANGED vars PROVE Inv'
  BY <1>11 DEF vars, Inv, TypeOK, Located, HoldsClaim, Holds, Env, DeadLettersAgree, TriesTied,
               Tries, Is
<1> QED
  BY <1>2, <1>3, <1>4, <1>5, <1>6, <1>7, <1>8, <1>9, <1>10, <1>11, ClaimKeeps, SettleKeeps,
     ReplayKeepsInv
  DEF Next, Send, Work

LEMMA InvHolds == Spec => []Inv
  BY InitInv, NextInv, PTL DEF Spec

(* What the tables and the tasks hold, for every deployment.                *)
THEOREM TypeCorrect == Spec => []TypeOK
<1>1. Inv => TypeOK
  BY DEF Inv
<1> QED
  BY <1>1, InvHolds, PTL

(* No two workers have one message in hand: settling and replaying write by *)
(* id, yet only a claimed message is in a hand, and only a message that no  *)
(* hand has is in the dead letters.                                         *)
THEOREM HolderUnique == Spec => []OneHolder
<1>1. Inv => OneHolder
  BY DEF Inv, HoldsClaim, OneHolder
<1> QED
  BY <1>1, InvHolds, PTL

(* The dead letters list exactly the messages the queue gave up, once each. *)
THEOREM DeadLettersRight == Spec => []DeadLettersAgree
<1>1. Inv => DeadLettersAgree
  BY DEF Inv
<1> QED
  BY <1>1, InvHolds, PTL

(* Workers send a message MaxAttempts times at most, plus once per replay.  *)
THEOREM BoundedRetry == Spec => []RoundsBounded
<1>1. Inv => RoundsBounded
  <2> SUFFICES ASSUME Inv, NEW e \in Envelopes
               PROVE  rounds[e] <= MaxAttempts + replays[e]
    BY DEF RoundsBounded
  <2>1. rounds[e] \in Nat /\ replays[e] \in Nat
    BY DEF Inv, TypeOK
  <2> QED
    BY <2>1 DEF Inv, TriesTied, Tries
<1> QED
  BY <1>1, InvHolds, PTL

(* An acknowledged message stays acknowledged.                              *)
THEOREM AckedForGood == Spec => AckIsFinal
<1>1. ASSUME Inv, [Next]_vars, NEW e \in Envelopes, Is(e, "Acked") PROVE Is(e, "Acked")'
  <2>1. msg[e] # None /\ msg[e].status = "Acked" /\ dlq[e] = 0
    BY <1>1 DEF Is, Inv, DeadLettersAgree
  <2>2. \A n \in Nodes : ~ Holds(n, e)
    BY <1>1, <2>1 DEF Inv, HoldsClaim, Is
  <2>3. msg'[e] = msg[e]
    <3>1. CASE UNCHANGED msg
      BY <3>1
    <3>2. ASSUME NEW s \in Senders, Enqueue(s) PROVE msg'[e] = msg[e]
      BY <1>1, <2>1, <3>2 DEF Enqueue, Inv, TypeOK
    <3>3. ASSUME NEW n \in Nodes, Claim(n) PROVE msg'[e] = msg[e]
      BY <1>1, <2>1, <3>3 DEF Claim, Is, Inv, TypeOK
    <3>4. ASSUME NEW n \in Nodes, Settle(n) PROVE msg'[e] = msg[e]
      <4>1. Env(n) # e
        BY <1>1, <2>2, <3>4 DEF Settle, At, Holds, Inv, Located
      <4> QED
        BY <1>1, <3>4, <4>1 DEF Settle, Ack, Fail, queue, Inv, TypeOK
    <3>5. ASSUME NEW f \in Envelopes, Replay(f) PROVE msg'[e] = msg[e]
      BY <1>1, <2>1, <3>5 DEF Replay, Inv, TypeOK
    <3> QED
      BY <1>1, <3>1, <3>2, <3>3, <3>4, <3>5
      DEF Next, Send, Work, vars, Check, Dispatch, Record, Respond, List, Pick, Crash, Connect, queue
  <2> QED
    BY <1>1, <2>3 DEF Is
<1>2. Inv /\ [Next]_vars => [\A e \in Envelopes : Is(e, "Acked") => Is(e, "Acked")']_vars
  BY <1>1
<1> QED
  BY <1>2, InvHolds, PTL DEF Spec, AckIsFinal

-----------------------------------------------------------------------------
(* No response is lost without a fault.                                     *)

(* A task that goes on with ok saw the transport take the text.             *)
OkAt(t) ==
  task[t] # None /\ task[t].at \in {"record", "settle"} /\ task[t].ok => Env(t) \in reached
OkReached == \A t \in Tasks : OkAt(t)

(* What is marked sent or acknowledged has reached its recipient.           *)
SentReached == \A e \in Envelopes : Sent(e) => e \in reached
AckReached == \A e \in Envelopes : Is(e, "Acked") => e \in reached

(* Without a crash a claimed message is in its worker's hand.               *)
ClaimHeld == \A e \in Envelopes : cluster /\ Is(e, "Claimed") => \E n \in Nodes : Holds(n, e)

(* In a cluster a response that is recorded and did not get through is      *)
(* queued, or on its way to the queue.                                      *)
InHand(e) == \E s \in Senders : task[s] # None /\ Env(s) = e
Queued ==
  \A e \in Envelopes : cluster /\ Recorded(e) => e \in reached \/ msg[e] # None \/ InHand(e)

Whole == OkReached /\ SentReached /\ AckReached /\ ClaimHeld /\ Queued

(* One task moves and no table is written.                                  *)
LEMMA MoveWhole ==
  ASSUME Whole, NEW t \in Tasks, Others(t), UNCHANGED <<cluster, msg, delivery>>,
         reached \subseteq reached', OkAt(t)',
         cluster /\ task[t] # None =>
           \/ task'[t] # None /\ Env(t)' = Env(t)
           \/ t \in Senders /\ Env(t) \in reached'
  PROVE  Whole'
<1>1. OkReached'
  <2> SUFFICES ASSUME NEW u \in Tasks PROVE OkAt(u)'
    BY DEF OkReached
  <2>1. CASE u # t
    BY <2>1 DEF Others, Whole, OkReached, OkAt, Env
  <2> QED
    BY <2>1
<1>2. SentReached' /\ AckReached'
  BY DEF Whole, SentReached, AckReached, Sent, Recorded, Is
<1>3. ClaimHeld'
  <2> SUFFICES ASSUME NEW e \in Envelopes, cluster, Is(e, "Claimed")
               PROVE  \E n \in Nodes : Holds(n, e)'
    BY DEF ClaimHeld, Is
  <2>1. PICK n \in Nodes : Holds(n, e)
    BY DEF Whole, ClaimHeld
  <2>2. CASE n # t
    BY <2>1, <2>2 DEF Holds, Others, Env, Tasks
  <2>3. CASE n = t
    <3>1. n \notin Senders
      BY OutboxAssumption
    <3> QED
      BY <2>1, <2>3, <3>1 DEF Holds
  <2> QED
    BY <2>2, <2>3
<1>4. Queued'
  <2> SUFFICES ASSUME NEW e \in Envelopes, cluster, Recorded(e), e \notin reached', msg[e] = None
               PROVE  InHand(e)'
    BY DEF Queued, Recorded
  <2>1. PICK s \in Senders : task[s] # None /\ Env(s) = e
    BY DEF Whole, Queued, InHand
  <2>2. CASE s # t
    BY <2>1, <2>2 DEF InHand, Others, Env, Tasks
  <2>3. CASE s = t
    BY <2>1, <2>3 DEF InHand
  <2> QED
    BY <2>2, <2>3
<1> QED
  BY <1>1, <1>2, <1>3, <1>4 DEF Whole

(* One worker moves and writes the message it claims or settles.            *)
LEMMA WriteWhole ==
  ASSUME Whole, NEW n \in Nodes, Others(n), UNCHANGED <<cluster, delivery, reached>>, OkAt(n)',
         NEW e \in Envelopes, msg[e] # None, msg'[e] # None,
         \A f \in Envelopes \ {e} : msg'[f] = msg[f],
         task[n] = None \/ Env(n) = e,
         Is(e, "Acked")' => e \in reached,
         Is(e, "Claimed")' => Holds(n, e)'
  PROVE  Whole'
<1>1. OkReached'
  <2> SUFFICES ASSUME NEW u \in Tasks PROVE OkAt(u)'
    BY DEF OkReached
  <2>1. CASE u # n
    BY <2>1 DEF Others, Whole, OkReached, OkAt, Env
  <2> QED
    BY <2>1
<1>2. SentReached'
  BY DEF Whole, SentReached, Sent, Recorded
<1>3. AckReached'
  <2> SUFFICES ASSUME NEW f \in Envelopes, Is(f, "Acked")' PROVE f \in reached
    BY DEF AckReached
  <2>1. CASE f # e
    BY <2>1 DEF Whole, AckReached, Is
  <2> QED
    BY <2>1
<1>4. ClaimHeld'
  <2> SUFFICES ASSUME NEW f \in Envelopes, cluster, Is(f, "Claimed")'
               PROVE  \E m \in Nodes : Holds(m, f)'
    BY DEF ClaimHeld
  <2>1. CASE f # e
    <3>1. PICK m \in Nodes : Holds(m, f)
      BY <2>1 DEF Whole, ClaimHeld, Is
    <3>2. m # n
      BY <2>1, <3>1 DEF Holds
    <3> QED
      BY <3>1, <3>2 DEF Holds, Others, Env, Tasks
  <2> QED
    BY <2>1
<1>5. Queued'
  <2> SUFFICES ASSUME NEW f \in Envelopes, cluster, Recorded(f), f \notin reached, msg'[f] = None
               PROVE  InHand(f)'
    BY DEF Queued, Recorded
  <2>1. f # e /\ msg[f] = None
    OBVIOUS
  <2>2. PICK s \in Senders : task[s] # None /\ Env(s) = f
    BY <2>1 DEF Whole, Queued, InHand
  <2>3. s # n
    BY OutboxAssumption
  <2> QED
    BY <2>2, <2>3 DEF InHand, Others, Env, Tasks
<1> QED
  BY <1>1, <1>2, <1>3, <1>4, <1>5 DEF Whole

(* A check drops only a response that is marked sent.                       *)
LEMMA CheckWhole ==
  ASSUME Inv, Whole, NEW t \in Tasks, Check(t), UNCHANGED faults
  PROVE  Whole'
<1>1. /\ task[t] # None /\ task[t].at = "check"
      /\ UNCHANGED <<cluster, msg, delivery, reached>>
  BY DEF Check, At, outside, queue
<1>2. Env(t) \in Envelopes /\ faults \in Nat
  BY <1>1, HasItem DEF Inv, TypeOK
<1>3. CASE Sent(Env(t)) /\ Rest(t)
  <2>1. Others(t) /\ (task'[t] = None \/ task'[t].at = "next")
    BY <1>1, <1>3, RestMoves DEF Inv
  <2>2. cluster => t \in Senders
    BY <1>1 DEF Inv, Located, Tasks
  <2>3. Env(t) \in reached
    BY <1>2, <1>3 DEF Whole, SentReached
  <2> QED
    BY <1>1, <2>1, <2>2, <2>3, MoveWhole DEF OkAt
<1>4. CASE GoOn(t, "send")
  <2>1. Others(t) /\ task'[t] # None /\ task'[t].at = "send" /\ Env(t)' = Env(t)
    <3>1. task'[t] \in Task
      BY <1>1, <1>4, GoOnMoves DEF Inv
    <3> QED
      BY <1>1, <1>4, <3>1, GoOnMoves, NoneAssumption DEF Inv, Env
  <2> QED
    BY <1>1, <2>1, MoveWhole DEF OkAt
<1> QED
  BY <1>3, <1>4 DEF Check

(* Without a fault a dispatch reports success for what got through.         *)
LEMMA DispatchWhole ==
  ASSUME Inv, Whole, NEW t \in Tasks, Dispatch(t), UNCHANGED faults
  PROVE  Whole'
<1>1. task[t] # None /\ task[t].at = "send" /\ UNCHANGED <<cluster, msg, delivery>>
  BY DEF Dispatch, At, outside, queue
<1>2. faults \in Nat /\ task \in [Tasks -> Task \cup {None}] /\ task[t] \in Task
  BY <1>1 DEF Inv, TypeOK
<1>3. PICK ok \in BOOLEAN :
        /\ task' = [task EXCEPT ![t].at = "record", ![t].ok = ok]
        /\ (ok /\ Env(t) \in reached') \/ ~ ok
        /\ reached \subseteq reached'
  BY <1>2 DEF Dispatch, Fault
<1>4. Others(t) /\ task'[t] # None /\ Env(t)' = Env(t)
  <2>1. task'[t] \in Task
    BY DispatchMoves DEF Inv
  <2> QED
    BY <2>1, DispatchMoves, NoneAssumption DEF Inv, Env
<1>5. task'[t].ok = ok
  BY <1>2, <1>3 DEF Task
<1>6. OkAt(t)'
  BY <1>3, <1>4, <1>5 DEF OkAt
<1> QED
  BY <1>1, <1>3, <1>4, <1>6, MoveWhole

(* A row is marked sent after a success only; a sender that failed goes on  *)
(* to the queue, and what a worker of a cluster failed to send is queued.   *)
LEMMA RecordWhole ==
  ASSUME Inv, Whole, NEW t \in Tasks, Record(t), UNCHANGED faults
  PROVE  Whole'
<1> DEFINE row == [status |-> IF task[t].ok THEN "sent" ELSE "failed",
                   stamp |-> task[t].item.stamp]
<1>1. /\ task[t] # None /\ task[t].at = "record"
      /\ UNCHANGED <<cluster, msg, dlq, replays, reached>>
  BY DEF Record, At, outside, queue
<1>2. faults \in Nat /\ task \in [Tasks -> Task \cup {None}] /\ task[t] \in Task
  BY <1>1 DEF Inv, TypeOK
<1>3. PICK e \in Envelopes : e = Env(t)
  BY <1>1, HasItem DEF Inv
<1>4. delivery' = [delivery EXCEPT ![e] = row]
  BY <1>2, <1>3 DEF Record, Fault
<1>5. delivery'[e] = row /\ \A f \in Envelopes \ {e} : delivery'[f] = delivery[f]
  BY <1>4 DEF Inv, TypeOK
<1>6. task[t].ok => e \in reached
  BY <1>1, <1>3 DEF Whole, OkReached, OkAt
<1>7. /\ Others(t)
      /\ \/ task'[t] = None /\ (cluster => task[t].ok /\ t \in Senders)
         \/ task'[t] # None /\ task'[t].at = "next" /\ ~ cluster
         \/ task'[t] # None /\ task'[t].at = "settle" /\ task'[t].ok = task[t].ok /\ Env(t)' = e
         \/ task'[t] # None /\ task'[t].at = "enqueue" /\ Env(t)' = e
  <2>1. CASE cluster /\ t \in Nodes
    <3>1. GoOn(t, "settle")
      BY <2>1 DEF Record
    <3>2. task'[t] \in Task /\ task'[t] # None
      BY <1>1, <3>1, GoOnMoves, NoneAssumption DEF Inv
    <3>3. task'[t] = [task[t] EXCEPT !.at = "settle"] /\ Others(t)
      BY <1>1, <3>1, GoOnMoves DEF Inv
    <3> QED
      BY <1>2, <1>3, <3>2, <3>3 DEF Task, Env
  <2>2. CASE ~ (cluster /\ t \in Nodes) /\ cluster /\ ~ task[t].ok
    <3>1. GoOn(t, "enqueue")
      BY <2>2 DEF Record
    <3>2. task'[t] \in Task /\ task'[t] # None
      BY <1>1, <3>1, GoOnMoves, NoneAssumption DEF Inv
    <3>3. task'[t] = [task[t] EXCEPT !.at = "enqueue"] /\ Others(t)
      BY <1>1, <3>1, GoOnMoves DEF Inv
    <3> QED
      BY <1>2, <1>3, <3>2, <3>3 DEF Task, Env
  <2>3. CASE ~ (cluster /\ t \in Nodes) /\ ~ (cluster /\ ~ task[t].ok)
    <3>1. Rest(t)
      BY <2>3 DEF Record
    <3>2. /\ Others(t)
          /\ \/ task'[t] = None
             \/ task'[t] \in Task /\ task'[t].at = "next" /\ t \notin Senders
      BY <1>1, <3>1, RestMoves DEF Inv
    <3> QED
      BY <2>3, <3>2, NoneAssumption DEF Tasks
  <2> QED
    BY <2>1, <2>2, <2>3
<1>8. OkReached'
  <2> SUFFICES ASSUME NEW u \in Tasks PROVE OkAt(u)'
    BY DEF OkReached
  <2>1. CASE u # t
    BY <1>1, <1>7, <2>1 DEF Others, Whole, OkReached, OkAt, Env
  <2>2. CASE u = t
    BY <1>1, <1>6, <1>7, <2>2 DEF OkAt
  <2> QED
    BY <2>1, <2>2
<1>9. SentReached'
  <2> SUFFICES ASSUME NEW f \in Envelopes, Sent(f)' PROVE f \in reached
    BY <1>1 DEF SentReached
  <2>1. CASE f = e
    BY <1>5, <1>6, <2>1 DEF Sent, Recorded
  <2>2. CASE f # e
    BY <1>5, <2>2 DEF Whole, SentReached, Sent, Recorded
  <2> QED
    BY <2>1, <2>2
<1>10. AckReached'
  BY <1>1 DEF Whole, AckReached, Is
<1>11. ClaimHeld'
  <2> SUFFICES ASSUME NEW f \in Envelopes, cluster, Is(f, "Claimed")
               PROVE  \E n \in Nodes : Holds(n, f)'
    BY <1>1 DEF ClaimHeld, Is
  <2>1. PICK n \in Nodes : Holds(n, f)
    BY DEF Whole, ClaimHeld
  <2>2. CASE n # t
    BY <1>1, <1>7, <2>1, <2>2 DEF Holds, Others, Env, Tasks
  <2>3. CASE n = t
    <3>1. n \notin Senders
      BY OutboxAssumption
    <3> QED
      BY <1>1, <1>3, <1>7, <2>1, <2>3, <3>1 DEF Holds
  <2> QED
    BY <2>2, <2>3
<1>12. Queued'
  <2> SUFFICES ASSUME NEW f \in Envelopes, cluster, Recorded(f)', f \notin reached, msg[f] = None
               PROVE  InHand(f)'
    BY <1>1 DEF Queued
  <2>1. CASE f = e
    <3>1. t \in Senders
      <4>1. t \in Nodes => msg[e] # None
        BY <1>1, <1>3 DEF Inv, HoldsClaim, Holds, Is
      <4> QED
        BY <2>1, <4>1 DEF Tasks
    <3>2. task'[t] # None /\ Env(t)' = e
      BY <1>6, <1>7, <2>1
    <3> QED
      BY <2>1, <3>1, <3>2 DEF InHand
  <2>2. CASE f # e
    <3>1. PICK s \in Senders : task[s] # None /\ Env(s) = f
      BY <1>5, <2>2 DEF Whole, Queued, InHand, Recorded
    <3>2. s # t
      BY <1>3, <2>2, <3>1
    <3> QED
      BY <1>7, <3>1, <3>2 DEF InHand, Others, Env, Tasks
  <2> QED
    BY <2>1, <2>2
<1> QED
  BY <1>8, <1>9, <1>10, <1>11, <1>12 DEF Whole

(* After the insertion the response has a message, an older one or its own. *)
LEMMA EnqueueWhole ==
  ASSUME Inv, Whole, NEW s \in Senders, Enqueue(s), UNCHANGED faults
  PROVE  Whole'
<1>1. /\ task[s] # None /\ task[s].at = "enqueue" /\ s \in Tasks /\ s \notin Nodes
      /\ UNCHANGED <<cluster, delivery, reached>>
  BY OutboxAssumption DEF Enqueue, At, outside, Tasks
<1>2. PICK e \in Envelopes : e = Env(s)
  BY <1>1, HasItem DEF Inv
<1>3. msg' = [msg EXCEPT ![e] = IF @ = None THEN NewMessage(s) ELSE @]
  BY <1>2 DEF Enqueue, Fault, Inv, TypeOK
<1>4. NewMessage(s) \in Message /\ NewMessage(s) # None /\ NewMessage(s).status = "Pending"
  BY <1>1, HasItem, NoneAssumption DEF Inv, NewMessage, Message
<1>5. /\ \A f \in Envelopes : msg'[f] = msg[f] \/ (msg[f] = None /\ msg'[f] = NewMessage(s))
      /\ msg'[e] # None
  BY <1>3, <1>4 DEF Inv, TypeOK
<1>6. Others(s) /\ (task'[s] = None \/ task'[s].at = "next")
  BY <1>1, RestMoves DEF Enqueue, Inv
<1>7. OkReached'
  <2> SUFFICES ASSUME NEW u \in Tasks PROVE OkAt(u)'
    BY DEF OkReached
  <2>1. CASE u # s
    BY <1>1, <1>6, <2>1 DEF Others, Whole, OkReached, OkAt, Env
  <2>2. CASE u = s
    BY <1>6, <2>2 DEF OkAt
  <2> QED
    BY <2>1, <2>2
<1>8. SentReached'
  BY <1>1 DEF Whole, SentReached, Sent, Recorded
<1>9. AckReached'
  BY <1>1, <1>4, <1>5 DEF Whole, AckReached, Is
<1>10. ClaimHeld'
  <2> SUFFICES ASSUME NEW f \in Envelopes, cluster, Is(f, "Claimed")'
               PROVE  \E n \in Nodes : Holds(n, f)'
    BY <1>1 DEF ClaimHeld
  <2>1. Is(f, "Claimed")
    BY <1>4, <1>5 DEF Is
  <2>2. PICK n \in Nodes : Holds(n, f)
    BY <2>1 DEF Whole, ClaimHeld
  <2> QED
    BY <1>1, <1>6, <2>2 DEF Holds, Others, Env, Tasks
<1>11. Queued'
  <2> SUFFICES ASSUME NEW f \in Envelopes, cluster, Recorded(f), f \notin reached, msg'[f] = None
               PROVE  InHand(f)'
    BY <1>1 DEF Queued, Recorded
  <2>1. f # e /\ msg[f] = None
    BY <1>4, <1>5
  <2>2. PICK r \in Senders : task[r] # None /\ Env(r) = f
    BY <2>1 DEF Whole, Queued, InHand
  <2>3. r # s
    BY <1>2, <2>1, <2>2
  <2> QED
    BY <1>6, <2>2, <2>3 DEF InHand, Others, Env, Tasks
<1> QED
  BY <1>7, <1>8, <1>9, <1>10, <1>11 DEF Whole

(* A claimed message is in the hand of the worker that claimed it.          *)
LEMMA ClaimWhole ==
  ASSUME Inv, Whole, NEW n \in Nodes, Claim(n)
  PROVE  Whole'
<1>1. cluster /\ task[n] = None /\ UNCHANGED <<cluster, delivery, reached>> /\ n \in Tasks
  BY DEF Claim, outside, Tasks
<1>2. PICK e \in Envelopes :
        /\ Is(e, "Pending")
        /\ msg' = [msg EXCEPT ![e].status = "Claimed", ![e].by = n]
        /\ Starts(n, "send", [env |-> e, stamp |-> msg[e].stamp])
  BY DEF Claim
<1>3. msg[e] \in Message /\ msg[e] # None
  BY <1>2 DEF Is, Inv, TypeOK
<1>4. /\ msg'[e] = [msg[e] EXCEPT !.status = "Claimed", !.by = n]
      /\ \A f \in Envelopes \ {e} : msg'[f] = msg[f]
  BY <1>2 DEF Inv, TypeOK
<1>5. msg'[e] \in Message /\ msg'[e].status = "Claimed"
  BY <1>3, <1>4 DEF Message
<1>6. [env |-> e, stamp |-> msg[e].stamp] \in Item
  BY <1>3 DEF Item, Message
<1>7. Others(n) /\ task'[n] \in Task /\ task'[n].at = "send"
      /\ task'[n].item = [env |-> e, stamp |-> msg[e].stamp]
  BY <1>1, <1>2, <1>6, StartsMoves DEF Inv
<1>8. OkAt(n)' /\ Holds(n, e)' /\ ~ Is(e, "Acked")' /\ msg'[e] # None
  BY <1>1, <1>5, <1>7, NoneAssumption DEF OkAt, Holds, Env, Is
<1> QED
  BY <1>1, <1>3, <1>4, <1>7, <1>8, WriteWhole

(* What is acknowledged was sent; a failure goes back or is given up.       *)
LEMMA SettleWhole ==
  ASSUME Inv, Whole, NEW n \in Nodes, Settle(n), UNCHANGED faults
  PROVE  Whole'
<1>1. /\ task[n] # None /\ task[n].at = "settle" /\ n \in Tasks
      /\ UNCHANGED <<cluster, delivery, reached>>
  BY DEF Settle, At, outside, Tasks
<1>2. cluster /\ task[n].todo = {}
  BY <1>1 DEF Inv, Located
<1>3. PICK e \in Envelopes : e = Env(n)
  BY <1>1, HasItem DEF Inv
<1>4. msg[e] # None /\ msg[e] \in Message
  BY <1>1, <1>2, <1>3 DEF Inv, HoldsClaim, Holds, Is, TypeOK
<1>5. Others(n) /\ task'[n] = None
  BY <1>1, <1>2, RestMoves DEF Settle, Inv
<1>6. PICK status \in {"Acked", "DeadLetter", "Pending"}, tries \in Nat :
        /\ msg' = [msg EXCEPT ![e].status = status, ![e].attempts = tries, ![e].by = None]
        /\ status = "Acked" => task[n].ok
  <2>1. CASE task[n].ok
    <3>1. msg' = [msg EXCEPT ![e].status = "Acked", ![e].by = None]
      BY <1>3, <2>1 DEF Settle, Ack, Fault, Inv, TypeOK
    <3>2. [msg[e] EXCEPT !.status = "Acked", !.by = None]
            = [msg[e] EXCEPT !.status = "Acked", !.attempts = msg[e].attempts, !.by = None]
      BY <1>4 DEF Message
    <3>3. msg' = [msg EXCEPT ![e].status = "Acked", ![e].attempts = msg[e].attempts,
                             ![e].by = None]
      BY <1>4, <3>1, <3>2
    <3>4. msg[e].attempts \in Nat
      BY <1>4 DEF Message
    <3> QED
      BY <2>1, <3>3, <3>4
  <2>2. CASE ~ task[n].ok
    <3>1. msg[e].attempts + 1 \in Nat
      BY <1>4 DEF Message
    <3>2. Fail(e)
      BY <1>3, <2>2 DEF Settle, Fault, Inv, TypeOK
    <3>3. CASE msg[e].attempts + 1 >= MaxAttempts
      <4>1. msg' = [msg EXCEPT ![e].status = "DeadLetter", ![e].attempts = msg[e].attempts + 1,
                               ![e].by = None]
        BY <3>2, <3>3 DEF Fail
      <4> QED
        BY <3>1, <4>1
    <3>4. CASE ~ (msg[e].attempts + 1 >= MaxAttempts)
      <4>1. msg' = [msg EXCEPT ![e].status = "Pending", ![e].attempts = msg[e].attempts + 1,
                               ![e].by = None]
        BY <3>2, <3>4 DEF Fail
      <4> QED
        BY <3>1, <4>1
    <3> QED
      BY <3>3, <3>4
  <2> QED
    BY <2>1, <2>2
<1>7. /\ msg'[e] = [msg[e] EXCEPT !.status = status, !.attempts = tries, !.by = None]
      /\ \A f \in Envelopes \ {e} : msg'[f] = msg[f]
  BY <1>6 DEF Inv, TypeOK
<1>8. msg'[e] \in Message /\ msg'[e].status = status
  <2>1. status \in {"Pending", "Claimed", "Acked", "DeadLetter"} /\ tries \in Nat
    BY <1>6
  <2> QED
    BY <1>4, <1>7, <2>1 DEF Message
<1>9. Is(e, "Acked")' => e \in reached
  BY <1>1, <1>3, <1>6, <1>8 DEF Is, Whole, OkReached, OkAt
<1>10. ~ Is(e, "Claimed")' /\ msg'[e] # None /\ OkAt(n)'
  BY <1>5, <1>6, <1>8, NoneAssumption DEF Is, OkAt
<1> QED
  BY <1>1, <1>3, <1>4, <1>5, <1>7, <1>9, <1>10, WriteWhole

(* A replay brings back a message that was given up.                        *)
LEMMA ReplayWhole ==
  ASSUME Inv, Whole, NEW e \in Envelopes, Replay(e)
  PROVE  Whole'
<1>1. /\ dlq[e] > 0 /\ UNCHANGED <<cluster, task, delivery, reached>>
      /\ msg' = [msg EXCEPT ![e].status = "Pending", ![e].by = None]
  BY DEF Replay, outside
<1>2. Is(e, "DeadLetter") /\ msg[e] \in Message
  BY <1>1 DEF Inv, TypeOK, DeadLettersAgree, Is
<1>3. /\ msg'[e] = [msg[e] EXCEPT !.status = "Pending", !.by = None]
      /\ \A f \in Envelopes \ {e} : msg'[f] = msg[f]
  BY <1>1 DEF Inv, TypeOK
<1>4. msg'[e] \in Message /\ msg'[e].status = "Pending" /\ msg'[e] # None
  BY <1>2, <1>3, NoneAssumption DEF Message
<1>5. \A f \in Envelopes :
        /\ Is(f, "Acked")' => Is(f, "Acked")
        /\ Is(f, "Claimed")' => Is(f, "Claimed")
        /\ msg'[f] = None => msg[f] = None
  BY <1>3, <1>4 DEF Is
<1>6. OkReached' /\ SentReached'
  BY <1>1 DEF Whole, OkReached, OkAt, SentReached, Sent, Recorded, Env
<1>7. AckReached'
  BY <1>1, <1>5 DEF Whole, AckReached
<1>8. ClaimHeld'
  BY <1>1, <1>5 DEF Whole, ClaimHeld, Holds, Env
<1>9. Queued'
  BY <1>1, <1>5 DEF Whole, Queued, InHand, Recorded, Env
<1> QED
  BY <1>6, <1>7, <1>8, <1>9 DEF Whole

(* Every step without a fault keeps a response where it can be found.       *)
LEMMA NextWhole ==
  ASSUME Inv, Whole, [Next]_vars, UNCHANGED faults
  PROVE  Whole'
<1>1. faults \in Nat
  BY DEF Inv, TypeOK
<1>2. ASSUME NEW t \in Tasks, Check(t) \/ Dispatch(t) \/ Record(t) PROVE Whole'
  BY <1>2, CheckWhole, DispatchWhole, RecordWhole
<1>3. ASSUME NEW s \in Senders, Respond(s) PROVE Whole'
  <2>1. s \in Tasks /\ task[s] = None /\ UNCHANGED <<cluster, msg, delivery, reached>>
    BY <1>3 DEF Respond, queue, Tasks
  <2>2. [env |-> EnvelopeOf[s], stamp |-> clock + 1] \in Item
    BY OutboxAssumption DEF Item, Inv, TypeOK
  <2>3. Others(s) /\ task'[s].at = "check"
    BY <1>3, <2>1, <2>2, StartsMoves DEF Respond, Inv
  <2> QED
    BY <2>1, <2>3, MoveWhole DEF OkAt
<1>4. ASSUME NEW n \in Nodes, List(n) \/ Pick(n) PROVE Whole'
  <2>1. n \in Tasks /\ UNCHANGED <<cluster, msg, delivery, reached>>
    BY <1>4 DEF List, Pick, outside, queue, Tasks
  <2>2. ~ cluster
    <3>1. CASE List(n)
      BY <3>1 DEF List
    <3>2. CASE Pick(n)
      BY <3>2 DEF Pick, At, Inv, Located, Tasks
    <3> QED
      BY <1>4, <3>1, <3>2
  <2>3. task \in [Tasks -> Task \cup {None}]
    BY DEF Inv, TypeOK
  <2>4. Others(n) /\ task'[n].at \in {"next", "check"}
    <3>1. CASE List(n)
      BY <2>1, <2>3, <3>1 DEF List, Others
    <3>2. CASE Pick(n)
      <4>1. task[n] \in Task
        BY <2>1, <2>3, <3>2 DEF Pick, At
      <4>2. PICK item \in task[n].todo :
              task' = [task EXCEPT ![n].at = "check", ![n].item = item, ![n].todo = @ \ {item}]
        BY <3>2 DEF Pick
      <4>3. task'[n] = [task[n] EXCEPT !.at = "check", !.item = item, !.todo = @ \ {item}]
        BY <2>1, <2>3, <4>2
      <4> QED
        BY <2>1, <2>3, <4>1, <4>2, <4>3 DEF Others, Task
    <3> QED
      BY <1>4, <3>1, <3>2
  <2> QED
    BY <2>1, <2>2, <2>4, MoveWhole DEF OkAt
<1>5. ASSUME NEW n \in Nodes, Crash(n) PROVE FALSE
  BY <1>1, <1>5 DEF Crash, Fault
<1>6. ASSUME NEW e \in Envelopes, Connect(e) PROVE Whole'
  <2>1. UNCHANGED <<cluster, msg, delivery, task, reached>>
    BY <1>6 DEF Connect, queue
  <2> QED
    BY <2>1 DEF Whole, OkReached, OkAt, SentReached, AckReached, ClaimHeld, Queued, InHand,
                Holds, Is, Sent, Recorded, Env
<1>7. ASSUME UNCHANGED vars PROVE Whole'
  BY <1>7 DEF vars, Whole, OkReached, OkAt, SentReached, AckReached, ClaimHeld, Queued, InHand,
              Holds, Is, Sent, Recorded, Env
<1>8. ASSUME NEW s \in Senders, Send(s) PROVE Whole'
  BY <1>2, <1>3, <1>8, EnqueueWhole DEF Send, Tasks
<1>9. ASSUME NEW n \in Nodes, Work(n) PROVE Whole'
  BY <1>2, <1>4, <1>9, ClaimWhole, SettleWhole DEF Work, Tasks
<1> QED
  BY <1>5, <1>6, <1>7, <1>8, <1>9, ReplayWhole DEF Next

(* Without store and transport errors and without crashes, a response that  *)
(* was recorded is delivered, in its sender's hand, marked failed where the *)
(* worker looks for it, or in the queue: claimable, in a worker's hand or   *)
(* in the dead letters.                                                     *)
THEOREM NoResponseLost == Spec => []Accounted
<1> DEFINE Kept == faults = 0 => Whole
<1>1. Init => Kept
  BY DEF Init, Whole, OkReached, OkAt, SentReached, AckReached, ClaimHeld, Queued, Is, Sent, Recorded
<1>2. Inv /\ Kept /\ [Next]_vars => Kept'
  <2> SUFFICES ASSUME Inv, Kept, [Next]_vars, faults' = 0 PROVE Whole'
    OBVIOUS
  <2>1. faults = 0
    <3>1. faults \in Nat
      BY DEF Inv, TypeOK
    <3>2. faults' = faults \/ faults' = faults + 1
      BY DEF Next, Send, Work, vars, Respond, Check, Dispatch, Record, Enqueue, List, Pick, Claim,
             Settle, Crash, Replay, Connect, Fault, NoFault
    <3> QED
      BY <3>1, <3>2
  <2> QED
    BY <2>1, NextWhole
<1>3. Inv /\ Kept => Accounted
  <2> SUFFICES ASSUME Inv, Whole, NEW e \in Envelopes, Recorded(e), ~ InHand(e), e \notin reached
               PROVE  \/ ~ cluster /\ Failed(e)
                      \/ cluster /\ msg[e] # None /\ ~ Is(e, "Acked") /\ ~ Stranded(e)
    BY DEF Accounted, InHand
  <2>1. CASE ~ cluster
    <3>1. delivery[e] \in Delivery
      BY DEF Inv, TypeOK, Recorded
    <3>2. ~ Sent(e)
      BY DEF Whole, SentReached
    <3> QED
      BY <2>1, <3>1, <3>2 DEF Failed, Sent, Recorded, Delivery
  <2>2. CASE cluster
    BY <2>2 DEF Whole, Queued, AckReached, ClaimHeld, Stranded
  <2> QED
    BY <2>1, <2>2
<1> HIDE DEF Kept
<1> QED
  BY <1>1, <1>2, <1>3, InvHolds, PTL DEF Spec

-----------------------------------------------------------------------------
(* Outbox works the table as a durable queue, whatever fails.               *)

(* A task that goes on with ok saw the transport take the text, also when   *)
(* there were faults.                                                       *)
LEMMA OneOk ==
  ASSUME OkReached, NEW t \in Tasks, Others(t), reached \subseteq reached', OkAt(t)'
  PROVE  OkReached'
<1> SUFFICES ASSUME NEW u \in Tasks PROVE OkAt(u)'
  BY DEF OkReached
<1>1. CASE u = t
  BY <1>1
<1>2. CASE u # t
  BY <1>2 DEF Others, OkReached, OkAt, Env
<1> QED
  BY <1>1, <1>2

LEMMA RestOk ==
  ASSUME TypeOK, OkReached, NEW t \in Tasks, task[t] # None, Rest(t), UNCHANGED reached
  PROVE  OkReached'
<1>1. Others(t) /\ (task'[t] = None \/ task'[t].at = "next")
  BY RestMoves
<1> QED
  BY <1>1, OneOk DEF OkAt

LEMMA GoOnOk ==
  ASSUME TypeOK, OkReached, NEW t \in Tasks, task[t] # None,
         NEW place \in {"send", "settle", "enqueue"}, GoOn(t, place),
         place = "settle" => task[t].at = "record", UNCHANGED reached
  PROVE  OkReached'
<1>1. Others(t) /\ task'[t].at = place /\ task'[t] = [task[t] EXCEPT !.at = place]
  BY GoOnMoves
<1>2. task[t] \in Task
  BY DEF TypeOK
<1>3. task'[t].ok = task[t].ok /\ task'[t].item = task[t].item
  BY <1>1, <1>2 DEF Task
<1>4. OkAt(t)'
  BY <1>1, <1>3 DEF OkAt, OkReached, Env
<1> QED
  BY <1>1, <1>4, OneOk

LEMMA DispatchOk ==
  ASSUME Inv, OkReached, NEW t \in Tasks, Dispatch(t)
  PROVE  OkReached'
<1>1. task[t] # None /\ task[t].at = "send" /\ reached \subseteq reached'
  BY DEF Dispatch, At
<1>2. task \in [Tasks -> Task \cup {None}] /\ task[t] \in Task
  BY <1>1 DEF Inv, TypeOK
<1>3. PICK ok \in BOOLEAN :
        /\ task' = [task EXCEPT ![t].at = "record", ![t].ok = ok]
        /\ ok => Env(t) \in reached'
  BY DEF Dispatch
<1>4. task'[t] = [task[t] EXCEPT !.at = "record", !.ok = ok]
  BY <1>2, <1>3
<1>5. task'[t].ok = ok /\ task'[t].item = task[t].item
  BY <1>2, <1>4 DEF Task
<1>6. OkAt(t)'
  BY <1>3, <1>5 DEF OkAt, Env
<1>7. Others(t)
  BY <1>2, <1>3 DEF Others
<1> QED
  BY <1>1, <1>6, <1>7, OneOk

LEMMA OkKept ==
  ASSUME Inv, OkReached, [Next]_vars
  PROVE  OkReached'
<1>1. TypeOK /\ task \in [Tasks -> Task \cup {None}]
  BY DEF Inv, TypeOK
<1>2. ASSUME NEW t \in Tasks, Check(t) PROVE OkReached'
  <2>1. task[t] # None /\ UNCHANGED reached /\ (Rest(t) \/ GoOn(t, "send"))
    BY <1>2 DEF Check, At
  <2> QED
    BY <1>1, <2>1, RestOk, GoOnOk
<1>3. ASSUME NEW t \in Tasks, Record(t) PROVE OkReached'
  <2>1. /\ task[t] # None /\ task[t].at = "record" /\ UNCHANGED reached
        /\ Rest(t) \/ GoOn(t, "settle") \/ GoOn(t, "enqueue")
    BY <1>3 DEF Record, At
  <2> QED
    BY <1>1, <2>1, RestOk, GoOnOk
<1>4. ASSUME NEW s \in Senders, Respond(s) PROVE OkReached'
  <2>1. UNCHANGED reached
    BY <1>4 DEF Respond
  <2>2. [env |-> EnvelopeOf[s], stamp |-> clock + 1] \in Item
    BY OutboxAssumption, <1>1 DEF Item, TypeOK
  <2>3. Others(s) /\ task'[s].at = "check"
    BY <1>1, <1>4, <2>2, StartsMoves DEF Respond
  <2> QED
    BY <2>1, <2>3, OneOk DEF OkAt
<1>5. ASSUME NEW s \in Senders, Enqueue(s) PROVE OkReached'
  <2>1. task[s] # None /\ UNCHANGED reached /\ Rest(s)
    BY <1>5 DEF Enqueue, At
  <2> QED
    BY <1>1, <2>1, RestOk
<1>6. ASSUME NEW n \in Nodes, Settle(n) PROVE OkReached'
  <2>1. task[n] # None /\ UNCHANGED reached /\ Rest(n)
    BY <1>6 DEF Settle, At
  <2> QED
    BY <1>1, <2>1, RestOk
<1>7. ASSUME NEW n \in Nodes, Claim(n) PROVE OkReached'
  <2>1. PICK e \in Envelopes : Is(e, "Pending") /\ Starts(n, "send", [env |-> e, stamp |-> msg[e].stamp])
    BY <1>7 DEF Claim
  <2>2. [env |-> e, stamp |-> msg[e].stamp] \in Item
    BY <1>1, <2>1 DEF Is, TypeOK, Item, Message
  <2>3. Others(n) /\ task'[n].at = "send"
    BY <1>1, <2>1, <2>2, StartsMoves
  <2>4. UNCHANGED reached
    BY <1>7 DEF Claim
  <2> QED
    BY <2>3, <2>4, OneOk DEF OkAt
<1>8. ASSUME NEW n \in Nodes, List(n) PROVE OkReached'
  <2>1. UNCHANGED reached /\ Others(n) /\ task'[n].at = "next"
    BY <1>1, <1>8 DEF List, Others
  <2> QED
    BY <2>1, OneOk DEF OkAt
<1>9. ASSUME NEW n \in Nodes, Pick(n) PROVE OkReached'
  <2>1. PICK item \in task[n].todo :
          task' = [task EXCEPT ![n].at = "check", ![n].item = item, ![n].todo = @ \ {item}]
    BY <1>9 DEF Pick
  <2>2. task[n] \in Task
    BY <1>1, <1>9 DEF Pick, At
  <2>3. task'[n] = [task[n] EXCEPT !.at = "check", !.item = item, !.todo = @ \ {item}] /\ Others(n)
    BY <1>1, <2>1 DEF Others
  <2>4. task'[n].at = "check" /\ UNCHANGED reached
    BY <1>9, <2>2, <2>3 DEF Pick, Task
  <2> QED
    BY <2>3, <2>4, OneOk DEF OkAt
<1>10. ASSUME NEW n \in Nodes, Crash(n) PROVE OkReached'
  <2>1. UNCHANGED reached /\ \A t \in Tasks : task'[t] = None \/ task'[t] = task[t]
    BY <1>1, <1>10 DEF Crash
  <2> QED
    BY <2>1 DEF OkReached, OkAt, Env
<1>11. ASSUME UNCHANGED <<task, reached>> PROVE OkReached'
  BY <1>11 DEF OkReached, OkAt, Env
<1> QED
  BY <1>2, <1>3, <1>4, <1>5, <1>6, <1>7, <1>8, <1>9, <1>10, <1>11, DispatchOk
  DEF Next, Send, Work, Replay, Connect, vars, Tasks

(* A message whose row and hand stay looks the same to its queue.           *)
Held(e) == \E n \in Nodes : Holds(n, e)
Unseen(e) == /\ Phase(e)' = Phase(e)
             /\ Holder(e)' = Holder(e)
             /\ Attempts(e)' = Attempts(e)

LEMMA RowAndHand ==
  ASSUME NEW e \in Envelopes, msg'[e] = msg[e], Held(e)' <=> Held(e)
  PROVE  Unseen(e)
<1>1. Stranded(e)' <=> Stranded(e)
  BY DEF Stranded, Held, Is
<1>2. Phase(e)' = Phase(e)
  BY <1>1 DEF Phase, Is
<1> QED
  BY <1>2 DEF Unseen, Holder, Attempts

LEMMA QueueStays ==
  ASSUME \A e \in Envelopes : Unseen(e), UNCHANGED reached
  PROVE  UNCHANGED Queue!vars
BY DEF Queue!vars, Unseen

(* The phase, by the row.                                                   *)
LEMMA PhaseOfRow ==
  ASSUME NEW e \in Envelopes, msg[e] # None
  PROVE  /\ msg[e].status = "Pending" => Phase(e) = "pending"
         /\ msg[e].status = "Claimed" => Phase(e) = IF Held(e) THEN "held" ELSE "stranded"
         /\ msg[e].status = "Acked" => Phase(e) = "acked"
         /\ msg[e].status = "DeadLetter" => Phase(e) = "dead"
BY DEF Phase, Is, Stranded, Held

(* A worker that holds a message is the one its queue names, and the only   *)
(* one.                                                                     *)
LEMMA HeldByOne ==
  ASSUME Inv, NEW n \in Nodes, NEW e \in Envelopes, Holds(n, e)
  PROVE  /\ Phase(e) = "held" /\ Holder(e) = n /\ msg[e] # None /\ msg[e] \in Message
         /\ \A m \in Nodes, f \in Envelopes :
              (Holds(m, e) => m = n) /\ (Holds(n, f) => f = e)
<1>1. Is(e, "Claimed") /\ msg[e].by = n
  BY DEF Inv, HoldsClaim
<1>2. msg[e] # None /\ msg[e].status = "Claimed" /\ msg[e] \in Message
  BY <1>1 DEF Is, Inv, TypeOK
<1>3. Phase(e) = "held"
  BY <1>2, PhaseOfRow DEF Held
<1>4. \A m \in Nodes : Holds(m, e) => m = n
  BY <1>1 DEF Inv, HoldsClaim
<1>5. \A f \in Envelopes : Holds(n, f) => f = e
  BY DEF Holds
<1> QED
  BY <1>1, <1>2, <1>3, <1>4, <1>5 DEF Holder

LEMMA HolderHolds ==
  ASSUME Inv, NEW e \in Envelopes, NEW n \in Nodes, Holder(e) = n
  PROVE  Holds(n, e)
<1>1. Phase(e) = "held" /\ msg[e].by = n
  BY OutboxAssumption DEF Holder
<1>2. msg[e] # None /\ msg[e] \in Message
  BY <1>1 DEF Phase, Is, Inv, TypeOK
<1>3. Held(e)
  BY <1>1, <1>2, PhaseOfRow DEF Message
<1> QED
  BY <1>1, <1>3 DEF Held, Inv, HoldsClaim

(* Steps that leave the table alone and every message in its hand.          *)
LEMMA NoRowMoves ==
  ASSUME NEW t \in Tasks, Others(t), UNCHANGED <<cluster, msg>>,
         t \in Nodes /\ cluster =>
           task[t] # None /\ task'[t] # None /\ task'[t].item = task[t].item
  PROVE  \A e \in Envelopes : Unseen(e)
<1> SUFFICES ASSUME NEW e \in Envelopes PROVE Unseen(e)
  OBVIOUS
<1>1. ASSUME NEW n \in Nodes PROVE Holds(n, e)' <=> Holds(n, e)
  <2>1. CASE n = t
    BY <2>1 DEF Holds, Env
  <2>2. CASE n # t
    BY <2>2 DEF Others, Tasks, Holds, Env
  <2> QED
    BY <2>1, <2>2
<1> QED
  BY <1>1, RowAndHand DEF Held

LEMMA CheckQueues ==
  ASSUME Inv, NEW t \in Tasks, Check(t)
  PROVE  UNCHANGED Queue!vars
<1>1. task[t] # None /\ task[t].at = "check" /\ UNCHANGED <<cluster, msg, reached>>
  BY DEF Check, At, outside, queue
<1>2. ~ (t \in Nodes /\ cluster)
  BY <1>1 DEF Inv, Located
<1>3. Others(t)
  <2>1. CASE Rest(t)
    BY <1>1, <2>1, RestMoves DEF Inv
  <2>2. CASE GoOn(t, "send")
    BY <1>1, <2>2, GoOnMoves DEF Inv
  <2> QED
    BY <2>1, <2>2 DEF Check
<1> QED
  BY <1>1, <1>2, <1>3, NoRowMoves, QueueStays

(* The recipient gets a text at a dispatch only, from a worker or a sender. *)
LEMMA DispatchQueues ==
  ASSUME Inv, NEW t \in Tasks, Dispatch(t)
  PROVE  Queue!Next \/ UNCHANGED Queue!vars
<1>1. task[t] # None /\ task[t].at = "send" /\ UNCHANGED <<cluster, msg>>
  BY DEF Dispatch, At, outside, queue
<1>2. Env(t) \in Envelopes
  BY <1>1, HasItem DEF Inv
<1>3. Others(t) /\ task'[t] # None /\ task'[t].item = task[t].item
  BY DispatchMoves, NoneAssumption DEF Inv
<1>4. \A e \in Envelopes : Unseen(e)
  BY <1>1, <1>3, NoRowMoves
<1>5. CASE UNCHANGED reached
  BY <1>4, <1>5, QueueStays
<1>6. CASE reached' = reached \cup {Env(t)}
  <2>1. Queue!Deliver(Env(t))
    BY <1>4, <1>6 DEF Queue!Deliver, Unseen
  <2> QED
    BY <1>2, <2>1 DEF Queue!Next
<1> QED
  BY <1>5, <1>6 DEF Dispatch

LEMMA RecordQueues ==
  ASSUME Inv, NEW t \in Tasks, Record(t)
  PROVE  UNCHANGED Queue!vars
<1>1. task[t] # None /\ UNCHANGED <<cluster, msg, reached>>
  BY DEF Record, At, outside, queue
<1>2. CASE cluster /\ t \in Nodes
  <2>1. GoOn(t, "settle")
    BY <1>2 DEF Record
  <2>2. Others(t) /\ task'[t] # None /\ task'[t].item = task[t].item
    BY <1>1, <2>1, GoOnMoves, NoneAssumption DEF Inv
  <2> QED
    BY <1>1, <2>2, NoRowMoves, QueueStays
<1>3. CASE ~ (cluster /\ t \in Nodes)
  <2>1. Rest(t) \/ GoOn(t, "enqueue")
    BY <1>3 DEF Record
  <2>2. Others(t)
    BY <1>1, <2>1, RestMoves, GoOnMoves DEF Inv
  <2> QED
    BY <1>1, <1>3, <2>2, NoRowMoves, QueueStays
<1> QED
  BY <1>2, <1>3

LEMMA RespondQueues ==
  ASSUME Inv, NEW s \in Senders, Respond(s)
  PROVE  UNCHANGED Queue!vars
<1>1. s \in Tasks /\ s \notin Nodes /\ UNCHANGED <<cluster, msg, reached>>
  BY OutboxAssumption DEF Respond, queue, Tasks
<1>2. [env |-> EnvelopeOf[s], stamp |-> clock + 1] \in Item
  BY OutboxAssumption DEF Item, Inv, TypeOK
<1>3. Others(s)
  BY <1>1, <1>2, StartsMoves DEF Respond, Inv
<1> QED
  BY <1>1, <1>3, NoRowMoves, QueueStays

LEMMA ListPickQueues ==
  ASSUME Inv, NEW n \in Nodes, List(n) \/ Pick(n)
  PROVE  UNCHANGED Queue!vars
<1>1. n \in Tasks /\ UNCHANGED <<cluster, msg, reached>>
  BY DEF List, Pick, outside, queue, Tasks
<1>2. ~ cluster
  <2>1. CASE List(n)
    BY <2>1 DEF List
  <2>2. CASE Pick(n)
    BY <1>1, <2>2 DEF Pick, At, Inv, Located
  <2> QED
    BY <2>1, <2>2
<1>3. Others(n)
  BY DEF List, Pick, Others, Inv, TypeOK
<1> QED
  BY <1>1, <1>2, <1>3, NoRowMoves, QueueStays

(* One message moves; the rest of the queue looks as before.                *)
LEMMA OneRowMoves ==
  ASSUME NEW e \in Envelopes, \A f \in Envelopes \ {e} : Unseen(f)
  PROVE  /\ [f \in Envelopes |-> Phase(f)]'
              = [[f \in Envelopes |-> Phase(f)] EXCEPT ![e] = Phase(e)']
         /\ [f \in Envelopes |-> Holder(f)]'
              = [[f \in Envelopes |-> Holder(f)] EXCEPT ![e] = Holder(e)']
         /\ [f \in Envelopes |-> Attempts(f)]'
              = [[f \in Envelopes |-> Attempts(f)] EXCEPT ![e] = Attempts(e)']
BY DEF Unseen

(* A value of a function that the assignment at e leaves as it was.         *)
LEMMA SameAt ==
  ASSUME NEW e \in Envelopes, \A f \in Envelopes \ {e} : Unseen(f)
  PROVE  /\ Holder(e)' = Holder(e) =>
              UNCHANGED [f \in Envelopes |-> Holder(f)]
         /\ Attempts(e)' = Attempts(e) =>
              UNCHANGED [f \in Envelopes |-> Attempts(f)]
BY DEF Unseen

LEMMA EnqueueQueues ==
  ASSUME Inv, NEW s \in Senders, Enqueue(s)
  PROVE  Queue!Next \/ UNCHANGED Queue!vars
<1>1. /\ task[s] # None /\ task[s].at = "enqueue" /\ s \in Tasks /\ s \notin Nodes
      /\ UNCHANGED <<cluster, reached>>
  BY OutboxAssumption DEF Enqueue, At, outside, Tasks
<1>2. PICK e \in Envelopes : e = Env(s)
  BY <1>1, HasItem DEF Inv
<1>3. Others(s)
  BY <1>1, RestMoves DEF Enqueue, Inv
<1>4. \A f \in Envelopes : Held(f)' <=> Held(f)
  BY <1>1, <1>3 DEF Held, Holds, Env, Others, Tasks
<1>5. CASE UNCHANGED msg \/ msg[e] # None
  <2>1. UNCHANGED msg
    BY <1>2, <1>5 DEF Enqueue, Inv, TypeOK
  <2>2. \A f \in Envelopes : Unseen(f)
    BY <1>4, <2>1, RowAndHand
  <2> QED
    BY <1>1, <2>2, QueueStays
<1>6. CASE msg[e] = None /\ msg' = [msg EXCEPT ![e] = NewMessage(s)]
  <2>1. msg'[e] = NewMessage(s) /\ \A f \in Envelopes \ {e} : msg'[f] = msg[f]
    BY <1>6 DEF Inv, TypeOK
  <2>2. NewMessage(s) # None /\ NewMessage(s).status = "Pending" /\ NewMessage(s).attempts = 0
    BY <1>1, HasItem, NoneAssumption DEF Inv, NewMessage, Message
  <2>3. \A f \in Envelopes \ {e} : Unseen(f)
    BY <1>4, <2>1, RowAndHand
  <2>4. Phase(e) = "absent" /\ Holder(e) = None /\ Attempts(e) = 0
    BY <1>6 DEF Phase, Is, Holder, Attempts
  <2>5. Phase(e)' = "pending" /\ Holder(e)' = None /\ Attempts(e)' = 0
    BY <2>1, <2>2, NoneAssumption DEF Phase, Is, Holder, Attempts
  <2>6. Queue!Put(e)
    BY <1>1, <2>3, <2>4, <2>5, OneRowMoves, SameAt DEF Queue!Put, Queue!Goes
  <2> QED
    BY <2>6 DEF Queue!Next
<1> QED
  BY <1>2, <1>5, <1>6 DEF Enqueue

LEMMA ClaimQueues ==
  ASSUME Inv, NEW n \in Nodes, Claim(n)
  PROVE  Queue!Next
<1>1. cluster /\ task[n] = None /\ UNCHANGED <<cluster, reached>> /\ n \in Tasks
  BY DEF Claim, outside, Tasks
<1>2. PICK e \in Envelopes :
        /\ Is(e, "Pending")
        /\ msg' = [msg EXCEPT ![e].status = "Claimed", ![e].by = n]
        /\ Starts(n, "send", [env |-> e, stamp |-> msg[e].stamp])
  BY DEF Claim
<1>3. msg[e] \in Message /\ msg[e] # None /\ msg[e].status = "Pending"
  BY <1>2 DEF Is, Inv, TypeOK
<1>4. /\ msg'[e] = [msg[e] EXCEPT !.status = "Claimed", !.by = n]
      /\ \A f \in Envelopes \ {e} : msg'[f] = msg[f]
  BY <1>2 DEF Inv, TypeOK
<1>5. /\ msg'[e] \in Message /\ msg'[e] # None /\ msg'[e].status = "Claimed"
      /\ msg'[e].by = n /\ msg'[e].attempts = msg[e].attempts
  BY <1>3, <1>4, NoneAssumption DEF Message
<1>6. [env |-> e, stamp |-> msg[e].stamp] \in Item
  BY <1>3 DEF Item, Message
<1>7. Others(n) /\ task'[n] # None /\ task'[n].item = [env |-> e, stamp |-> msg[e].stamp]
  BY <1>1, <1>2, <1>6, StartsMoves, NoneAssumption DEF Inv
<1>8. \A f \in Envelopes \ {e} : Held(f)' <=> Held(f)
  <2> SUFFICES ASSUME NEW f \in Envelopes \ {e}, NEW m \in Nodes
               PROVE  Holds(m, f)' <=> Holds(m, f)
    BY DEF Held
  <2>1. CASE m = n
    BY <1>1, <1>7, <2>1 DEF Holds, Env
  <2>2. CASE m # n
    BY <1>1, <1>7, <2>2 DEF Holds, Env, Others, Tasks
  <2> QED
    BY <2>1, <2>2
<1>9. \A f \in Envelopes \ {e} : Unseen(f)
  BY <1>4, <1>8, RowAndHand
<1>10. Holds(n, e)'
  BY <1>1, <1>7 DEF Holds, Env
<1>11. Phase(e) = "pending"
  BY <1>3, PhaseOfRow
<1>12. Phase(e)' = "held" /\ Holder(e)' = n
  BY <1>5, <1>10 DEF Phase, Is, Stranded, Holder
<1>13. Attempts(e)' = Attempts(e)
  BY <1>3, <1>5 DEF Attempts
<1>14. \A f \in Envelopes : Holder(f) # n
  BY <1>1, HolderHolds DEF Holds
<1>15. Queue!Take(e, n)
  BY <1>1, <1>9, <1>11, <1>12, <1>13, <1>14, OneRowMoves, SameAt DEF Queue!Take, Queue!Goes
<1> QED
  BY <1>15 DEF Queue!Next

(* A worker that lets go of what it holds without writing the row.          *)
LEMMA LettingGo ==
  ASSUME Inv, NEW n \in Nodes, NEW e \in Envelopes, Holds(n, e), task'[n] = None,
         \A m \in Nodes \ {n} : task'[m] = task[m], UNCHANGED cluster
  PROVE  /\ ~ Held(e)'
         /\ \A f \in Envelopes \ {e} : msg'[f] = msg[f] => Unseen(f)
<1>1. \A m \in Nodes, f \in Envelopes : (Holds(m, e) => m = n) /\ (Holds(n, f) => f = e)
  BY HeldByOne
<1>2. \A m \in Nodes, f \in Envelopes : Holds(m, f)' <=> (m # n /\ Holds(m, f))
  BY DEF Holds, Env
<1>3. ~ Held(e)'
  BY <1>1, <1>2 DEF Held
<1>4. \A f \in Envelopes \ {e} : Held(f)' <=> Held(f)
  BY <1>1, <1>2 DEF Held
<1> QED
  BY <1>3, <1>4, RowAndHand

(* The claim stays, nobody has it.                                          *)
LEMMA Abandoning ==
  ASSUME Inv, NEW n \in Nodes, NEW e \in Envelopes, Holds(n, e), task'[n] = None,
         \A m \in Nodes \ {n} : task'[m] = task[m], UNCHANGED <<cluster, msg, reached>>
  PROVE  Queue!Next
<1>1. ~ Held(e)' /\ \A f \in Envelopes \ {e} : Unseen(f)
  BY LettingGo
<1>2. Phase(e) = "held" /\ Is(e, "Claimed") /\ msg[e] # None
  BY HeldByOne DEF Inv, HoldsClaim
<1>3. Phase(e)' = "stranded"
  BY <1>1, <1>2 DEF Phase, Is, Stranded, Held
<1>4. Holder(e)' = None /\ Attempts(e)' = Attempts(e)
  BY <1>3 DEF Holder, Attempts
<1>5. Queue!Abandon(e)
  BY <1>1, <1>2, <1>3, <1>4, OneRowMoves, SameAt DEF Queue!Abandon, Queue!Goes, Queue!LetGo
<1> QED
  BY <1>5 DEF Queue!Next

LEMMA SettleQueues ==
  ASSUME Inv, OkReached, NEW n \in Nodes, Settle(n)
  PROVE  Queue!Next
<1>1. /\ task[n] # None /\ task[n].at = "settle" /\ n \in Tasks
      /\ UNCHANGED <<cluster, reached>>
  BY DEF Settle, At, outside, Tasks
<1>2. cluster /\ task[n].todo = {}
  BY <1>1 DEF Inv, Located
<1>3. PICK e \in Envelopes : e = Env(n)
  BY <1>1, HasItem DEF Inv
<1>4. Holds(n, e)
  BY <1>1, <1>2, <1>3 DEF Holds
<1>5. Phase(e) = "held" /\ msg[e] # None /\ msg[e] \in Message
  BY <1>4, HeldByOne
<1>6. task'[n] = None /\ \A m \in Nodes \ {n} : task'[m] = task[m]
  BY <1>1, <1>2, RestMoves DEF Settle, Inv, Others, Tasks
<1>7. CASE UNCHANGED msg
  BY <1>1, <1>4, <1>6, <1>7, Abandoning
<1>8. CASE task[n].ok /\ Ack(e)
  <2>1. /\ msg'[e] = [msg[e] EXCEPT !.status = "Acked", !.by = None]
        /\ \A f \in Envelopes \ {e} : msg'[f] = msg[f]
    BY <1>8 DEF Ack, Inv, TypeOK
  <2>2. /\ msg'[e] \in Message /\ msg'[e] # None /\ msg'[e].status = "Acked"
        /\ msg'[e].attempts = msg[e].attempts
    BY <1>5, <2>1, NoneAssumption DEF Message
  <2>3. \A f \in Envelopes \ {e} : Unseen(f)
    BY <1>1, <1>4, <1>6, <2>1, LettingGo
  <2>4. Phase(e)' = "acked"
    BY <2>2 DEF Phase, Is
  <2>5. Holder(e)' = None /\ Attempts(e)' = Attempts(e)
    BY <1>5, <2>2, <2>4 DEF Holder, Attempts
  <2>6. e \in reached
    BY <1>1, <1>3, <1>8 DEF OkReached, OkAt
  <2>7. Queue!Acknowledge(e)
    BY <1>1, <1>5, <2>3, <2>4, <2>5, <2>6, OneRowMoves, SameAt
    DEF Queue!Acknowledge, Queue!Goes, Queue!LetGo
  <2> QED
    BY <2>7 DEF Queue!Next
<1>9. CASE Fail(e)
  <2> DEFINE dead == msg[e].attempts + 1 >= MaxAttempts
             status == IF dead THEN "DeadLetter" ELSE "Pending"
  <2>1. msg' = [msg EXCEPT ![e].status = status, ![e].attempts = msg[e].attempts + 1, ![e].by = None]
    BY <1>9 DEF Fail
  <2>2. /\ msg'[e] = [msg[e] EXCEPT !.status = status, !.attempts = msg[e].attempts + 1, !.by = None]
        /\ \A f \in Envelopes \ {e} : msg'[f] = msg[f]
    BY <2>1 DEF Inv, TypeOK
  <2>3. /\ msg'[e] \in Message /\ msg'[e] # None /\ msg'[e].status = status
        /\ msg'[e].attempts = msg[e].attempts + 1
    <3>1. status \in {"DeadLetter", "Pending"} /\ msg[e].attempts + 1 \in Nat
      BY <1>5 DEF Message
    <3> HIDE DEF status
    <3>2. PICK tries \in Nat : tries = msg[e].attempts + 1
      BY <3>1
    <3>3. msg'[e] = [msg[e] EXCEPT !.status = status, !.attempts = tries, !.by = None]
      BY <2>2, <3>2
    <3>4. msg'[e] \in Message /\ msg'[e].status = status /\ msg'[e].attempts = tries
      BY <1>5, <3>1, <3>3 DEF Message
    <3> QED
      BY <3>2, <3>4, NoneAssumption
  <2>4. \A f \in Envelopes \ {e} : Unseen(f)
    BY <1>1, <1>4, <1>6, <2>2, LettingGo
  <2>5. Phase(e)' = IF dead THEN "dead" ELSE "pending"
    BY <2>3 DEF Phase, Is
  <2>6. Holder(e)' = None /\ Attempts(e)' = Attempts(e) + 1 /\ Attempts(e) = msg[e].attempts
    BY <1>5, <2>3, <2>5 DEF Holder, Attempts
  <2>7. Queue!Fail(e)
    BY <1>1, <1>5, <2>4, <2>5, <2>6, OneRowMoves DEF Queue!Fail, Queue!Goes, Queue!LetGo
  <2> QED
    BY <2>7 DEF Queue!Next
<1> QED
  BY <1>3, <1>7, <1>8, <1>9 DEF Settle, queue

LEMMA ReplayQueues ==
  ASSUME Inv, NEW e \in Envelopes, Replay(e)
  PROVE  Queue!Next
<1>1. /\ dlq[e] > 0 /\ UNCHANGED <<cluster, task, reached>>
      /\ msg' = [msg EXCEPT ![e].status = "Pending", ![e].by = None]
  BY DEF Replay, outside
<1>2. msg[e] # None /\ msg[e].status = "DeadLetter" /\ msg[e] \in Message
  BY <1>1 DEF Inv, TypeOK, DeadLettersAgree, Is
<1>3. /\ msg'[e] = [msg[e] EXCEPT !.status = "Pending", !.by = None]
      /\ \A f \in Envelopes \ {e} : msg'[f] = msg[f]
  BY <1>1 DEF Inv, TypeOK
<1>4. /\ msg'[e] \in Message /\ msg'[e] # None /\ msg'[e].status = "Pending"
      /\ msg'[e].attempts = msg[e].attempts
  BY <1>2, <1>3, NoneAssumption DEF Message
<1>5. \A f \in Envelopes \ {e} : Unseen(f)
  BY <1>1, <1>3, RowAndHand DEF Held, Holds, Env
<1>6. Phase(e) = "dead" /\ Holder(e) = None
  BY <1>2, PhaseOfRow DEF Holder
<1>7. Phase(e)' = "pending" /\ Holder(e)' = None /\ Attempts(e)' = Attempts(e)
  BY <1>2, <1>4 DEF Phase, Is, Holder, Attempts
<1>8. Queue!Replay(e)
  BY <1>1, <1>5, <1>6, <1>7, OneRowMoves, SameAt DEF Queue!Replay, Queue!Goes
<1> QED
  BY <1>8 DEF Queue!Next

(* A node that dies abandons at most one message.                           *)
LEMMA CrashQueues ==
  ASSUME Inv, NEW n \in Nodes, Crash(n)
  PROVE  Queue!Next \/ UNCHANGED Queue!vars
<1>1. UNCHANGED <<cluster, msg, reached>>
  BY DEF Crash, outside, queue
<1>2. task'[n] = None /\ \A m \in Nodes \ {n} : task'[m] = task[m]
  BY OutboxAssumption DEF Crash, Host, Tasks
<1>3. CASE cluster /\ task[n] # None
  <2>1. task[n].at # "next" /\ n \in Tasks
    BY <1>3 DEF Inv, Located, Tasks
  <2>2. PICK e \in Envelopes : Holds(n, e)
    BY <1>3, <2>1, HasItem DEF Inv, Holds
  <2> QED
    BY <1>1, <1>2, <2>2, Abandoning
<1>4. CASE ~ (cluster /\ task[n] # None)
  <2>1. \A m \in Nodes, e \in Envelopes : Holds(m, e)' <=> Holds(m, e)
    BY <1>1, <1>2, <1>4 DEF Holds, Env
  <2>2. \A e \in Envelopes : Unseen(e)
    BY <1>1, <2>1, RowAndHand DEF Held
  <2> QED
    BY <1>1, <2>2, QueueStays
<1> QED
  BY <1>3, <1>4

LEMMA NextQueues ==
  ASSUME Inv, OkReached, [Next]_vars
  PROVE  Queue!Next \/ UNCHANGED Queue!vars
<1>1. ASSUME UNCHANGED <<cluster, msg, task, reached>> PROVE UNCHANGED Queue!vars
  <2>1. \A e \in Envelopes : Unseen(e)
    BY <1>1, RowAndHand DEF Held, Holds, Env
  <2> QED
    BY <1>1, <2>1, QueueStays
<1> QED
  BY <1>1, CheckQueues, DispatchQueues, RecordQueues, RespondQueues, ListPickQueues, EnqueueQueues,
     ClaimQueues, SettleQueues, ReplayQueues, CrashQueues
  DEF Next, Send, Work, Connect, vars, queue, Tasks

(* Whatever fails or dies, Outbox implements DurableQueue: a message is in  *)
(* one worker's hand at a time, only what was delivered is acknowledged, the *)
(* failure that uses up the attempts fills the dead letters, and an         *)
(* abandoned claim is never taken over.                                     *)
THEOREM WorksAsQueue == Spec => IsDurableQueue
<1>1. Init => OkReached
  BY DEF Init, OkReached, OkAt
<1>2. Spec => []OkReached
  BY <1>1, OkKept, InvHolds, PTL DEF Spec
<1>3. Init => Queue!Init
  BY DEF Init, Queue!Init, Phase, Is, Holder, Attempts
<1>4. Inv /\ OkReached /\ [Next]_vars => [Queue!Next]_(Queue!vars)
  BY NextQueues
<1> QED
  BY <1>2, <1>3, <1>4, InvHolds, PTL DEF Spec, IsDurableQueue, Queue!Spec

=============================================================================
