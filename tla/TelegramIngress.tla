--------------------------- MODULE TelegramIngress ---------------------------
(***************************************************************************)
(* The updates of a Telegram bot on their way to process_request: the       *)
(* provider that keeps an update until a higher offset is asked for, the    *)
(* long-polling loop, the bounded queue, the workers, the window of keys in *)
(* memory and the table of keys that tell a second delivery, the pruning of *)
(* the table, and what a restart of the adapter or of the process leaves.   *)
(***************************************************************************)
EXTENDS Absence, Naturals, FiniteSets, Sequences, SequencesExt

CONSTANTS
  Workers,       (* TELEGRAM_WORKER_COUNT: 4                                  *)
  QueueCap,      (* TELEGRAM_UPDATE_QUEUE_CAPACITY: 256                       *)
  WindowCap,     (* TELEGRAM_DEDUPE_WINDOW: 4096                              *)
  MaxUpdates,    (* bound: update ids are 1..MaxUpdates                       *)
  MaxMishaps     (* bound: restarts, store errors and pruned keys             *)

ASSUME IngressAssumption ==
  /\ None \notin Workers /\ None \notin Nat
  /\ QueueCap \in Nat \ {0} /\ WindowCap \in Nat \ {0}
  /\ MaxUpdates \in Nat /\ MaxMishaps \in Nat

VARIABLES
  confirmed,     (* provider: the updates up to this one are forgotten        *)
  offset,        (* run_telegram_polling: the next id to ask for, 0 at first  *)
  batch,         (* updates received and not yet offered to the queue         *)
  backlog,       (* the queue                                                 *)
  leftover,      (* the queue of an adapter that ended: its workers drain it  *)
  hand,          (* the update of a worker, and where the worker is with it   *)
  window,        (* DedupeWindow.order                                        *)
  keys,          (* the table dedupe_keys                                     *)
  handled,       (* auxiliary: how often an update was processed              *)
  dropped,       (* auxiliary: updates the full queue turned away             *)
  unkeyed,       (* auxiliary: updates whose key was not written or is pruned *)
  lost,          (* auxiliary: updates a crash took and nobody sends again    *)
  mishaps

ingressVars == <<confirmed, offset, batch, backlog, leftover, hand, window, keys, handled,
                 dropped, unkeyed, lost, mishaps>>
bookVars == <<handled, dropped, unkeyed, lost, mishaps>>

Updates == 1..MaxUpdates
Idle == [update |-> None, at |-> "idle"]

IngressTypeOK ==
  /\ confirmed \in 0..MaxUpdates /\ offset \in 0..MaxUpdates + 1
  /\ batch \in Seq(Updates) /\ backlog \in Seq(Updates) /\ leftover \in Seq(Updates)
  /\ hand \in [Workers -> [update : Updates \cup {None}, at : {"idle", "check", "record", "process"}]]
  /\ Len(backlog) <= QueueCap /\ Len(window) <= WindowCap
  /\ keys \subseteq Updates
  /\ handled \in [Updates -> Nat]
  /\ dropped \subseteq Updates /\ unkeyed \subseteq Updates /\ lost \subseteq Updates
  /\ mishaps \in 0..MaxMishaps

IngressInit ==
  /\ confirmed = 0 /\ offset = 0
  /\ batch = <<>> /\ backlog = <<>> /\ leftover = <<>>
  /\ hand = [w \in Workers |-> Idle]
  /\ window = <<>> /\ keys = {}
  /\ handled = [u \in Updates |-> 0]
  /\ dropped = {} /\ unkeyed = {} /\ lost = {}
  /\ mishaps = 0

Mishap == mishaps < MaxMishaps /\ mishaps' = mishaps + 1

-----------------------------------------------------------------------------
(* The polling loop.                                                        *)

(* getUpdates: asking for an offset confirms what is below it; the answer   *)
(* has some of what comes next, or is lost and asked for again.             *)
Poll ==
  /\ batch = <<>>
  /\ confirmed' = IF offset > confirmed + 1 THEN offset - 1 ELSE confirmed
  /\ batch' \in {[i \in 1..n |-> confirmed' + i] : n \in 0..(MaxUpdates - confirmed')}
  /\ UNCHANGED <<offset, backlog, leftover, hand, window, keys, bookVars>>

(* The offset goes behind the update, whether or not the queue takes it.    *)
Offer(u) ==
  /\ offset' = u + 1
  /\ batch' = Tail(batch)
  /\ IF Len(backlog) < QueueCap
     THEN backlog' = Append(backlog, u) /\ UNCHANGED dropped
     ELSE dropped' = dropped \cup {u} /\ UNCHANGED backlog

Enqueue ==
  /\ batch # <<>>
  /\ Offer(Head(batch))
  /\ UNCHANGED <<confirmed, leftover, hand, window, keys, handled, unkeyed, lost, mishaps>>

-----------------------------------------------------------------------------
(* The workers.                                                             *)

Turn(w, update, at) == hand' = [hand EXCEPT ![w] = [update |-> update, at |-> at]]

Take(w) ==
  /\ hand[w] = Idle
  /\ \/ /\ backlog # <<>>
        /\ Turn(w, Head(backlog), "check")
        /\ backlog' = Tail(backlog)
        /\ UNCHANGED leftover
     \/ /\ leftover # <<>>
        /\ Turn(w, Head(leftover), "check")
        /\ leftover' = Tail(leftover)
        /\ UNCHANGED backlog
  /\ UNCHANGED <<confirmed, offset, batch, window, keys, bookVars>>

Discard(w) == hand' = [hand EXCEPT ![w] = Idle]

Evicted(order) == IF Len(order) > WindowCap THEN Tail(order) ELSE order

(* DedupeWindow.insert, under its mutex: the oldest keys fall out.          *)
CheckWindow(w) ==
  LET u == hand[w].update IN
  /\ hand[w].at = "check"
  /\ IF u \in Range(window)
     THEN Discard(w) /\ UNCHANGED window
     ELSE /\ Turn(w, u, "record")
          /\ window' = Evicted(Append(window, u))
  /\ UNCHANGED <<confirmed, offset, batch, backlog, leftover, keys, bookVars>>

(* Mutant: what the window has not seen is new.                             *)
TrustWindow(w, u) ==
  /\ Turn(w, u, "process")
  /\ keys' = keys \cup {u}

(* INSERT OR IGNORE: a row that was there makes a duplicate of the update.  *)
RecordKey(w, u) ==
  /\ IF u \in keys THEN Discard(w) ELSE Turn(w, u, "process")
  /\ keys' = keys \cup {u}

(* An error of the store counts as new.                                     *)
CheckTable(w) ==
  LET u == hand[w].update IN
  /\ hand[w].at = "record"
  /\ \/ RecordKey(w, u) /\ UNCHANGED <<unkeyed, mishaps>>
     \/ /\ Mishap
        /\ Turn(w, u, "process")
        /\ unkeyed' = unkeyed \cup {u}
        /\ UNCHANGED keys
  /\ UNCHANGED <<confirmed, offset, batch, backlog, leftover, window, handled, dropped, lost>>

(* The rest of process_one_telegram_update: a command, an approval, or a    *)
(* request of the session.                                                  *)
Process(w) ==
  /\ hand[w].at = "process"
  /\ Discard(w)
  /\ handled' = [handled EXCEPT ![hand[w].update] = @ + 1]
  /\ UNCHANGED <<confirmed, offset, batch, backlog, leftover, window, keys, dropped, unkeyed, lost, mishaps>>

(* maybe_prune_dedupe_keys, of a key that has reached its retention.        *)
Prune ==
  /\ Mishap
  /\ \E u \in keys :
       /\ keys' = keys \ {u}
       /\ unkeyed' = unkeyed \cup {u}
  /\ UNCHANGED <<confirmed, offset, batch, backlog, leftover, hand, window, handled, dropped, lost>>

-----------------------------------------------------------------------------
InHands == {hand[w].update : w \in Workers} \ {None}
Queued == Range(backlog) \cup Range(leftover)

(* The polling loop panics or is aborted, and is started again with a state *)
(* of its own; the workers of the old one go on until their queue is empty. *)
AdapterRestarts ==
  /\ Mishap
  /\ offset' = 0 /\ batch' = <<>> /\ window' = <<>>
  /\ leftover' = leftover \o backlog /\ backlog' = <<>>
  /\ UNCHANGED <<confirmed, hand, keys, handled, dropped, unkeyed, lost>>

(* The process dies: of what was received only the keys remain.  An update  *)
(* that is confirmed, or whose key is written, was received in vain.        *)
Crash ==
  /\ Mishap
  /\ offset' = 0 /\ batch' = <<>> /\ window' = <<>>
  /\ leftover' = <<>> /\ backlog' = <<>>
  /\ hand' = [w \in Workers |-> Idle]
  /\ lost' = lost \cup {u \in Range(batch) \cup Queued \cup InHands : u <= confirmed \/ u \in keys}
  /\ UNCHANGED <<confirmed, keys, handled, dropped, unkeyed>>

IngressNext ==
  \/ Poll \/ Enqueue \/ Prune \/ AdapterRestarts \/ Crash
  \/ \E w \in Workers : Take(w) \/ CheckWindow(w) \/ CheckTable(w) \/ Process(w)

IngressSpec == IngressInit /\ [][IngressNext]_ingressVars

-----------------------------------------------------------------------------
(* An update is processed once, whatever is delivered again after a restart *)
(* and however many workers have copies of it; only one whose key was never *)
(* written or is pruned may be processed again.                             *)
HandledOnce == \A u \in Updates : handled[u] > 1 => u \in unkeyed

(* Nothing is lost in silence: what the provider will not send again, or    *)
(* would be taken for a duplicate, is on its way, was processed, was turned *)
(* away by the full queue, or was in the hands of a process that died.      *)
UpdatesAccounted ==
  \A u \in Updates :
    u <= confirmed \/ u \in keys =>
      \/ u \in Range(batch) \cup Queued \cup InHands
      \/ handled[u] > 0
      \/ u \in dropped \cup lost

(* What the adapter promises for an update: processed once, or a reason why *)
(* not.                                                                     *)
EachUpdateOnce == HandledOnce /\ UpdatesAccounted
=============================================================================
