---------------------------- MODULE Conversation ----------------------------
(***************************************************************************)
(* What the lock of a session promises, seen from its history: one request  *)
(* speaks at a time, it has the floor once, asks at most once and is        *)
(* answered, if at all, while it has the floor, with nothing but asides     *)
(* between question and answer; when it gives up the floor it is gone and   *)
(* says nothing more.  An aside is a message of nobody's turn: what was     *)
(* approved in another chat message was executed, and anybody may hear it.  *)
(***************************************************************************)
EXTENDS Naturals, Sequences

CONSTANTS Requests, None

VARIABLES speaker, said, gone

vars == <<speaker, said, gone>>

Init == speaker = None /\ said = <<>> /\ gone = {}

Waiting == Requests \ (gone \cup {speaker})

Enter(r) ==
  /\ speaker = None /\ r \in Waiting
  /\ speaker' = r
  /\ UNCHANGED <<said, gone>>

Says(message) == said' = Append(said, message) /\ UNCHANGED <<speaker, gone>>

Aside == <<"user", None>>

NeverSpoke(r) == \A i \in 1..Len(said) : said[i][2] # r

AskedLast(r) ==
  \E i \in 1..Len(said) :
    said[i] = <<"user", r>> /\ \A j \in (i + 1)..Len(said) : said[j] = Aside

(* A question may be lost on its way to the history; what then is said to   *)
(* its request opens and closes its turn.                                   *)
Speak(r) ==
  /\ speaker = r
  /\ \/ NeverSpoke(r) /\ \E role \in {"user", "assistant"} : Says(<<role, r>>)
     \/ AskedLast(r) /\ Says(<<"assistant", r>>)

Interject == Says(Aside)

(* The floor goes to another who waits, or to nobody.                       *)
GiveUp(r) ==
  /\ speaker = r
  /\ speaker' \in Waiting \cup {None}
  /\ gone' = gone \cup {r}
  /\ UNCHANGED said

TurnAway(r) ==
  /\ r \in Waiting
  /\ gone' = gone \cup {r}
  /\ UNCHANGED <<speaker, said>>

Next ==
  \/ \E r \in Requests : Enter(r) \/ Speak(r) \/ GiveUp(r) \/ TurnAway(r)
  \/ Interject

Spec == Init /\ [][Next]_vars
=============================================================================
