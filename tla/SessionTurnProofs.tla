------------------------- MODULE SessionTurnProofs -------------------------
(***************************************************************************)
(* Proofs about SessionTurn, for any requests of a session, any contracts,  *)
(* rounds, calls of a round, capacity of the channels and commands.         *)
(***************************************************************************)
EXTENDS SessionTurn, TLAPS

(* The stages in which the last message of a request is the one it works on.*)
Working == Loop \cup {"settle", "answer"}

(* A request in its loop has a round left; one that makes calls has one.    *)
RoundsLeft == \A r \in Requests : stage[r] \notin {"leave", "done"} => rounds[r] <= MaxToolRounds
CallsLeft == \A r \in Requests : stage[r] = "tools" => calls[r] > 0

(* Who works on the session has its lock, and who waits for the lock waits  *)
(* once.                                                                    *)
OwnerLocked == \A r \in Requests : stage[r] \in Locked => lockOwner = r
QueueWaits ==
  /\ \A i \in 1..Len(lockQueue) : stage[lockQueue[i]] = "waiting"
  /\ \A i, j \in 1..Len(lockQueue) : lockQueue[i] = lockQueue[j] => i = j

(* What is said of a request was said at its own place in the turn.         *)
SaidSince ==
  \A i \in 1..Len(history) : \A r \in Requests :
    /\ history[i] = <<"user", r>> => stage[r] \in Working \cup {"clarify", "leave", "done"}
    /\ history[i] = <<"assistant", r>> => stage[r] \in {"leave", "done"}

(* A request that works has asked, and nothing but results of approved      *)
(* tools was told since then; the clarification's request may be lost.      *)
AskedLast(r) ==
  \E i \in 1..Len(history) :
    history[i] = <<"user", r>> /\ \A j \in (i + 1)..Len(history) : history[j] = Resumed
NeverSpoke(r) == \A i \in 1..Len(history) : history[i][2] # r
LastIsOwn ==
  \A r \in Requests :
    /\ stage[r] \in Working => AskedLast(r)
    /\ stage[r] = "clarify" => AskedLast(r) \/ NeverSpoke(r)

(* The reason of an abort is there before the abort.                        *)
Reason(r) == r \in aborts \/ estop \/ steering # r
Untold == \A r \in Requests : stage[r] = "idle" => outcome[r] = "none"
AbortTold == \A r \in Requests : \A i \in 1..Len(inbox[r]) : inbox[r][i] = "abort" => r \in aborts

TurnShape == TurnTypeOK /\ RoundsLeft /\ CallsLeft
TurnInv ==
  /\ TurnShape /\ OwnerLocked /\ QueueWaits /\ SaidSince /\ LastIsOwn /\ HistoryPaired
  /\ Untold /\ AbortTold /\ AbortHasReason

-----------------------------------------------------------------------------
(* What the helpers of the loop make of the request that moves.             *)

OthersStay(r) ==
  \A q \in Requests \ {r} :
    /\ stage'[q] = stage[q] /\ outcome'[q] = outcome[q]
    /\ rounds'[q] = rounds[q] /\ calls'[q] = calls[q]

(* A step of a request that has the lock: through the loop, out of it with  *)
(* what it returned, or out of the turn.                                    *)
LoopMove(r) ==
  /\ stage' \in [Requests -> Stages] /\ outcome' \in [Requests -> Outcomes]
  /\ rounds' \in [Requests -> 0..MaxToolRounds + 1] /\ calls' \in [Requests -> 0..MaxCalls]
  /\ OthersStay(r)
  /\ stage'[r] \in Working \cup {"clarify", "remember", "leave"}
  /\ stage'[r] \in {"clarify", "remember"} => stage[r] = "resolve"
  /\ stage'[r] \in Working => stage[r] \in Working \cup {"remember"}
  /\ stage'[r] # "leave" => rounds'[r] <= MaxToolRounds
  /\ stage'[r] = "tools" => calls'[r] > 0
  /\ outcome'[r] = "aborted" => outcome[r] = "aborted" \/ Reason(r)

(* The loop ends in this step, with a round counted or not.                 *)
LEMMA EndsMove ==
  ASSUME TurnTypeOK, NEW r \in Requests, NEW o \in Outcomes, LoopEnds(r, o),
         stage[r] \in Working, rounds' \in [Requests -> 0..MaxToolRounds + 1],
         \A q \in Requests \ {r} : rounds'[q] = rounds[q],
         rounds'[r] <= MaxToolRounds \/ o = "error",
         o = "aborted" => Reason(r)
  PROVE  LoopMove(r)
<1>1. /\ stage \in [Requests -> Stages] /\ outcome \in [Requests -> Outcomes]
      /\ calls \in [Requests -> 0..MaxCalls]
  BY DEF TurnTypeOK
<1>2. PICK to \in {"leave", "settle"} : /\ stage' = [stage EXCEPT ![r] = to]
                                        /\ o = "error" => to = "leave"
  <2>1. CASE o \in {"error", "aborted"}
    BY <2>1 DEF LoopEnds
  <2>2. CASE o \notin {"error", "aborted"}
    BY <2>2 DEF LoopEnds
  <2> QED
    BY <2>1, <2>2
<1>3. /\ outcome' = [outcome EXCEPT ![r] = o]
      /\ calls' = [calls EXCEPT ![r] = 0]
  BY DEF LoopEnds, Return
<1>4. to \in Stages /\ 0 \in 0..MaxCalls
  BY <1>2, TurnAssumption DEF Stages, Locked
<1>5. /\ stage' \in [Requests -> Stages] /\ outcome' \in [Requests -> Outcomes]
      /\ calls' \in [Requests -> 0..MaxCalls]
  BY <1>1, <1>2, <1>3, <1>4
<1>6. OthersStay(r) /\ stage'[r] = to /\ outcome'[r] = o
  BY <1>1, <1>2, <1>3 DEF OthersStay
<1> QED
  BY <1>2, <1>5, <1>6 DEF LoopMove, Working

(* The loop goes on.                                                        *)
LEMMA GoesMove ==
  ASSUME TurnTypeOK, NEW r \in Requests, NEW to \in Loop, LoopGoes(r, to),
         stage[r] \in Working, rounds' \in [Requests -> 0..MaxToolRounds + 1],
         \A q \in Requests \ {r} : rounds'[q] = rounds[q],
         rounds'[r] <= MaxToolRounds,
         NEW n \in 0..MaxCalls, calls' = [calls EXCEPT ![r] = n], to = "tools" => n > 0
  PROVE  LoopMove(r)
<1>1. /\ stage \in [Requests -> Stages] /\ outcome \in [Requests -> Outcomes]
      /\ calls \in [Requests -> 0..MaxCalls]
  BY DEF TurnTypeOK
<1>2. stage' = [stage EXCEPT ![r] = to] /\ outcome' = outcome
  BY DEF LoopGoes
<1>3. to \in Stages
  BY DEF Stages, Locked
<1>4. stage' \in [Requests -> Stages] /\ calls' \in [Requests -> 0..MaxCalls]
  BY <1>1, <1>2, <1>3
<1>5. OthersStay(r) /\ stage'[r] = to /\ calls'[r] = n
  BY <1>1, <1>2 DEF OthersStay
<1> QED
  BY <1>1, <1>2, <1>4, <1>5 DEF LoopMove, Working, Loop

(* A round is counted while there is one left.                              *)
LEMMA RoundCounted ==
  ASSUME TurnTypeOK, NEW r \in Requests, rounds[r] <= MaxToolRounds, NextRound(r)
  PROVE  /\ rounds' \in [Requests -> 0..MaxToolRounds + 1]
         /\ \A q \in Requests \ {r} : rounds'[q] = rounds[q]
         /\ rounds'[r] = rounds[r] + 1
<1>1. rounds \in [Requests -> 0..MaxToolRounds + 1] /\ MaxToolRounds \in Nat
  BY TurnAssumption DEF TurnTypeOK
<1>2. rounds[r] + 1 \in 0..MaxToolRounds + 1
  BY <1>1
<1> QED
  BY <1>1, <1>2 DEF NextRound

(* The number of the calls that are left, when nobody counts.               *)
LEMMA CallsSame ==
  ASSUME TurnTypeOK, NEW r \in Requests
  PROVE  calls = [calls EXCEPT ![r] = calls[r]] /\ calls[r] \in 0..MaxCalls
  BY DEF TurnTypeOK

(* The calls of a round are begun, or the loop ends before them.            *)
LEMMA StartCallsMove ==
  ASSUME TurnTypeOK, NEW r \in Requests, stage[r] \in Working, rounds[r] <= MaxToolRounds,
         StartCalls(r)
  PROVE  LoopMove(r)
<1>1. /\ rounds \in [Requests -> 0..MaxToolRounds + 1]
      /\ MaxToolRounds \in Nat /\ MaxCalls \in Nat \ {0}
  BY TurnAssumption DEF TurnTypeOK
<1>2. CASE estop /\ LoopEnds(r, "aborted") /\ UNCHANGED rounds
  BY <1>1, <1>2, EndsMove DEF Outcomes, Reason
<1>3. CASE LoopEnds(r, "completed") /\ UNCHANGED rounds
  BY <1>1, <1>3, EndsMove DEF Outcomes
<1>4. CASE LoopEnds(r, "error") /\ NextRound(r)
  BY <1>1, <1>4, EndsMove, RoundCounted DEF Outcomes
<1>5. CASE ~ LastRound(r) /\ NextRound(r)
  <2>1. /\ rounds' \in [Requests -> 0..MaxToolRounds + 1]
        /\ \A q \in Requests \ {r} : rounds'[q] = rounds[q]
        /\ rounds'[r] <= MaxToolRounds
    BY <1>1, <1>5, RoundCounted DEF LastRound
  <2>2. ASSUME NEW o \in {"approval", "error"}, LoopEnds(r, o) PROVE LoopMove(r)
    BY <2>1, <2>2, EndsMove DEF Outcomes
  <2>3. ASSUME LoopGoes(r, "top"), UNCHANGED calls PROVE LoopMove(r)
    <3>1. calls' = [calls EXCEPT ![r] = calls[r]] /\ calls[r] \in 0..MaxCalls /\ "top" \in Loop
      BY <2>3, CallsSame DEF Loop
    <3> QED
      BY <2>1, <2>3, <3>1, GoesMove
  <2>4. ASSUME NEW n \in 1..MaxCalls, LoopGoes(r, "tools"), calls' = [calls EXCEPT ![r] = n]
        PROVE  LoopMove(r)
    <3>1. n \in 0..MaxCalls /\ n > 0 /\ "tools" \in Loop
      BY <1>1 DEF Loop
    <3> QED
      BY <2>1, <2>4, <3>1, GoesMove
  <2> QED
    BY <1>2, <1>3, <1>4, <2>2, <2>3, <2>4 DEF StartCalls
<1> QED
  BY <1>2, <1>3, <1>4, <1>5 DEF StartCalls

(* A command is taken out of the channel.                                   *)
LEMMA CommandTaken ==
  ASSUME TurnTypeOK, NEW r \in Requests, inbox[r] # <<>>, TakeCommand(r)
  PROVE  /\ inbox' \in [Requests -> Seq({"abort", "pivot"})]
         /\ \A q \in Requests \ {r} : inbox'[q] = inbox[q]
         /\ Len(inbox'[r]) = Len(inbox[r]) - 1
         /\ \A i \in 1..Len(inbox'[r]) : i + 1 \in 1..Len(inbox[r]) /\ inbox'[r][i] = inbox[r][i + 1]
         /\ 1 \in 1..Len(inbox[r]) /\ Head(inbox[r]) = inbox[r][1]
<1>1. inbox \in [Requests -> Seq({"abort", "pivot"})] /\ inbox[r] \in Seq({"abort", "pivot"})
  BY DEF TurnTypeOK
<1>2. /\ Tail(inbox[r]) \in Seq({"abort", "pivot"})
      /\ Len(Tail(inbox[r])) = Len(inbox[r]) - 1
      /\ \A i \in 1..Len(Tail(inbox[r])) : Tail(inbox[r])[i] = inbox[r][i + 1]
      /\ Len(inbox[r]) \in Nat \ {0} /\ Head(inbox[r]) = inbox[r][1]
  BY <1>1
<1>3. inbox'[r] = Tail(inbox[r]) /\ \A q \in Requests \ {r} : inbox'[q] = inbox[q]
  BY <1>1 DEF TakeCommand
<1>4. inbox' \in [Requests -> Seq({"abort", "pivot"})]
  BY <1>1, <1>2 DEF TakeCommand
<1> QED
  BY <1>2, <1>3, <1>4

-----------------------------------------------------------------------------
(* The steps of the loop.                                                   *)

(* No command is put into a channel.                                        *)
InboxDrains ==
  /\ inbox' \in [Requests -> Seq({"abort", "pivot"})]
  /\ \A q \in Requests : \A i \in 1..Len(inbox'[q]) :
       \E j \in 1..Len(inbox[q]) : inbox'[q][i] = inbox[q][j]

(* What a step of the loop leaves alone.                                    *)
LoopQuiet(r) ==
  /\ LoopMove(r) /\ InboxDrains
  /\ executed' \in [Requests -> BOOLEAN] /\ secondRun' \in [Requests -> BOOLEAN]
  /\ UNCHANGED <<permits, lockOwner, lockQueue, steering, estop, aborts, steers>>

(* No command is taken.                                                     *)
LEMMA InboxSame == ASSUME TurnTypeOK, UNCHANGED inbox PROVE InboxDrains
  BY DEF TurnTypeOK, InboxDrains

(* The head of the inbox is taken.                                          *)
LEMMA InboxTaken ==
  ASSUME TurnTypeOK, NEW r \in Requests, inbox[r] # <<>>, TakeCommand(r)
  PROVE  InboxDrains
<1>1. /\ inbox' \in [Requests -> Seq({"abort", "pivot"})]
      /\ \A q \in Requests \ {r} : inbox'[q] = inbox[q]
      /\ \A i \in 1..Len(inbox'[r]) : i + 1 \in 1..Len(inbox[r]) /\ inbox'[r][i] = inbox[r][i + 1]
  BY CommandTaken
<1>2. ASSUME NEW q \in Requests, NEW i \in 1..Len(inbox'[q])
      PROVE  \E j \in 1..Len(inbox[q]) : inbox'[q][i] = inbox[q][j]
  <2>1. CASE q = r
    BY <1>1, <1>2, <2>1
  <2>2. CASE q # r
    <3>1. inbox'[q] = inbox[q]
      BY <1>1, <2>2
    <3> QED
      BY <1>2, <3>1
  <2> QED
    BY <2>1, <2>2
<1> QED
  BY <1>1, <1>2 DEF InboxDrains

(* An Abort at the head of the channel was sent to the request.             *)
LEMMA HeadTold ==
  ASSUME TurnTypeOK, AbortTold, NEW r \in Requests, inbox[r] # <<>>, Head(inbox[r]) = "abort"
  PROVE  Reason(r)
<1>1. inbox[r] \in Seq({"abort", "pivot"})
  BY DEF TurnTypeOK
<1>2. 1 \in 1..Len(inbox[r]) /\ inbox[r][1] = "abort"
  BY <1>1
<1> QED
  BY <1>2 DEF AbortTold, Reason

(* A request in the loop has its rounds typed, and one left.                *)
LEMMA LoopRound ==
  ASSUME TurnShape, NEW r \in Requests, stage[r] \in Loop
  PROVE  /\ stage[r] \in Working /\ rounds[r] <= MaxToolRounds
         /\ rounds \in [Requests -> 0..MaxToolRounds + 1]
         /\ executed \in [Requests -> BOOLEAN] /\ secondRun \in [Requests -> BOOLEAN]
  BY DEF TurnShape, TurnTypeOK, RoundsLeft, Loop, Working

(* AskModel works under the lock and takes at most the head of the inbox.   *)
LEMMA AskModelMove ==
  ASSUME TurnShape, AbortTold, NEW r \in Requests, AskModel(r)
  PROVE  LoopQuiet(r) /\ UNCHANGED history /\ stage[r] \in Working
<1> DEFINE command == IF Steerable(r) /\ inbox[r] # <<>> THEN Head(inbox[r]) ELSE "none"
<1>1. /\ stage[r] \in Loop
      /\ UNCHANGED <<permits, lockOwner, lockQueue, history, steering, estop, aborts, steers>>
      /\ UNCHANGED <<rounds, executed, secondRun>>
  BY DEF AskModel, gateVars, Loop
<1>2. InboxDrains
  <2>1. CASE ~ estop /\ command # "none"
    BY <2>1, InboxTaken DEF AskModel, TurnShape
  <2>2. CASE ~ (~ estop /\ command # "none")
    BY <2>2, InboxSame DEF AskModel, TurnShape
  <2> QED
    BY <2>1, <2>2
<1>3. LoopMove(r)
  <2>1. CASE estop \/ command = "abort"
    <3>1. LoopEnds(r, "aborted")
      BY <2>1 DEF AskModel
    <3>2. Reason(r)
      <4>1. CASE estop
        BY <4>1 DEF Reason
      <4>2. CASE command = "abort"
        BY <4>2, HeadTold DEF TurnShape
      <4> QED
        BY <2>1, <4>1, <4>2
    <3> QED
      BY <1>1, <3>1, <3>2, LoopRound, EndsMove DEF TurnShape, Outcomes
  <2>2. CASE ~ (estop \/ command = "abort")
    <3>1. LoopGoes(r, "queried") /\ UNCHANGED calls
      BY <2>2 DEF AskModel
    <3>2. calls' = [calls EXCEPT ![r] = calls[r]] /\ calls[r] \in 0..MaxCalls /\ "queried" \in Loop
      BY <3>1, CallsSame DEF Loop, TurnShape
    <3> QED
      BY <1>1, <3>1, <3>2, LoopRound, GoesMove DEF TurnShape
  <2> QED
    BY <2>1, <2>2
<1> QED
  BY <1>1, <1>2, <1>3, LoopRound DEF LoopQuiet

(* ModelAnswers works under the lock.                                       *)
LEMMA ModelAnswersMove ==
  ASSUME TurnShape, NEW r \in Requests, ModelAnswers(r)
  PROVE  LoopQuiet(r) /\ UNCHANGED history /\ stage[r] \in Working
<1>1. /\ stage[r] \in Loop
      /\ UNCHANGED <<permits, lockOwner, lockQueue, history, steering, estop, aborts, steers>>
      /\ UNCHANGED <<inbox, executed, secondRun>>
  BY DEF ModelAnswers, gateVars, channelVars, Loop
<1>2. InboxDrains
  BY <1>1, InboxSame DEF TurnShape
<1>3. LoopMove(r)
  <2>1. ASSUME NEW o \in {"error", "completed"}, LoopEnds(r, o), UNCHANGED rounds
        PROVE  LoopMove(r)
    BY <1>1, <2>1, LoopRound, EndsMove DEF TurnShape, Outcomes
  <2>2. ASSUME NextRound(r), LastRound(r), LoopEnds(r, "error") PROVE LoopMove(r)
    BY <1>1, <2>2, LoopRound, RoundCounted, EndsMove DEF TurnShape, Outcomes
  <2>3. ASSUME NextRound(r), ~ LastRound(r), LoopGoes(r, "top"), UNCHANGED calls PROVE LoopMove(r)
    <3>1. calls' = [calls EXCEPT ![r] = calls[r]] /\ calls[r] \in 0..MaxCalls /\ "top" \in Loop
      BY <2>3, CallsSame DEF Loop, TurnShape
    <3>2. /\ rounds' \in [Requests -> 0..MaxToolRounds + 1]
          /\ \A q \in Requests \ {r} : rounds'[q] = rounds[q]
          /\ rounds'[r] = rounds[r] + 1
      BY <1>1, <2>3, LoopRound, RoundCounted DEF TurnShape
    <3>3. rounds'[r] <= MaxToolRounds
      BY <1>1, <2>3, <3>2, LoopRound, TurnAssumption DEF LastRound
    <3> QED
      BY <1>1, <2>3, <3>1, <3>2, <3>3, LoopRound, GoesMove DEF TurnShape
  <2>4. ASSUME StartCalls(r) PROVE LoopMove(r)
    BY <1>1, <2>4, LoopRound, StartCallsMove DEF TurnShape
  <2> QED
    BY <2>1, <2>2, <2>3, <2>4 DEF ModelAnswers
<1> QED
  BY <1>1, <1>2, <1>3, LoopRound DEF LoopQuiet

(* ParallelCalls works under the lock.                                      *)
LEMMA ParallelCallsMove ==
  ASSUME TurnShape, AbortTold, NEW r \in Requests, ParallelCalls(r)
  PROVE  LoopQuiet(r) /\ UNCHANGED history /\ stage[r] \in Working
<1>1. /\ stage[r] \in Loop
      /\ UNCHANGED <<permits, lockOwner, lockQueue, history, steering, estop, aborts, steers>>
      /\ UNCHANGED <<rounds, secondRun>> /\ Executed(r)
  BY DEF ParallelCalls, gateVars, Loop
<1>2. executed' \in [Requests -> BOOLEAN]
  BY <1>1, LoopRound DEF Executed
<1>3. CASE LoopGoes(r, "follow") /\ calls' = [calls EXCEPT ![r] = 0] /\ UNCHANGED inbox
  <2>1. 0 \in 0..MaxCalls /\ "follow" \in Loop
    BY TurnAssumption DEF Loop
  <2>2. LoopMove(r) /\ InboxDrains
    BY <1>1, <1>3, <2>1, LoopRound, GoesMove, InboxSame DEF TurnShape
  <2> QED
    BY <1>1, <1>2, <2>2, LoopRound DEF LoopQuiet
<1>4. CASE /\ inbox[r] # <<>> /\ TakeCommand(r)
           /\ LoopEnds(r, IF Head(inbox[r]) = "abort" THEN "aborted" ELSE "completed")
  <2>1. PICK o \in {"aborted", "completed"} :
          LoopEnds(r, o) /\ (o = "aborted" => Head(inbox[r]) = "abort")
    BY <1>4
  <2>2. o = "aborted" => Reason(r)
    BY <1>4, <2>1, HeadTold DEF TurnShape
  <2>3. LoopMove(r) /\ InboxDrains
    BY <1>1, <1>4, <2>1, <2>2, LoopRound, EndsMove, InboxTaken DEF TurnShape, Outcomes
  <2> QED
    BY <1>1, <1>2, <2>3, LoopRound DEF LoopQuiet
<1>5. CASE Closed(r) /\ LoopEnds(r, "aborted") /\ UNCHANGED inbox
  <2>1. Reason(r)
    BY <1>5 DEF Closed, Reason
  <2>2. LoopMove(r) /\ InboxDrains
    BY <1>1, <1>5, <2>1, LoopRound, EndsMove, InboxSame DEF TurnShape, Outcomes
  <2> QED
    BY <1>1, <1>2, <2>2, LoopRound DEF LoopQuiet
<1> QED
  BY <1>3, <1>4, <1>5 DEF ParallelCalls

(* SerialCall works under the lock and takes at most the head of the inbox. *)
LEMMA SerialCallMove ==
  ASSUME TurnShape, AbortTold, NEW r \in Requests, SerialCall(r)
  PROVE  LoopQuiet(r) /\ UNCHANGED history /\ stage[r] \in Working
<1>1. /\ stage[r] = "tools" /\ stage[r] \in Loop
      /\ UNCHANGED <<permits, lockOwner, lockQueue, history, steering, estop, aborts, steers>>
      /\ UNCHANGED <<rounds, secondRun>>
  BY DEF SerialCall, gateVars, Loop
<1>2. CASE Steerable(r) /\ inbox[r] # <<>>
  <2>1. PICK o \in {"aborted", "completed"} :
          LoopEnds(r, o) /\ (o = "aborted" => Head(inbox[r]) = "abort")
    BY <1>2 DEF SerialCall
  <2>2. o = "aborted" => Reason(r)
    BY <1>2, <2>1, HeadTold DEF TurnShape
  <2>3. TakeCommand(r) /\ UNCHANGED executed
    BY <1>2 DEF SerialCall
  <2>4. LoopMove(r) /\ InboxDrains
    BY <1>1, <1>2, <2>1, <2>2, <2>3, LoopRound, EndsMove, InboxTaken DEF TurnShape, Outcomes
  <2> QED
    BY <1>1, <2>3, <2>4, LoopRound DEF LoopQuiet
<1>3. CASE ~ (Steerable(r) /\ inbox[r] # <<>>)
  <2>1. Executed(r) /\ calls' = [calls EXCEPT ![r] = calls[r] - 1] /\ UNCHANGED inbox
    BY <1>3 DEF SerialCall
  <2>2. PICK to \in {"follow", "tools"} : LoopGoes(r, to) /\ (to = "tools" => calls[r] # 1)
    BY <1>3 DEF SerialCall
  <2>3. calls[r] \in 0..MaxCalls /\ calls[r] > 0 /\ MaxCalls \in Nat
    BY <1>1, TurnAssumption DEF TurnShape, TurnTypeOK, CallsLeft
  <2>4. calls[r] - 1 \in 0..MaxCalls /\ (to = "tools" => calls[r] - 1 > 0) /\ to \in Loop
    BY <2>2, <2>3 DEF Loop
  <2>5. LoopMove(r) /\ InboxDrains
    BY <1>1, <2>1, <2>2, <2>4, LoopRound, GoesMove, InboxSame DEF TurnShape
  <2>6. executed' \in [Requests -> BOOLEAN]
    BY <1>1, <2>1, LoopRound DEF Executed
  <2> QED
    BY <1>1, <2>5, <2>6, LoopRound DEF LoopQuiet
<1> QED
  BY <1>2, <1>3

(* FollowUp works under the lock.                                           *)
LEMMA FollowUpMove ==
  ASSUME TurnShape, NEW r \in Requests, FollowUp(r)
  PROVE  LoopQuiet(r) /\ UNCHANGED history /\ stage[r] \in Working
<1>1. /\ stage[r] \in Loop
      /\ UNCHANGED <<permits, lockOwner, lockQueue, history, steering, estop, aborts, steers>>
      /\ UNCHANGED <<inbox, executed, secondRun>>
  BY DEF FollowUp, gateVars, channelVars, Loop
<1>2. InboxDrains
  BY <1>1, InboxSame DEF TurnShape
<1>3. LoopMove(r)
  <2>1. ASSUME NEW o \in {"approval", "error", "completed"}, LoopEnds(r, o), UNCHANGED rounds
        PROVE  LoopMove(r)
    BY <1>1, <2>1, LoopRound, EndsMove DEF TurnShape, Outcomes
  <2>2. ASSUME LoopGoes(r, "top"), UNCHANGED <<calls, rounds>> PROVE LoopMove(r)
    <3>1. calls' = [calls EXCEPT ![r] = calls[r]] /\ calls[r] \in 0..MaxCalls /\ "top" \in Loop
      BY <2>2, CallsSame DEF Loop, TurnShape
    <3> QED
      BY <1>1, <2>2, <3>1, LoopRound, GoesMove DEF TurnShape
  <2>3. ASSUME StartCalls(r) PROVE LoopMove(r)
    BY <1>1, <2>3, LoopRound, StartCallsMove DEF TurnShape
  <2> QED
    BY <2>1, <2>2, <2>3 DEF FollowUp
<1> QED
  BY <1>1, <1>2, <1>3, LoopRound DEF LoopQuiet

-----------------------------------------------------------------------------
(* The other steps of a request that has the lock.                          *)

(* A request that goes to another place of its turn, with another outcome   *)
(* or the same; no round and no call is counted.                            *)
LEMMA TurnMove ==
  ASSUME TurnTypeOK, NEW r \in Requests, NEW to \in {"clarify", "remember", "top", "answer", "leave"},
         stage' = [stage EXCEPT ![r] = to],
         to \in {"clarify", "remember"} => stage[r] = "resolve",
         to \in Working => stage[r] \in Working \cup {"remember"},
         rounds[r] <= MaxToolRounds,
         NEW o \in Outcomes, outcome' = [outcome EXCEPT ![r] = o],
         o = "aborted" => outcome[r] = "aborted",
         UNCHANGED calls, NEW n \in 0..MaxToolRounds,
         rounds' = [rounds EXCEPT ![r] = n]
  PROVE  LoopMove(r)
<1>1. /\ stage \in [Requests -> Stages] /\ outcome \in [Requests -> Outcomes]
      /\ calls \in [Requests -> 0..MaxCalls] /\ rounds \in [Requests -> 0..MaxToolRounds + 1]
      /\ MaxToolRounds \in Nat
  BY TurnAssumption DEF TurnTypeOK
<1>2. to \in Stages /\ n \in 0..MaxToolRounds + 1 /\ n <= MaxToolRounds
      /\ to \in Working \cup {"clarify", "remember", "leave"}
  BY <1>1 DEF Stages, Locked, Loop, Working
<1>3. /\ stage' \in [Requests -> Stages] /\ outcome' \in [Requests -> Outcomes]
      /\ rounds' \in [Requests -> 0..MaxToolRounds + 1]
  BY <1>1, <1>2
<1>4. OthersStay(r) /\ stage'[r] = to /\ outcome'[r] = o /\ rounds'[r] = n
  BY <1>1 DEF OthersStay
<1> QED
  BY <1>1, <1>2, <1>3, <1>4 DEF LoopMove

(* The same outcome, and the same rounds.                                   *)
LEMMA OutcomeSame ==
  ASSUME TurnShape, NEW r \in Requests, stage[r] \in Locked \ {"leave"}
  PROVE  /\ outcome = [outcome EXCEPT ![r] = outcome[r]] /\ outcome[r] \in Outcomes
         /\ rounds = [rounds EXCEPT ![r] = rounds[r]] /\ rounds[r] \in 0..MaxToolRounds
         /\ rounds[r] <= MaxToolRounds
<1>1. rounds[r] <= MaxToolRounds
  BY DEF TurnShape, RoundsLeft, Locked, Loop
<1>2. rounds[r] \in 0..MaxToolRounds + 1 /\ MaxToolRounds \in Nat
  BY TurnAssumption DEF TurnShape, TurnTypeOK
<1> QED
  BY <1>1, <1>2 DEF TurnShape, TurnTypeOK

(* Resolve may say what the user asked for, before it is clarified.         *)
LEMMA ResolveMove ==
  ASSUME TurnShape, NEW r \in Requests, Resolve(r)
  PROVE  /\ LoopQuiet(r) /\ stage[r] = "resolve"
         /\ \/ stage'[r] \in {"clarify", "remember", "leave"} /\ UNCHANGED history
            \/ stage'[r] = "clarify" /\ history' = Append(history, <<"user", r>>)
<1>1. /\ stage[r] = "resolve" /\ stage[r] \in Locked \ {"leave"}
      /\ UNCHANGED <<permits, lockOwner, lockQueue, steering, estop, aborts, steers>>
      /\ UNCHANGED <<inbox, rounds, calls, executed, secondRun>>
  BY DEF Resolve, Proceed, gateVars, channelVars, loopVars, Locked
<1>2. PICK to \in {"clarify", "remember", "leave"}, o \in Outcomes :
        /\ stage' = [stage EXCEPT ![r] = to]
        /\ outcome' = [outcome EXCEPT ![r] = o]
        /\ o = "aborted" => outcome[r] = "aborted"
        /\ \/ UNCHANGED history
           \/ to = "clarify" /\ history' = Append(history, <<"user", r>>)
  <2>1. CASE Proceed(r, "resolve", "remember") /\ UNCHANGED <<outcome, history>>
    BY <1>1, <2>1, OutcomeSame DEF Proceed
  <2>2. CASE Proceed(r, "resolve", "clarify") /\ Return(r, "completed")
             /\ history' \in {history, Append(history, <<"user", r>>)}
    BY <2>2 DEF Proceed, Return, Outcomes
  <2>3. ASSUME NEW o \in {"elevation", "error", "completed"}, Proceed(r, "resolve", "leave"),
               Return(r, o), UNCHANGED history
        PROVE  \E to \in {"clarify", "remember", "leave"}, p \in Outcomes :
                 /\ stage' = [stage EXCEPT ![r] = to]
                 /\ outcome' = [outcome EXCEPT ![r] = p]
                 /\ p = "aborted" => outcome[r] = "aborted"
                 /\ \/ UNCHANGED history
                    \/ to = "clarify" /\ history' = Append(history, <<"user", r>>)
    <3>1. o \in Outcomes /\ o # "aborted"
      BY DEF Outcomes
    <3> QED
      BY <2>3, <3>1 DEF Proceed, Return
  <2> QED
    BY <2>1, <2>2, <2>3 DEF Resolve
<1>3. LoopMove(r)
  BY <1>1, <1>2, OutcomeSame, TurnMove DEF TurnShape, Working, Loop
<1>4. InboxDrains /\ executed' \in [Requests -> BOOLEAN] /\ secondRun' \in [Requests -> BOOLEAN]
  BY <1>1, InboxSame DEF TurnShape, TurnTypeOK
<1>5. stage'[r] = to
  BY <1>2 DEF TurnShape, TurnTypeOK
<1> QED
  BY <1>1, <1>2, <1>3, <1>4, <1>5 DEF LoopQuiet

(* Clarify says the question to the user, or loses it.                      *)
LEMMA ClarifyMove ==
  ASSUME TurnShape, NEW r \in Requests, Clarify(r)
  PROVE  /\ LoopQuiet(r) /\ stage[r] = "clarify" /\ stage'[r] = "leave"
         /\ UNCHANGED history \/ history' = Append(history, <<"assistant", r>>)
<1>1. /\ stage[r] = "clarify" /\ stage[r] \in Locked \ {"leave"}
      /\ UNCHANGED <<permits, lockOwner, lockQueue, steering, estop, aborts, steers>>
      /\ UNCHANGED <<inbox, rounds, calls, executed, secondRun, outcome>>
      /\ stage' = [stage EXCEPT ![r] = "leave"]
  BY DEF Clarify, Proceed, gateVars, channelVars, loopVars, Locked
<1>2. LoopMove(r)
  BY <1>1, OutcomeSame, TurnMove DEF TurnShape, Working, Loop
<1>3. InboxDrains /\ executed' \in [Requests -> BOOLEAN] /\ secondRun' \in [Requests -> BOOLEAN]
  BY <1>1, InboxSame DEF TurnShape, TurnTypeOK
<1>4. stage'[r] = "leave"
  BY <1>1 DEF TurnShape, TurnTypeOK
<1>5. UNCHANGED history \/ history' = Append(history, <<"assistant", r>>)
  BY DEF Clarify
<1> QED
  BY <1>1, <1>2, <1>3, <1>4, <1>5 DEF LoopQuiet

(* Remember says what the user asked for, or fails.                         *)
LEMMA RememberMove ==
  ASSUME TurnShape, NEW r \in Requests, Remember(r)
  PROVE  /\ LoopQuiet(r) /\ stage[r] = "remember"
         /\ \/ stage'[r] = "leave" /\ UNCHANGED history
            \/ stage'[r] = "top" /\ history' = Append(history, <<"user", r>>)
<1>1. /\ stage[r] = "remember" /\ stage[r] \in Locked \ {"leave"}
      /\ UNCHANGED <<permits, lockOwner, lockQueue, steering, estop, aborts, steers>>
      /\ UNCHANGED <<inbox, rounds, calls, executed, secondRun>>
  BY DEF Remember, Proceed, gateVars, channelVars, loopVars, Locked
<1>2. PICK to \in {"top", "leave"}, o \in Outcomes :
        /\ stage' = [stage EXCEPT ![r] = to]
        /\ outcome' = [outcome EXCEPT ![r] = o]
        /\ o = "aborted" => outcome[r] = "aborted"
        /\ \/ to = "leave" /\ UNCHANGED history
           \/ to = "top" /\ history' = Append(history, <<"user", r>>)
  <2>1. CASE Proceed(r, "remember", "top") /\ history' = Append(history, <<"user", r>>)
             /\ UNCHANGED outcome
    BY <1>1, <2>1, OutcomeSame DEF Proceed
  <2>2. CASE Proceed(r, "remember", "leave") /\ Return(r, "error") /\ UNCHANGED history
    BY <2>2 DEF Proceed, Return, Outcomes
  <2> QED
    BY <2>1, <2>2 DEF Remember
<1>3. LoopMove(r)
  BY <1>1, <1>2, OutcomeSame, TurnMove DEF TurnShape
<1>4. InboxDrains /\ executed' \in [Requests -> BOOLEAN] /\ secondRun' \in [Requests -> BOOLEAN]
  BY <1>1, InboxSame DEF TurnShape, TurnTypeOK
<1>5. stage'[r] = to
  BY <1>2 DEF TurnShape, TurnTypeOK
<1> QED
  BY <1>1, <1>2, <1>3, <1>4, <1>5 DEF LoopQuiet

(* RetryContract works under the lock.                                      *)
LEMMA RetryContractMove ==
  ASSUME TurnShape, NEW r \in Requests, RetryContract(r)
  PROVE  LoopQuiet(r) /\ UNCHANGED history /\ stage[r] \in Working
<1>1. /\ stage[r] \in Working /\ stage[r] \in Locked \ {"leave"}
      /\ UNCHANGED <<permits, lockOwner, lockQueue, history, steering, estop, aborts, steers>>
      /\ UNCHANGED <<inbox, calls, executed, outcome>>
      /\ stage' = [stage EXCEPT ![r] = "top"]
      /\ rounds' = [rounds EXCEPT ![r] = 0]
      /\ secondRun' = [secondRun EXCEPT ![r] = TRUE]
  BY DEF RetryContract, Proceed, gateVars, channelVars, Locked, Working
<1>2. 0 \in 0..MaxToolRounds
  BY TurnAssumption
<1>3. /\ outcome' = [outcome EXCEPT ![r] = outcome[r]] /\ outcome[r] \in Outcomes
      /\ rounds[r] <= MaxToolRounds
  BY <1>1, OutcomeSame
<1>4. LoopMove(r)
  BY <1>1, <1>2, <1>3, TurnMove DEF TurnShape
<1>5. InboxDrains /\ executed' \in [Requests -> BOOLEAN] /\ secondRun' \in [Requests -> BOOLEAN]
  BY <1>1, InboxSame DEF TurnShape, TurnTypeOK
<1> QED
  BY <1>1, <1>4, <1>5 DEF LoopQuiet

(* Settle works under the lock.                                             *)
LEMMA SettleMove ==
  ASSUME TurnShape, NEW r \in Requests, Settle(r)
  PROVE  LoopQuiet(r) /\ UNCHANGED history /\ stage[r] \in Working
<1>1. /\ stage[r] \in Working /\ stage[r] \in Locked \ {"leave"}
      /\ UNCHANGED <<permits, lockOwner, lockQueue, history, steering, estop, aborts, steers>>
      /\ UNCHANGED <<inbox, calls, rounds, secondRun>>
  BY DEF Settle, gateVars, channelVars, Locked, Working
<1>2. PICK to \in {"answer", "leave"}, o \in Outcomes :
        /\ stage' = [stage EXCEPT ![r] = to]
        /\ outcome' = [outcome EXCEPT ![r] = o]
        /\ o = "aborted" => outcome[r] = "aborted"
  <2>1. CASE stage' = [stage EXCEPT ![r] = "answer"] /\ UNCHANGED outcome
    BY <1>1, <2>1, OutcomeSame
  <2>2. CASE stage' = [stage EXCEPT ![r] = "leave"] /\ Return(r, "error")
    BY <2>2 DEF Return, Outcomes
  <2> QED
    BY <2>1, <2>2 DEF Settle
<1>3. LoopMove(r)
  BY <1>1, <1>2, OutcomeSame, TurnMove DEF TurnShape
<1>4. executed' \in [Requests -> BOOLEAN]
  BY DEF Settle, Executed, TurnShape, TurnTypeOK
<1>5. InboxDrains /\ secondRun' \in [Requests -> BOOLEAN]
  BY <1>1, InboxSame DEF TurnShape, TurnTypeOK
<1> QED
  BY <1>1, <1>3, <1>4, <1>5 DEF LoopQuiet

(* AnswerUser says the answer, or does not.                                 *)
LEMMA AnswerUserMove ==
  ASSUME TurnShape, NEW r \in Requests, AnswerUser(r)
  PROVE  /\ LoopQuiet(r) /\ stage[r] = "answer" /\ stage'[r] = "leave"
         /\ UNCHANGED history \/ history' = Append(history, <<"assistant", r>>)
<1>1. /\ stage[r] = "answer" /\ stage[r] \in Locked \ {"leave"}
      /\ UNCHANGED <<permits, lockOwner, lockQueue, steering, estop, aborts, steers>>
      /\ UNCHANGED <<inbox, rounds, calls, executed, secondRun>>
      /\ stage' = [stage EXCEPT ![r] = "leave"]
  BY DEF AnswerUser, Proceed, gateVars, channelVars, loopVars, Locked
<1>2. PICK o \in Outcomes :
        /\ outcome' = [outcome EXCEPT ![r] = o]
        /\ o = "aborted" => outcome[r] = "aborted"
        /\ UNCHANGED history \/ history' = Append(history, <<"assistant", r>>)
  <2>1. CASE UNCHANGED outcome
    BY <1>1, <2>1, OutcomeSame DEF AnswerUser
  <2>2. CASE Return(r, "error") /\ UNCHANGED history
    BY <2>2 DEF Return, Outcomes
  <2> QED
    BY <2>1, <2>2 DEF AnswerUser
<1>3. LoopMove(r)
  BY <1>1, <1>2, OutcomeSame, TurnMove DEF TurnShape, Working, Loop
<1>4. InboxDrains /\ executed' \in [Requests -> BOOLEAN] /\ secondRun' \in [Requests -> BOOLEAN]
  BY <1>1, InboxSame DEF TurnShape, TurnTypeOK
<1>5. stage'[r] = "leave"
  BY <1>1 DEF TurnShape, TurnTypeOK
<1> QED
  BY <1>1, <1>2, <1>3, <1>4, <1>5 DEF LoopQuiet

-----------------------------------------------------------------------------
(* What these steps make of the invariant.                                  *)

(* The parts that are not about the history.                                *)
LEMMA ControlKept ==
  ASSUME TurnInv, NEW r \in Requests, LoopQuiet(r), stage[r] \in Locked \ {"leave"},
         history' \in Seq(Messages)
  PROVE  /\ TurnShape' /\ OwnerLocked' /\ QueueWaits'
         /\ Untold' /\ AbortTold' /\ AbortHasReason'
<1>1. TurnTypeOK'
  BY DEF TurnInv, TurnShape, TurnTypeOK, LoopQuiet, LoopMove, InboxDrains
<1>2. RoundsLeft'
  <2> SUFFICES ASSUME NEW q \in Requests, stage'[q] \notin {"leave", "done"}
               PROVE  rounds'[q] <= MaxToolRounds
    BY DEF RoundsLeft
  <2>1. CASE q = r
    BY <2>1 DEF LoopQuiet, LoopMove
  <2>2. CASE q # r
    BY <2>2 DEF LoopQuiet, LoopMove, OthersStay, TurnInv, TurnShape, RoundsLeft
  <2> QED
    BY <2>1, <2>2
<1>3. CallsLeft'
  <2> SUFFICES ASSUME NEW q \in Requests, stage'[q] = "tools" PROVE calls'[q] > 0
    BY DEF CallsLeft
  <2>1. CASE q = r
    BY <2>1 DEF LoopQuiet, LoopMove
  <2>2. CASE q # r
    BY <2>2 DEF LoopQuiet, LoopMove, OthersStay, TurnInv, TurnShape, CallsLeft
  <2> QED
    BY <2>1, <2>2
<1>4. OwnerLocked'
  BY DEF TurnInv, OwnerLocked, LoopQuiet, LoopMove, OthersStay
<1>5. QueueWaits'
  <2>1. lockQueue' = lockQueue /\ lockQueue \in Seq(Requests)
    BY DEF LoopQuiet, TurnInv, TurnShape, TurnTypeOK
  <2>2. ASSUME NEW i \in 1..Len(lockQueue) PROVE stage'[lockQueue[i]] = "waiting"
    <3>1. stage[lockQueue[i]] = "waiting" /\ lockQueue[i] \in Requests
      BY <2>1 DEF TurnInv, QueueWaits
    <3>2. lockQueue[i] # r
      BY <3>1 DEF Locked, Loop
    <3> QED
      BY <3>1, <3>2 DEF LoopQuiet, LoopMove, OthersStay
  <2> QED
    BY <2>1, <2>2 DEF QueueWaits, TurnInv
<1>6. Untold'
  BY DEF TurnInv, Untold, LoopQuiet, LoopMove, OthersStay, Working, Loop
<1>7. AbortTold'
  BY DEF TurnInv, AbortTold, LoopQuiet, InboxDrains
<1>8. AbortHasReason'
  BY DEF TurnInv, AbortHasReason, LoopQuiet, LoopMove, OthersStay, Reason
<1> QED
  BY <1>1, <1>2, <1>3, <1>4, <1>5, <1>6, <1>7, <1>8 DEF TurnShape

(* A message of a request is its question or its answer; what is told of an *)
(* approved tool is neither.                                                *)
LEMMA MessageParts ==
  ASSUME NEW m \in Messages, NEW r \in Requests
  PROVE  /\ m[2] = r => m = <<"user", r>> \/ m = <<"assistant", r>>
         /\ m = Resumed => m[2] # r /\ m # <<"user", r>> /\ m # <<"assistant", r>>
<1>1. None # r
  BY TurnAssumption
<1>2. CASE m = Resumed
  BY <1>1, <1>2 DEF Resumed
<1>3. CASE m \in {"user", "assistant"} \X Requests
  BY <1>1, <1>3 DEF Resumed
<1> QED
  BY <1>2, <1>3 DEF Messages

(* A message more.                                                          *)
LEMMA OneMore ==
  ASSUME history \in Seq(Messages), NEW m \in Messages, history' = Append(history, m)
  PROVE  /\ history' \in Seq(Messages) /\ Len(history) \in Nat
         /\ Len(history') = Len(history) + 1
         /\ \A i \in 1..Len(history) : i \in 1..Len(history') /\ history'[i] = history[i]
         /\ history'[Len(history) + 1] = m
         /\ \A i \in 1..Len(history') : i \in 1..Len(history) \/ i = Len(history) + 1
         /\ DOMAIN history = 1..Len(history) /\ DOMAIN history' = 1..Len(history')
  OBVIOUS

(* The two halves of the pairing, of the history after a step.              *)
LEMMA Pairing ==
  ASSUME \A i, j \in DOMAIN history' : history'[i] = history'[j] => i = j \/ history'[i] = Resumed,
         \A i, j \in DOMAIN history' : \A r \in Requests :
           history'[i] = <<"user", r>> /\ history'[j] = <<"assistant", r>>
             => i < j /\ \A k \in (i + 1)..(j - 1) : history'[k] = Resumed
  PROVE  HistoryPaired'
  BY Zenon DEF HistoryPaired

(* A step that says nothing and moves nobody.                               *)
LEMMA SaidSame ==
  ASSUME TurnInv, UNCHANGED <<stage, history>>
  PROVE  SaidSince' /\ LastIsOwn' /\ HistoryPaired'
<1>1. LastIsOwn'
  <2> SUFFICES ASSUME NEW r \in Requests
               PROVE  /\ stage[r] \in Working => AskedLast(r)
                      /\ stage[r] = "clarify" => AskedLast(r) \/ NeverSpoke(r)
    BY DEF LastIsOwn, AskedLast, NeverSpoke
  <2> QED
    BY DEF TurnInv, LastIsOwn
<1> QED
  BY <1>1 DEF TurnInv, SaidSince, HistoryPaired

(* Whose messages there are, and that only one request is at work.          *)
LEMMA SaidBefore ==
  ASSUME TurnInv, NEW r \in Requests, stage[r] \in Locked \ {"leave"}
  PROVE  /\ history \in Seq(Messages)
         /\ \A i \in 1..Len(history) : history[i] # <<"assistant", r>>
         /\ stage[r] \notin Working \cup {"clarify"} => NeverSpoke(r)
         /\ \A q \in Requests \ {r} : stage[q] \notin Working \cup {"clarify"}
<1>1. history \in Seq(Messages)
  BY DEF TurnInv, TurnShape, TurnTypeOK
<1>2. ASSUME NEW i \in 1..Len(history), history[i] = <<"assistant", r>> PROVE FALSE
  BY <1>2 DEF TurnInv, SaidSince, Locked, Loop
<1>3. ASSUME NEW i \in 1..Len(history), history[i][2] = r, stage[r] \notin Working \cup {"clarify"}
      PROVE  FALSE
  <2>1. history[i] \in Messages
    BY <1>1
  <2>2. history[i] = <<"user", r>>
    BY <1>2, <1>3, <2>1, MessageParts
  <2> QED
    BY <1>3, <2>2 DEF TurnInv, SaidSince, Locked, Loop
<1>4. ASSUME NEW q \in Requests, q # r, stage[q] \in Working \cup {"clarify"} PROVE FALSE
  BY <1>4 DEF TurnInv, OwnerLocked, Working, Locked
<1> QED
  BY <1>1, <1>2, <1>3, <1>4 DEF NeverSpoke

(* The parts that are, when nothing is said.                                *)
LEMMA SilentKept ==
  ASSUME TurnInv, NEW r \in Requests, LoopQuiet(r), stage[r] \in Locked \ {"leave"},
         UNCHANGED history, stage[r] = "remember" => stage'[r] \notin Working
  PROVE  TurnInv'
<1>1. history \in Seq(Messages)
  BY DEF TurnInv, TurnShape, TurnTypeOK
<1>2. SaidSince'
  <2> SUFFICES ASSUME NEW i \in 1..Len(history), NEW q \in Requests
               PROVE  /\ history[i] = <<"user", q>> =>
                           stage'[q] \in Working \cup {"clarify", "leave", "done"}
                      /\ history[i] = <<"assistant", q>> => stage'[q] \in {"leave", "done"}
    BY DEF SaidSince
  <2>1. CASE q = r
    BY <2>1 DEF TurnInv, SaidSince, LoopQuiet, LoopMove, Working, Locked, Loop
  <2>2. CASE q # r
    BY <2>2 DEF TurnInv, SaidSince, LoopQuiet, LoopMove, OthersStay
  <2> QED
    BY <2>1, <2>2
<1>3. AskedLast(r)' = AskedLast(r) /\ NeverSpoke(r)' = NeverSpoke(r)
  BY DEF AskedLast, NeverSpoke
<1>4. LastIsOwn'
  <2> SUFFICES ASSUME NEW q \in Requests
               PROVE  /\ stage'[q] \in Working => AskedLast(q)
                      /\ stage'[q] = "clarify" => AskedLast(q) \/ NeverSpoke(q)
    BY DEF LastIsOwn, AskedLast, NeverSpoke
  <2>1. CASE q = r
    <3>1. stage'[r] = "clarify" => NeverSpoke(r)
      BY SaidBefore DEF LoopQuiet, LoopMove, Working, Loop
    <3>2. stage'[r] \in Working => stage[r] \in Working
      BY DEF LoopQuiet, LoopMove
    <3> QED
      BY <2>1, <3>1, <3>2 DEF TurnInv, LastIsOwn
  <2>2. CASE q # r
    BY <2>2 DEF TurnInv, LastIsOwn, LoopQuiet, LoopMove, OthersStay
  <2> QED
    BY <2>1, <2>2
<1>5. HistoryPaired'
  BY DEF TurnInv, HistoryPaired
<1> QED
  BY <1>1, <1>2, <1>4, <1>5, ControlKept DEF TurnInv

(* What is said of the others was said before.                              *)
LEMMA OthersSaid ==
  ASSUME TurnInv, NEW r \in Requests, LoopQuiet(r), NEW q \in Requests \ {r},
         NEW i \in 1..Len(history)
  PROVE  /\ history[i] = <<"user", q>> => stage'[q] \in Working \cup {"clarify", "leave", "done"}
         /\ history[i] = <<"assistant", q>> => stage'[q] \in {"leave", "done"}
  BY DEF TurnInv, SaidSince, LoopQuiet, LoopMove, OthersStay

(* The user's message is kept.                                              *)
LEMMA UserKept ==
  ASSUME TurnInv, NEW r \in Requests, LoopQuiet(r),
         \/ stage[r] = "remember" /\ stage'[r] = "top"
         \/ stage[r] = "resolve" /\ stage'[r] = "clarify",
         history' = Append(history, <<"user", r>>)
  PROVE  TurnInv'
<1>1. stage[r] \in Locked \ {"leave"} /\ stage[r] \notin Working \cup {"clarify"}
  BY DEF Locked, Working, Loop
<1>2. /\ history \in Seq(Messages) /\ <<"user", r>> \in Messages /\ NeverSpoke(r)
      /\ \A q \in Requests \ {r} : stage[q] \notin Working \cup {"clarify"}
  BY <1>1, SaidBefore DEF Messages
<1>3. \A i \in 1..Len(history) : history[i] # <<"assistant", r>> /\ history[i] # <<"user", r>>
  BY <1>2 DEF NeverSpoke
<1>4. /\ history' \in Seq(Messages) /\ Len(history') = Len(history) + 1 /\ Len(history) \in Nat
      /\ \A i \in 1..Len(history) : history'[i] = history[i]
      /\ history'[Len(history) + 1] = <<"user", r>>
      /\ \A i \in 1..Len(history') : i \in 1..Len(history) \/ i = Len(history) + 1
      /\ DOMAIN history = 1..Len(history) /\ DOMAIN history' = 1..Len(history')
  BY <1>2, OneMore
<1>5. SaidSince'
  <2> SUFFICES ASSUME NEW i \in 1..Len(history'), NEW q \in Requests
               PROVE  /\ history'[i] = <<"user", q>> =>
                           stage'[q] \in Working \cup {"clarify", "leave", "done"}
                      /\ history'[i] = <<"assistant", q>> => stage'[q] \in {"leave", "done"}
    BY DEF SaidSince
  <2>1. CASE i = Len(history) + 1
    BY <1>4, <2>1 DEF Working, Loop
  <2>2. CASE i \in 1..Len(history)
    BY <1>3, <1>4, <2>2, OthersSaid
  <2> QED
    BY <1>4, <2>1, <2>2
<1>6. LastIsOwn'
  <2>1. AskedLast(r)'
    <3>1. Len(history) + 1 \in 1..Len(history')
      BY <1>4
    <3>2. \A j \in (Len(history) + 1 + 1)..Len(history') : history'[j] = Resumed
      BY <1>4
    <3> QED
      BY <1>4, <3>1, <3>2 DEF AskedLast
  <2>2. \A q \in Requests \ {r} : stage'[q] \notin Working \cup {"clarify"}
    BY <1>2 DEF LoopQuiet, LoopMove, OthersStay
  <2> QED
    BY <2>1, <2>2 DEF LastIsOwn
<1>7. HistoryPaired'
  <2>1. ASSUME NEW i \in DOMAIN history', NEW j \in DOMAIN history', history'[i] = history'[j]
        PROVE  i = j \/ history'[i] = Resumed
    BY <1>3, <1>4, <2>1 DEF TurnInv, HistoryPaired
  <2>2. ASSUME NEW i \in DOMAIN history', NEW j \in DOMAIN history', NEW q \in Requests,
               history'[i] = <<"user", q>>, history'[j] = <<"assistant", q>>
        PROVE  i < j /\ \A k \in (i + 1)..(j - 1) : history'[k] = Resumed
    <3>1. j \in 1..Len(history)
      BY <1>4, <2>2
    <3>2. i \in 1..Len(history)
      BY <1>3, <1>4, <2>2, <3>1
    <3>3. history[i] = <<"user", q>> /\ history[j] = <<"assistant", q>>
      BY <1>4, <2>2, <3>1, <3>2
    <3>4. i < j /\ \A k \in (i + 1)..(j - 1) : history[k] = Resumed
      BY <1>4, <3>1, <3>2, <3>3 DEF TurnInv, HistoryPaired
    <3> QED
      BY <1>4, <3>1, <3>2, <3>4
  <2> QED
    BY <2>1, <2>2, Pairing
<1> QED
  BY <1>1, <1>4, <1>5, <1>6, <1>7, ControlKept DEF TurnInv

(* The answer, or the question to the user, is kept behind the message it   *)
(* answers.                                                                 *)
LEMMA AnswerKept ==
  ASSUME TurnInv, NEW r \in Requests, LoopQuiet(r), stage[r] \in {"answer", "clarify"},
         stage'[r] = "leave", history' = Append(history, <<"assistant", r>>)
  PROVE  TurnInv'
<1>1. stage[r] \in Locked \ {"leave"}
  BY DEF Locked, Loop
<1>2. /\ history \in Seq(Messages) /\ <<"assistant", r>> \in Messages
      /\ \A i \in 1..Len(history) : history[i] # <<"assistant", r>>
      /\ \A q \in Requests \ {r} : stage[q] \notin Working \cup {"clarify"}
  BY <1>1, SaidBefore DEF Messages
<1>3. /\ history' \in Seq(Messages) /\ Len(history') = Len(history) + 1 /\ Len(history) \in Nat
      /\ \A i \in 1..Len(history) : history'[i] = history[i]
      /\ history'[Len(history) + 1] = <<"assistant", r>>
      /\ \A i \in 1..Len(history') : i \in 1..Len(history) \/ i = Len(history) + 1
      /\ DOMAIN history = 1..Len(history) /\ DOMAIN history' = 1..Len(history')
  BY <1>2, OneMore
<1>4. AskedLast(r) \/ NeverSpoke(r)
  BY DEF TurnInv, LastIsOwn, Working
<1>5. SaidSince'
  <2> SUFFICES ASSUME NEW i \in 1..Len(history'), NEW q \in Requests
               PROVE  /\ history'[i] = <<"user", q>> =>
                           stage'[q] \in Working \cup {"clarify", "leave", "done"}
                      /\ history'[i] = <<"assistant", q>> => stage'[q] \in {"leave", "done"}
    BY DEF SaidSince
  <2>1. CASE i = Len(history) + 1
    BY <1>3, <2>1
  <2>2. CASE i \in 1..Len(history)
    BY <1>3, <2>2, OthersSaid
  <2> QED
    BY <1>3, <2>1, <2>2
<1>6. LastIsOwn'
  <2>1. stage'[r] \notin Working \cup {"clarify"}
    BY DEF Working, Loop
  <2>2. \A q \in Requests \ {r} : stage'[q] \notin Working \cup {"clarify"}
    BY <1>2 DEF LoopQuiet, LoopMove, OthersStay
  <2> QED
    BY <2>1, <2>2 DEF LastIsOwn
<1>7. HistoryPaired'
  <2>1. ASSUME NEW i \in DOMAIN history', NEW j \in DOMAIN history', history'[i] = history'[j]
        PROVE  i = j \/ history'[i] = Resumed
    BY <1>2, <1>3, <2>1 DEF TurnInv, HistoryPaired
  <2>2. ASSUME NEW i \in DOMAIN history', NEW j \in DOMAIN history', NEW q \in Requests,
               history'[i] = <<"user", q>>, history'[j] = <<"assistant", q>>
        PROVE  i < j /\ \A k \in (i + 1)..(j - 1) : history'[k] = Resumed
    <3>1. i \in 1..Len(history) /\ history[i] = <<"user", q>>
      BY <1>3, <2>2
    <3>2. CASE j = Len(history) + 1
      <4>1. q = r
        BY <1>3, <2>2, <3>2
      <4>2. ~ NeverSpoke(r)
        BY <3>1, <4>1 DEF NeverSpoke
      <4>3. PICK a \in 1..Len(history) : /\ history[a] = <<"user", r>>
                                         /\ \A k \in (a + 1)..Len(history) : history[k] = Resumed
        BY <1>4, <4>2 DEF AskedLast
      <4>4. history[i] # Resumed
        BY <3>1, TurnAssumption DEF Resumed
      <4>5. i = a
        BY <1>3, <3>1, <4>1, <4>3, <4>4 DEF TurnInv, HistoryPaired
      <4> QED
        BY <1>3, <3>2, <4>3, <4>5
    <3>3. CASE j \in 1..Len(history)
      <4>1. i < j /\ \A k \in (i + 1)..(j - 1) : history[k] = Resumed
        BY <1>3, <2>2, <3>1, <3>3 DEF TurnInv, HistoryPaired
      <4> QED
        BY <1>3, <3>1, <3>3, <4>1
    <3> QED
      BY <1>3, <3>2, <3>3
  <2> QED
    BY <2>1, <2>2, Pairing
<1> QED
  BY <1>1, <1>3, <1>5, <1>6, <1>7, ControlKept DEF TurnInv

-----------------------------------------------------------------------------
(* The steps of a request that does not have the lock.                      *)

(* Before it asks for the lock a request has said nothing.                  *)
LEMMA EarlyKept ==
  ASSUME TurnInv, NEW r \in Requests, stage[r] \in {"idle", "admit", "screen"},
         NEW to \in {"admit", "screen", "lock", "done"}, stage' = [stage EXCEPT ![r] = to],
         NEW o \in {outcome[r], "error"}, outcome' = [outcome EXCEPT ![r] = o],
         permits' \subseteq Requests,
         steering' = steering \/ (stage[r] = "idle" /\ steering' = r),
         UNCHANGED <<lockOwner, lockQueue, inbox, estop, aborts, steers, loopVars, history>>
  PROVE  TurnInv'
<1>1. /\ stage \in [Requests -> Stages] /\ outcome \in [Requests -> Outcomes]
      /\ history \in Seq(Messages) /\ lockQueue \in Seq(Requests)
  BY DEF TurnInv, TurnShape, TurnTypeOK
<1>2. /\ \A q \in Requests \ {r} : stage'[q] = stage[q] /\ outcome'[q] = outcome[q]
      /\ stage'[r] = to /\ outcome'[r] = o
  BY <1>1
<1>3. TurnTypeOK'
  <2>1. to \in Stages /\ o \in Outcomes
    BY <1>1 DEF Stages, Outcomes
  <2>2. stage' \in [Requests -> Stages] /\ outcome' \in [Requests -> Outcomes]
    BY <1>1, <2>1
  <2> QED
    BY <2>2 DEF TurnInv, TurnShape, TurnTypeOK, loopVars
<1>4. RoundsLeft' /\ CallsLeft'
  BY <1>2 DEF TurnInv, TurnShape, RoundsLeft, CallsLeft, loopVars
<1>5. OwnerLocked'
  BY <1>2 DEF TurnInv, OwnerLocked, Locked, Loop
<1>6. QueueWaits'
  <2>1. ASSUME NEW i \in 1..Len(lockQueue) PROVE stage'[lockQueue[i]] = "waiting"
    <3>1. stage[lockQueue[i]] = "waiting" /\ lockQueue[i] \in Requests
      BY <1>1 DEF TurnInv, QueueWaits
    <3> QED
      BY <1>2, <3>1
  <2> QED
    BY <2>1 DEF QueueWaits, TurnInv
<1>7. SaidSince' /\ LastIsOwn' /\ HistoryPaired'
  <2>1. SaidSince'
    BY <1>2 DEF TurnInv, SaidSince, Working, Loop
  <2>2. LastIsOwn'
    <3> SUFFICES ASSUME NEW q \in Requests
                 PROVE  /\ stage'[q] \in Working => AskedLast(q)
                        /\ stage'[q] = "clarify" => AskedLast(q) \/ NeverSpoke(q)
      BY DEF LastIsOwn, AskedLast, NeverSpoke
    <3> QED
      BY <1>2 DEF TurnInv, LastIsOwn, Working, Loop
  <2> QED
    BY <2>1, <2>2 DEF TurnInv, HistoryPaired
<1>8. Untold' /\ AbortTold'
  BY <1>2 DEF TurnInv, Untold, AbortTold
<1>9. AbortHasReason'
  <2> SUFFICES ASSUME NEW q \in Requests, outcome'[q] = "aborted"
               PROVE  q \in aborts \/ estop \/ steering' # q
    BY DEF AbortHasReason
  <2>1. outcome[q] = "aborted"
    BY <1>2
  <2>2. q \in aborts \/ estop \/ steering # q
    BY <2>1 DEF TurnInv, AbortHasReason
  <2> QED
    BY <2>1, <2>2 DEF TurnInv, Untold
<1> QED
  BY <1>3, <1>4, <1>5, <1>6, <1>7, <1>8, <1>9 DEF TurnInv, TurnShape

(* Register: the channel of the chat is now the one of this request.        *)
LEMMA RegisterKept == ASSUME TurnInv, NEW r \in Requests, Register(r) PROVE TurnInv'
<1>1. /\ stage[r] = "idle" /\ stage' = [stage EXCEPT ![r] = "admit"] /\ steering' = r
      /\ UNCHANGED <<permits, lockOwner, lockQueue, inbox, estop, aborts, steers>>
      /\ UNCHANGED <<loopVars, history, outcome>>
  BY DEF Register, Proceed, gateVars
<1>2. outcome' = [outcome EXCEPT ![r] = outcome[r]] /\ permits' \subseteq Requests
  BY <1>1 DEF TurnInv, TurnShape, TurnTypeOK
<1> QED
  BY <1>1, <1>2, EarlyKept

(* Admit and Screen: a request gets its permit and passes, or an error.     *)
LEMMA AdmitKept ==
  ASSUME TurnInv, NEW r \in Requests, Admit(r) \/ Screen(r)
  PROVE  TurnInv'
<1>1. PICK to \in {"screen", "lock", "done"} :
        stage[r] \in {"admit", "screen"} /\ stage' = [stage EXCEPT ![r] = to]
  BY DEF Admit, Screen, Proceed
<1>2. PICK o \in {outcome[r], "error"} : outcome' = [outcome EXCEPT ![r] = o]
  <2>1. CASE UNCHANGED outcome
    BY <2>1 DEF TurnInv, TurnShape, TurnTypeOK
  <2>2. CASE Return(r, "error")
    BY <2>2 DEF Return
  <2> QED
    BY <2>1, <2>2 DEF Admit, Screen
<1>3. permits' \subseteq Requests
  BY DEF Admit, Screen, TurnInv, TurnShape, TurnTypeOK
<1>4. UNCHANGED <<lockOwner, lockQueue, steering, inbox, estop, aborts, steers, loopVars, history>>
  BY DEF Admit, Screen, channelVars
<1> QED
  BY <1>1, <1>2, <1>3, <1>4, EarlyKept

(* The lock changes hands, or the queue grows: those whose stage changes    *)
(* have said nothing, or have said all they had to say.                     *)
LEMMA LockKept ==
  ASSUME TurnInv, stage' \in [Requests -> Stages], permits' \subseteq Requests,
         UNCHANGED <<channelVars, loopVars, outcome, history>>,
         \A q \in Requests :
           \/ stage'[q] = stage[q]
           \/ stage[q] = "leave" /\ stage'[q] = "done"
           \/ stage[q] \in {"lock", "waiting"} /\ stage'[q] \in {"waiting", "resolve"},
         lockOwner' \in Requests \cup {None}, lockQueue' \in Seq(Requests),
         OwnerLocked', QueueWaits'
  PROVE  TurnInv'
<1>1. TurnTypeOK'
  BY DEF TurnInv, TurnShape, TurnTypeOK, channelVars, loopVars
<1>2. RoundsLeft' /\ CallsLeft'
  BY DEF TurnInv, TurnShape, RoundsLeft, CallsLeft, loopVars
<1>3. SaidSince'
  BY DEF TurnInv, SaidSince, Working, Loop
<1>4. LastIsOwn'
  <2> SUFFICES ASSUME NEW q \in Requests
               PROVE  /\ stage'[q] \in Working => AskedLast(q)
                      /\ stage'[q] = "clarify" => AskedLast(q) \/ NeverSpoke(q)
    BY DEF LastIsOwn, AskedLast, NeverSpoke
  <2> QED
    BY DEF TurnInv, LastIsOwn, Working, Loop
<1>5. HistoryPaired'
  BY DEF TurnInv, HistoryPaired
<1>6. Untold' /\ AbortTold' /\ AbortHasReason'
  BY DEF TurnInv, Untold, AbortTold, AbortHasReason, channelVars
<1> QED
  BY <1>1, <1>2, <1>3, <1>4, <1>5, <1>6 DEF TurnInv, TurnShape

(* LockSession: a request gets the lock or joins the queue.                 *)
LEMMA LockSessionKept == ASSUME TurnInv, NEW r \in Requests, LockSession(r) PROVE TurnInv'
<1>1. /\ stage \in [Requests -> Stages] /\ lockQueue \in Seq(Requests)
      /\ lockOwner \in Requests \cup {None} /\ permits \subseteq Requests
  BY DEF TurnInv, TurnShape, TurnTypeOK
<1>2. stage[r] = "lock" /\ UNCHANGED <<permits, channelVars, loopVars, outcome, history>>
  BY DEF LockSession
<1>3. ASSUME NEW i \in 1..Len(lockQueue)
      PROVE  lockQueue[i] \in Requests \ {r} /\ stage[lockQueue[i]] = "waiting"
  BY <1>1, <1>2 DEF TurnInv, QueueWaits
<1>4. CASE lockOwner = None
  <2>1. lockOwner' = r /\ stage' = [stage EXCEPT ![r] = "resolve"] /\ lockQueue' = lockQueue
    BY <1>4 DEF LockSession, TakeLock
  <2>2. stage' \in [Requests -> Stages]
    BY <1>1, <2>1 DEF Stages, Locked
  <2>3. OwnerLocked'
    BY <1>1, <1>4, <2>1, TurnAssumption DEF TurnInv, OwnerLocked
  <2>4. QueueWaits'
    BY <1>1, <1>3, <2>1 DEF TurnInv, QueueWaits
  <2> QED
    BY <1>1, <1>2, <2>1, <2>2, <2>3, <2>4, LockKept
<1>5. CASE lockOwner # None
  <2>1. /\ lockOwner' = lockOwner /\ stage' = [stage EXCEPT ![r] = "waiting"]
        /\ lockQueue' = Append(lockQueue, r)
    BY <1>5 DEF LockSession, TakeLock
  <2>2. stage' \in [Requests -> Stages]
    BY <1>1, <2>1 DEF Stages
  <2>3. OwnerLocked'
    BY <1>1, <2>1 DEF TurnInv, OwnerLocked, Locked, Loop
  <2>4. /\ lockQueue' \in Seq(Requests) /\ Len(lockQueue') = Len(lockQueue) + 1
        /\ Len(lockQueue) \in Nat
        /\ \A i \in 1..Len(lockQueue) : lockQueue'[i] = lockQueue[i]
        /\ lockQueue'[Len(lockQueue) + 1] = r
    BY <1>1, <2>1
  <2>5. \A i \in 1..Len(lockQueue') : i \in 1..Len(lockQueue) \/ i = Len(lockQueue) + 1
    BY <2>4
  <2>6. \A i \in 1..Len(lockQueue') : stage'[lockQueue'[i]] = "waiting"
    BY <1>1, <1>3, <2>1, <2>4, <2>5
  <2>7. \A i, j \in 1..Len(lockQueue') : lockQueue'[i] = lockQueue'[j] => i = j
    BY <1>3, <2>4, <2>5 DEF TurnInv, QueueWaits
  <2> QED
    BY <1>1, <1>2, <2>1, <2>2, <2>3, <2>4, <2>6, <2>7, LockKept DEF QueueWaits
<1> QED
  BY <1>4, <1>5

(* Leave: the lock goes to the first who waits.                             *)
LEMMA LeaveKept == ASSUME TurnInv, NEW r \in Requests, Leave(r) PROVE TurnInv'
<1>1. /\ stage \in [Requests -> Stages] /\ lockQueue \in Seq(Requests)
      /\ permits \subseteq Requests
  BY DEF TurnInv, TurnShape, TurnTypeOK
<1>2. /\ stage[r] = "leave" /\ permits' = permits \ {r}
      /\ UNCHANGED <<channelVars, loopVars, outcome, history>>
  BY DEF Leave
<1>3. \A q \in Requests \ {r} : stage[q] \notin Locked
  BY <1>2 DEF TurnInv, OwnerLocked, Locked
<1>4. CASE lockQueue = <<>>
  <2>1. lockOwner' = None /\ stage' = [stage EXCEPT ![r] = "done"] /\ lockQueue' = lockQueue
    BY <1>4 DEF Leave
  <2>2. stage' \in [Requests -> Stages]
    BY <1>1, <2>1 DEF Stages
  <2>3. OwnerLocked'
    BY <1>1, <1>3, <2>1 DEF OwnerLocked, Locked, Loop
  <2>4. QueueWaits'
    BY <1>4, <2>1 DEF QueueWaits
  <2> QED
    BY <1>1, <1>2, <2>1, <2>2, <2>3, <2>4, LockKept
<1>5. CASE lockQueue # <<>>
  <2>1. PICK h \in Requests : h = Head(lockQueue) /\ h = lockQueue[1]
    BY <1>1, <1>5
  <2>2. /\ lockOwner' = h /\ lockQueue' = Tail(lockQueue)
        /\ stage' = [stage EXCEPT ![r] = "done", ![h] = "resolve"]
    BY <1>5, <2>1 DEF Leave
  <2>3. /\ Len(lockQueue) \in Nat \ {0} /\ lockQueue' \in Seq(Requests)
        /\ Len(lockQueue') = Len(lockQueue) - 1
        /\ \A i \in 1..Len(lockQueue') : lockQueue'[i] = lockQueue[i + 1]
    BY <1>1, <1>5, <2>2
  <2>4. stage[h] = "waiting" /\ h # r
    BY <1>2, <2>1, <2>3 DEF TurnInv, QueueWaits
  <2>5. /\ stage' \in [Requests -> Stages]
        /\ stage'[h] = "resolve" /\ stage'[r] = "done"
        /\ \A q \in Requests \ {r, h} : stage'[q] = stage[q]
    BY <1>1, <2>2, <2>4 DEF Stages, Locked
  <2>6. OwnerLocked'
    BY <1>3, <2>2, <2>5 DEF OwnerLocked, Locked, Loop
  <2>7. ASSUME NEW i \in 1..Len(lockQueue')
        PROVE  i + 1 \in 1..Len(lockQueue) /\ stage'[lockQueue'[i]] = "waiting"
    <3>1. i + 1 \in 1..Len(lockQueue) /\ 1 \in 1..Len(lockQueue) /\ i + 1 # 1
      BY <2>3
    <3>2. lockQueue[i + 1] \in Requests /\ stage[lockQueue[i + 1]] = "waiting"
      BY <1>1, <3>1 DEF TurnInv, QueueWaits
    <3>3. lockQueue[i + 1] # h /\ lockQueue[i + 1] # r
      BY <1>2, <2>1, <3>1, <3>2 DEF TurnInv, QueueWaits
    <3> QED
      BY <2>3, <2>5, <3>1, <3>2, <3>3
  <2>8. \A i, j \in 1..Len(lockQueue') : lockQueue'[i] = lockQueue'[j] => i = j
    BY <2>3, <2>7 DEF TurnInv, QueueWaits
  <2> QED
    BY <1>1, <1>2, <2>2, <2>3, <2>4, <2>5, <2>6, <2>7, <2>8, LockKept DEF QueueWaits
<1> QED
  BY <1>4, <1>5

-----------------------------------------------------------------------------
(* The user.                                                                *)

(* Steer: a command goes to the end of one inbox.                           *)
LEMMA SteerKept ==
  ASSUME TurnInv, NEW command \in {"abort", "pivot"}, Steer(command)
  PROVE  TurnInv'
<1>1. /\ steering \in Requests /\ steers' = steers + 1 /\ steers < MaxSteers
      /\ UNCHANGED <<stage, permits, lockOwner, lockQueue, steering, loopVars, outcome, history>>
      /\ estop' = estop
  BY DEF Steer, gateVars, TurnInv, TurnShape, TurnTypeOK
<1>2. inbox \in [Requests -> Seq({"abort", "pivot"})] /\ inbox[steering] \in Seq({"abort", "pivot"})
  BY <1>1 DEF TurnInv, TurnShape, TurnTypeOK
<1>3. aborts \subseteq aborts' /\ aborts' \subseteq Requests
      /\ (command = "abort" => steering \in aborts')
  BY <1>1 DEF Steer, TurnInv, TurnShape, TurnTypeOK
<1>4. CASE inbox' = inbox
  <2>1. TurnTypeOK'
    BY <1>1, <1>3, <1>4, TurnAssumption DEF TurnInv, TurnShape, TurnTypeOK, loopVars
  <2>2. AbortTold'
    BY <1>3, <1>4 DEF TurnInv, AbortTold
  <2> QED
    BY <1>1, <1>3, <2>1, <2>2, SaidSame
    DEF TurnInv, TurnShape, RoundsLeft, CallsLeft, OwnerLocked, QueueWaits, Untold,
        AbortHasReason, loopVars
<1>5. CASE inbox' = [inbox EXCEPT ![steering] = Append(@, command)]
  <2>1. /\ inbox' \in [Requests -> Seq({"abort", "pivot"})]
        /\ \A q \in Requests \ {steering} : inbox'[q] = inbox[q]
        /\ inbox'[steering] = Append(inbox[steering], command)
    BY <1>1, <1>2, <1>5
  <2>2. TurnTypeOK'
    BY <1>1, <1>3, <2>1, TurnAssumption DEF TurnInv, TurnShape, TurnTypeOK, loopVars
  <2>3. AbortTold'
    <3> SUFFICES ASSUME NEW q \in Requests, NEW i \in 1..Len(inbox'[q]), inbox'[q][i] = "abort"
                 PROVE  q \in aborts'
      BY DEF AbortTold
    <3>1. CASE q # steering
      BY <1>3, <2>1, <3>1 DEF TurnInv, AbortTold
    <3>2. CASE q = steering
      <4>1. \/ i \in 1..Len(inbox[q]) /\ inbox'[q][i] = inbox[q][i]
            \/ inbox'[q][i] = command
        BY <1>2, <2>1, <3>2
      <4> QED
        BY <1>3, <3>2, <4>1 DEF TurnInv, AbortTold
    <3> QED
      BY <3>1, <3>2
  <2> QED
    BY <1>1, <1>3, <2>2, <2>3, SaidSame
    DEF TurnInv, TurnShape, RoundsLeft, CallsLeft, OwnerLocked, QueueWaits, Untold,
        AbortHasReason, loopVars
<1> QED
  BY <1>4, <1>5 DEF Steer

(* PullEstop: from now on every request may be aborted.                     *)
LEMMA EstopKept == ASSUME TurnInv, PullEstop PROVE TurnInv'
<1>1. /\ estop' = TRUE /\ steers' = steers + 1 /\ steers < MaxSteers
      /\ UNCHANGED <<stage, permits, lockOwner, lockQueue, steering, inbox, aborts, loopVars>>
      /\ UNCHANGED <<outcome, history>>
  BY DEF PullEstop, gateVars
<1>2. TurnTypeOK'
  BY <1>1, TurnAssumption DEF TurnInv, TurnShape, TurnTypeOK, loopVars
<1> QED
  BY <1>1, <1>2, SaidSame
  DEF TurnInv, TurnShape, RoundsLeft, CallsLeft, OwnerLocked, QueueWaits, Untold, AbortTold,
      AbortHasReason, loopVars

(* ResumeApproved: what is told of an approved tool is of no request, and   *)
(* may stand between a question and its answer.                             *)
LEMMA ResumeKept == ASSUME TurnInv, ResumeApproved PROVE TurnInv'
<1>1. /\ history' = Append(history, Resumed)
      /\ UNCHANGED <<stage, permits, lockOwner, lockQueue, steering, inbox, estop, aborts, steers>>
      /\ UNCHANGED <<loopVars, outcome>>
  BY DEF ResumeApproved, gateVars, channelVars
<1>2. history \in Seq(Messages) /\ Resumed \in Messages
  BY DEF TurnInv, TurnShape, TurnTypeOK, Messages
<1>3. /\ history' \in Seq(Messages) /\ Len(history') = Len(history) + 1 /\ Len(history) \in Nat
      /\ \A i \in 1..Len(history) : i \in 1..Len(history') /\ history'[i] = history[i]
      /\ history'[Len(history) + 1] = Resumed
      /\ \A i \in 1..Len(history') : i \in 1..Len(history) \/ i = Len(history) + 1
      /\ DOMAIN history = 1..Len(history) /\ DOMAIN history' = 1..Len(history')
  BY <1>1, <1>2, OneMore
<1>4. \A r \in Requests : Resumed[2] # r /\ Resumed # <<"user", r>> /\ Resumed # <<"assistant", r>>
  BY <1>2, MessageParts
<1>5. TurnTypeOK'
  BY <1>1, <1>3 DEF TurnInv, TurnShape, TurnTypeOK, loopVars
<1>6. SaidSince'
  BY <1>1, <1>3, <1>4 DEF TurnInv, SaidSince
<1>7. LastIsOwn'
  <2> SUFFICES ASSUME NEW r \in Requests
               PROVE  /\ AskedLast(r) => AskedLast(r)'
                      /\ NeverSpoke(r) => NeverSpoke(r)'
    BY <1>1 DEF TurnInv, LastIsOwn
  <2>1. ASSUME AskedLast(r) PROVE AskedLast(r)'
    <3>1. PICK i \in 1..Len(history) : /\ history[i] = <<"user", r>>
                                       /\ \A j \in (i + 1)..Len(history) : history[j] = Resumed
      BY <2>1 DEF AskedLast
    <3>2. \A j \in (i + 1)..Len(history') : history'[j] = Resumed
      BY <1>3, <3>1
    <3> QED
      BY <1>3, <3>1, <3>2 DEF AskedLast
  <2>2. ASSUME NeverSpoke(r) PROVE NeverSpoke(r)'
    BY <1>3, <1>4, <2>2 DEF NeverSpoke
  <2> QED
    BY <2>1, <2>2
<1>8. HistoryPaired'
  <2>1. ASSUME NEW i \in DOMAIN history', NEW j \in DOMAIN history', history'[i] = history'[j]
        PROVE  i = j \/ history'[i] = Resumed
    BY <1>3, <2>1 DEF TurnInv, HistoryPaired
  <2>2. ASSUME NEW i \in DOMAIN history', NEW j \in DOMAIN history', NEW r \in Requests,
               history'[i] = <<"user", r>>, history'[j] = <<"assistant", r>>
        PROVE  i < j /\ \A k \in (i + 1)..(j - 1) : history'[k] = Resumed
    <3>1. i \in 1..Len(history) /\ j \in 1..Len(history)
      BY <1>3, <1>4, <2>2
    <3>2. i < j /\ \A k \in (i + 1)..(j - 1) : history[k] = Resumed
      BY <1>3, <2>2, <3>1 DEF TurnInv, HistoryPaired
    <3> QED
      BY <1>3, <3>1, <3>2
  <2> QED
    BY <2>1, <2>2, Pairing
<1> QED
  BY <1>1, <1>5, <1>6, <1>7, <1>8
  DEF TurnInv, TurnShape, RoundsLeft, CallsLeft, OwnerLocked, QueueWaits, Untold, AbortTold,
      AbortHasReason, loopVars

-----------------------------------------------------------------------------
(* The invariant.                                                           *)

(* Nobody has the lock and nothing is said.                                 *)
LEMMA TurnInvInit == TurnInit => TurnInv
<1> SUFFICES ASSUME TurnInit PROVE TurnInv
  OBVIOUS
<1>1. TurnTypeOK
  <2>1. stage \in [Requests -> Stages] /\ outcome \in [Requests -> Outcomes]
    BY DEF TurnInit, Stages, Outcomes
  <2>2. rounds \in [Requests -> 0..MaxToolRounds + 1] /\ calls \in [Requests -> 0..MaxCalls]
    BY TurnAssumption DEF TurnInit
  <2>3. lockQueue \in Seq(Requests) /\ history \in Seq(Messages)
    BY DEF TurnInit
  <2>4. inbox \in [Requests -> Seq({"abort", "pivot"})]
    BY DEF TurnInit
  <2>5. secondRun \in [Requests -> BOOLEAN] /\ executed \in [Requests -> BOOLEAN]
    BY DEF TurnInit
  <2>6. /\ permits \subseteq Requests /\ aborts \subseteq Requests /\ estop \in BOOLEAN
        /\ lockOwner \in Requests \cup {None} /\ steering \in Requests \cup {None}
    BY DEF TurnInit
  <2>7. steers \in 0..MaxSteers
    BY TurnAssumption DEF TurnInit
  <2> QED
    BY <2>1, <2>2, <2>3, <2>4, <2>5, <2>6, <2>7 DEF TurnTypeOK
<1>2. RoundsLeft /\ CallsLeft
  BY TurnAssumption DEF TurnInit, RoundsLeft, CallsLeft
<1>3. OwnerLocked /\ QueueWaits /\ LastIsOwn
  BY DEF TurnInit, OwnerLocked, QueueWaits, LastIsOwn, Locked, Working, Loop
<1>4. SaidSince /\ HistoryPaired
  BY DEF TurnInit, SaidSince, HistoryPaired
<1>5. Untold /\ AbortTold /\ AbortHasReason
  BY DEF TurnInit, Untold, AbortTold, AbortHasReason
<1> QED
  BY <1>1, <1>2, <1>3, <1>4, <1>5 DEF TurnInv, TurnShape

(* Every step keeps the invariant.                                          *)
LEMMA TurnInvStep == TurnInv /\ [TurnNext]_turnVars => TurnInv'
<1> SUFFICES ASSUME TurnInv, [TurnNext]_turnVars PROVE TurnInv'
  OBVIOUS
<1>1. TurnShape /\ AbortTold
  BY DEF TurnInv
<1>2. ASSUME NEW r \in Requests, stage[r] \in Working, LoopQuiet(r), UNCHANGED history PROVE TurnInv'
  <2>1. stage[r] \in Locked \ {"leave"} /\ stage[r] # "remember"
    BY <1>2 DEF Working, Locked, Loop
  <2> QED
    BY <1>2, <2>1, SilentKept
<1>3. ASSUME NEW r \in Requests,
             \/ AskModel(r) \/ ModelAnswers(r) \/ ParallelCalls(r) \/ SerialCall(r)
             \/ FollowUp(r) \/ RetryContract(r) \/ Settle(r)
      PROVE  TurnInv'
  BY <1>1, <1>2, <1>3, AskModelMove, ModelAnswersMove, ParallelCallsMove, SerialCallMove,
     FollowUpMove, RetryContractMove, SettleMove
<1>4. ASSUME NEW r \in Requests, Resolve(r) PROVE TurnInv'
  <2>1. /\ LoopQuiet(r) /\ stage[r] = "resolve"
        /\ \/ stage'[r] \in {"clarify", "remember", "leave"} /\ UNCHANGED history
           \/ stage'[r] = "clarify" /\ history' = Append(history, <<"user", r>>)
    BY <1>1, <1>4, ResolveMove
  <2>2. stage[r] \in Locked \ {"leave"} /\ stage[r] # "remember"
    BY <2>1 DEF Locked
  <2> QED
    BY <2>1, <2>2, SilentKept, UserKept
<1>5. ASSUME NEW r \in Requests, Remember(r) PROVE TurnInv'
  <2>1. /\ LoopQuiet(r) /\ stage[r] = "remember"
        /\ \/ stage'[r] = "leave" /\ UNCHANGED history
           \/ stage'[r] = "top" /\ history' = Append(history, <<"user", r>>)
    BY <1>1, <1>5, RememberMove
  <2>2. stage[r] \in Locked \ {"leave"} /\ "leave" \notin Working
    BY <2>1 DEF Locked, Working, Loop
  <2> QED
    BY <2>1, <2>2, SilentKept, UserKept
<1>6. ASSUME NEW r \in Requests, AnswerUser(r) PROVE TurnInv'
  <2>1. /\ LoopQuiet(r) /\ stage[r] = "answer" /\ stage'[r] = "leave"
        /\ UNCHANGED history \/ history' = Append(history, <<"assistant", r>>)
    BY <1>1, <1>6, AnswerUserMove
  <2>2. stage[r] \in Locked \ {"leave"} /\ stage[r] # "remember"
    BY <2>1 DEF Locked
  <2> QED
    BY <2>1, <2>2, SilentKept, AnswerKept
<1>7. ASSUME NEW r \in Requests, Clarify(r) PROVE TurnInv'
  <2>1. /\ LoopQuiet(r) /\ stage[r] = "clarify" /\ stage'[r] = "leave"
        /\ UNCHANGED history \/ history' = Append(history, <<"assistant", r>>)
    BY <1>1, <1>7, ClarifyMove
  <2>2. stage[r] \in Locked \ {"leave"} /\ stage[r] # "remember"
    BY <2>1 DEF Locked
  <2> QED
    BY <2>1, <2>2, SilentKept, AnswerKept
<1>8. ASSUME UNCHANGED turnVars PROVE TurnInv'
  BY <1>8, SaidSame
  DEF turnVars, TurnInv, TurnShape, TurnTypeOK, RoundsLeft, CallsLeft, OwnerLocked, QueueWaits,
      Untold, AbortTold, AbortHasReason
<1> QED
  BY <1>3, <1>4, <1>5, <1>6, <1>7, <1>8, RegisterKept, AdmitKept, LockSessionKept,
     LeaveKept, SteerKept, EstopKept, ResumeKept
  DEF TurnNext, TurnStep

(* The invariant holds in every reachable state.                            *)
LEMMA TurnInvHolds == TurnSpec => []TurnInv
  BY TurnInvInit, TurnInvStep, PTL DEF TurnSpec

(* Every variable of a turn keeps its type: the rounds end at their bound   *)
(* and the calls of a round are counted down to none.                       *)
THEOREM TurnTypes == TurnSpec => []TurnTypeOK
<1>1. TurnInv => TurnTypeOK
  BY DEF TurnInv, TurnShape
<1> QED
  BY <1>1, TurnInvHolds, PTL

(* Between a message and its answer stands nothing but what was told of     *)
(* approved tools, without the lock, and nothing is said twice, however     *)
(* many requests of the session overlap.                                    *)
THEOREM TurnsPaired == TurnSpec => []HistoryPaired
<1>1. TurnInv => HistoryPaired
  BY DEF TurnInv
<1> QED
  BY <1>1, TurnInvHolds, PTL

(* A request is aborted because it was told to, by the emergency stop, or   *)
(* when a later request of the chat took its channel.                       *)
THEOREM AbortsHaveReason == TurnSpec => []AbortHasReason
<1>1. TurnInv => AbortHasReason
  BY DEF TurnInv
<1> QED
  BY <1>1, TurnInvHolds, PTL

(* One request at a time works on the session, from the moment it has the   *)
(* lock until it leaves.                                                    *)
THEOREM OneTurnAtATime ==
  TurnSpec => [](\A q, r \in Requests : stage[q] \in Locked /\ stage[r] \in Locked => q = r)
<1>1. TurnInv => \A q, r \in Requests : stage[q] \in Locked /\ stage[r] \in Locked => q = r
  BY DEF TurnInv, OwnerLocked
<1> QED
  BY <1>1, TurnInvHolds, PTL

-----------------------------------------------------------------------------
(* The guards of the requests.                                              *)

(* What a step under the lock, but the last, says.                          *)
Says(r) ==
  \/ UNCHANGED history
  \/ stage[r] \in {"resolve", "remember"} /\ history' = Append(history, <<"user", r>>)
  \/ stage[r] \in {"clarify", "answer"} /\ history' = Append(history, <<"assistant", r>>)

LockedStep(r) ==
  \/ Resolve(r) \/ Clarify(r) \/ Remember(r) \/ AskModel(r) \/ ModelAnswers(r)
  \/ ParallelCalls(r) \/ SerialCall(r) \/ FollowUp(r) \/ RetryContract(r) \/ Settle(r)
  \/ AnswerUser(r)

(* All steps between the lock and the leave are alike.                      *)
LEMMA UnderTheLock ==
  ASSUME TurnInv, NEW r \in Requests, LockedStep(r)
  PROVE  /\ LoopQuiet(r) /\ Says(r)
         /\ stage[r] \in Locked \ {"leave"} /\ stage'[r] \in Locked
<1>1. TurnShape /\ AbortTold
  BY DEF TurnInv
<1>2. CASE \/ AskModel(r) \/ ModelAnswers(r) \/ ParallelCalls(r) \/ SerialCall(r)
           \/ FollowUp(r) \/ RetryContract(r) \/ Settle(r)
  <2>1. LoopQuiet(r) /\ UNCHANGED history /\ stage[r] \in Working
    BY <1>1, <1>2, AskModelMove, ModelAnswersMove, ParallelCallsMove, SerialCallMove,
       FollowUpMove, RetryContractMove, SettleMove
  <2> QED BY <2>1 DEF Says, Working, Locked, Loop, LoopQuiet, LoopMove
<1>3. CASE Resolve(r)
  BY <1>1, <1>3, ResolveMove DEF Says, Working, Locked, Loop
<1>4. CASE Remember(r)
  BY <1>1, <1>4, RememberMove DEF Says, Working, Locked, Loop
<1>5. CASE AnswerUser(r)
  BY <1>1, <1>5, AnswerUserMove DEF Says, Working, Locked, Loop
<1>6. CASE Clarify(r)
  BY <1>1, <1>6, ClarifyMove DEF Says, Working, Locked, Loop
<1> QED BY <1>2, <1>3, <1>4, <1>5, <1>6 DEF LockedStep

(* A turn holds a permit.                                                   *)
Inside(st) == st \in {"screen", "lock", "waiting"} \cup Locked

(* The guards of the others are theirs, whatever one request does.          *)
LEMMA GuardsKept ==
  ASSUME TurnInv, GuardsFit, [TurnNext]_turnVars
  PROVE  GuardsFit'
<1> USE DEF Inside
<1>0. /\ stage \in [Requests -> Stages] /\ lockQueue \in Seq(Requests)
      /\ lockOwner \in Requests \cup {None} /\ permits \subseteq Requests
  BY DEF TurnInv, TurnShape, TurnTypeOK
<1>1. ASSUME NEW r \in Requests, Register(r) \/ Admit(r) \/ Screen(r)
      PROVE  GuardsFit'
  <2>1. /\ stage[r] \in {"idle", "admit", "screen"}
        /\ \A q \in Requests \ {r} : stage'[q] = stage[q]
        /\ UNCHANGED <<lockOwner, lockQueue>>
    BY <1>0, <1>1 DEF Register, Admit, Screen, Proceed, gateVars
  <2>2. \/ permits' = permits /\ ~ Inside(stage[r]) /\ ~ Inside(stage'[r])
        \/ permits' = permits \cup {r} /\ Inside(stage'[r])
        \/ permits' = permits \ {r} /\ ~ Inside(stage'[r])
        \/ permits' = permits /\ Inside(stage[r]) /\ Inside(stage'[r])
    BY <1>0, <1>1 DEF Register, Admit, Screen, Proceed, gateVars, Locked, Loop
  <2>3. stage'[r] \notin Locked \cup {"waiting"} /\ stage[r] \notin Locked \cup {"waiting"}
    BY <1>0, <1>1 DEF Register, Admit, Screen, Proceed, Locked, Loop
  <2>4. permits' = {q \in Requests : Inside(stage'[q])}
    BY <1>0, <2>1, <2>2 DEF GuardsFit
  <2> QED BY <1>0, <2>1, <2>3, <2>4, TurnAssumption DEF GuardsFit
<1>2. ASSUME NEW r \in Requests, LockedStep(r)
      PROVE  GuardsFit'
  <2>1. /\ stage[r] \in Locked /\ stage'[r] \in Locked
        /\ \A q \in Requests \ {r} : stage'[q] = stage[q]
        /\ UNCHANGED <<permits, lockOwner, lockQueue>>
    BY <1>2, UnderTheLock DEF LoopQuiet, LoopMove, OthersStay
  <2>2. stage'[r] # "waiting"
    BY <2>1 DEF Locked, Loop
  <2>3. permits' = {q \in Requests : Inside(stage'[q])}
    BY <2>1 DEF GuardsFit
  <2> QED BY <1>0, <2>1, <2>2, <2>3 DEF GuardsFit
<1>3. ASSUME NEW r \in Requests, LockSession(r)
      PROVE  GuardsFit'
  <2>1. stage[r] = "lock" /\ permits' = permits /\ TakeLock(r)
    BY <1>3 DEF LockSession
  <2>2. CASE lockOwner = None
    <3>1. /\ lockOwner' = r /\ stage' = [stage EXCEPT ![r] = "resolve"] /\ lockQueue' = lockQueue
      BY <2>1, <2>2 DEF TakeLock
    <3>2. permits' = {q \in Requests : Inside(stage'[q])}
      BY <1>0, <2>1, <3>1 DEF GuardsFit, Locked
    <3> QED BY <1>0, <3>1, <3>2, TurnAssumption DEF GuardsFit, Locked
  <2>3. CASE lockOwner # None
    <3>1. /\ lockOwner' = lockOwner /\ stage' = [stage EXCEPT ![r] = "waiting"]
          /\ lockQueue' = Append(lockQueue, r)
      BY <2>1, <2>3 DEF TakeLock
    <3>2. permits' = {q \in Requests : Inside(stage'[q])}
      BY <1>0, <2>1, <3>1 DEF GuardsFit
    <3>3. stage'[lockOwner] \in Locked
      BY <1>0, <2>1, <2>3, <3>1 DEF GuardsFit, Locked, Loop
    <3>4. /\ Len(lockQueue) \in Nat /\ Len(lockQueue') = Len(lockQueue) + 1
          /\ lockQueue'[Len(lockQueue) + 1] = r
          /\ \A i \in 1..Len(lockQueue) : lockQueue'[i] = lockQueue[i]
      BY <1>0, <3>1
    <3>5. ASSUME NEW q \in Requests, stage'[q] = "waiting"
          PROVE  \E i \in 1..Len(lockQueue') : lockQueue'[i] = q
      <4>1. CASE q = r
        <5>1. Len(lockQueue) + 1 \in 1..Len(lockQueue')
          BY <3>4
        <5> QED BY <3>4, <4>1, <5>1
      <4>2. CASE q # r
        <5>1. stage[q] = "waiting"
          BY <1>0, <3>1, <3>5, <4>2
        <5>2. PICK i \in 1..Len(lockQueue) : lockQueue[i] = q
          BY <5>1 DEF GuardsFit
        <5>3. i \in 1..Len(lockQueue')
          BY <3>4
        <5> QED BY <3>4, <5>2, <5>3
      <4> QED BY <4>1, <4>2
    <3> QED BY <2>3, <3>1, <3>2, <3>3, <3>5 DEF GuardsFit
  <2> QED BY <2>2, <2>3
<1>4. ASSUME NEW r \in Requests, Leave(r)
      PROVE  GuardsFit'
  <2>1. stage[r] = "leave" /\ permits' = permits \ {r}
    BY <1>4 DEF Leave
  <2>2. CASE lockQueue = <<>>
    <3>1. lockOwner' = None /\ stage' = [stage EXCEPT ![r] = "done"] /\ lockQueue' = lockQueue
      BY <1>4, <2>2 DEF Leave
    <3>2. permits' = {q \in Requests : Inside(stage'[q])}
      BY <1>0, <2>1, <3>1 DEF GuardsFit, Locked, Loop
    <3>3. \A q \in Requests : stage[q] # "waiting"
      BY <2>2 DEF GuardsFit
    <3> QED BY <1>0, <2>2, <3>1, <3>2, <3>3 DEF GuardsFit
  <2>3. CASE lockQueue # <<>>
    <3>1. PICK h \in Requests : h = Head(lockQueue) /\ h = lockQueue[1]
      BY <1>0, <2>3
    <3>2. /\ lockOwner' = h /\ lockQueue' = Tail(lockQueue)
          /\ stage' = [stage EXCEPT ![r] = "done", ![h] = "resolve"]
      BY <1>4, <2>3, <3>1 DEF Leave
    <3>3. /\ Len(lockQueue) \in Nat \ {0} /\ 1 \in 1..Len(lockQueue)
          /\ Len(lockQueue') = Len(lockQueue) - 1
          /\ \A i \in 1..Len(lockQueue') : lockQueue'[i] = lockQueue[i + 1]
      BY <1>0, <2>3, <3>2
    <3>4. stage[h] = "waiting" /\ h # r
      BY <2>1, <3>1, <3>3 DEF TurnInv, QueueWaits
    <3>5. /\ stage'[h] = "resolve" /\ stage'[r] = "done"
          /\ \A q \in Requests \ {r, h} : stage'[q] = stage[q]
      BY <1>0, <3>2, <3>4
    <3>6. permits' = {q \in Requests : Inside(stage'[q])}
      BY <2>1, <3>4, <3>5 DEF GuardsFit, Locked, Loop
    <3>7. ASSUME NEW q \in Requests, stage'[q] = "waiting"
          PROVE  \E i \in 1..Len(lockQueue') : lockQueue'[i] = q
      <4>1. q # h /\ stage[q] = "waiting"
        BY <3>5, <3>7
      <4>2. PICK i \in 1..Len(lockQueue) : lockQueue[i] = q
        BY <4>1 DEF GuardsFit
      <4>3. i # 1
        BY <3>1, <4>1, <4>2
      <4>4. i - 1 \in 1..Len(lockQueue') /\ (i - 1) + 1 = i
        BY <3>3, <4>3
      <4> QED BY <3>3, <4>2, <4>4
    <3> QED BY <3>2, <3>5, <3>6, <3>7, TurnAssumption DEF GuardsFit, Locked
  <2> QED BY <2>2, <2>3
<1>5. ASSUME UNCHANGED <<stage, permits, lockOwner, lockQueue>>
      PROVE  GuardsFit'
  BY <1>5 DEF GuardsFit
<1> QED
  BY <1>1, <1>2, <1>3, <1>4, <1>5
  DEF TurnNext, TurnStep, LockedStep, Steer, PullEstop, ResumeApproved, gateVars, turnVars

(* The guards fit the stages in every reachable state.                      *)
LEMMA GuardsHold == TurnSpec => [](TurnInv /\ GuardsFit)
<1>1. TurnInit => GuardsFit
  BY TurnAssumption DEF TurnInit, GuardsFit, Locked, Loop
<1>2. TurnInv /\ GuardsFit /\ [TurnNext]_turnVars => TurnInv' /\ GuardsFit'
  BY GuardsKept, TurnInvStep
<1> QED BY <1>1, <1>2, TurnInvInit, PTL DEF TurnSpec

(* No request keeps a permit or the lock beyond its end, and nobody waits   *)
(* for a lock that nobody has.                                              *)
THEOREM GuardsFitAlways == TurnSpec => []GuardsFit
BY GuardsHold, PTL

-----------------------------------------------------------------------------
(* The requests of a session are a conversation.                            *)

Gone == {r \in Requests : stage[r] = "done"}

(* Under the lock a request has the floor.                                  *)
LEMMA SpeaksInTurn ==
  ASSUME TurnInv, NEW r \in Requests, LockedStep(r)
  PROVE  Talk!Speak(r) \/ UNCHANGED <<lockOwner, history, Gone>>
<1>1. /\ LoopQuiet(r) /\ Says(r)
      /\ stage[r] \in Locked \ {"leave"} /\ stage'[r] \in Locked
  BY UnderTheLock
<1>2. lockOwner = r /\ lockOwner' = lockOwner
  BY <1>1 DEF TurnInv, OwnerLocked, LoopQuiet
<1>3. Gone' = Gone
  <2>1. stage[r] # "done" /\ stage'[r] # "done"
    BY <1>1 DEF Locked, Loop
  <2> QED BY <1>1, <2>1 DEF Gone, LoopQuiet, LoopMove, OthersStay
<1>4. ASSUME stage[r] \in {"resolve", "remember"} PROVE Talk!NeverSpoke(r)
  BY <1>1, <1>4, SaidBefore DEF NeverSpoke, Talk!NeverSpoke, Working, Loop
<1>5. ASSUME stage[r] \in {"clarify", "answer"} PROVE Talk!NeverSpoke(r) \/ Talk!AskedLast(r)
  BY <1>5 DEF TurnInv, LastIsOwn, Working, NeverSpoke, AskedLast, Talk!NeverSpoke, Talk!AskedLast,
              Talk!Aside, Resumed
<1>6. CASE stage[r] \in {"resolve", "remember"} /\ history' = Append(history, <<"user", r>>)
  BY <1>2, <1>3, <1>4, <1>6 DEF Talk!Speak, Talk!Says, Gone
<1>7. CASE stage[r] \in {"clarify", "answer"} /\ history' = Append(history, <<"assistant", r>>)
  BY <1>2, <1>3, <1>5, <1>7 DEF Talk!Speak, Talk!Says, Gone
<1> QED BY <1>1, <1>2, <1>3, <1>6, <1>7 DEF Says

(* Every step is a step of the conversation or none.                        *)
LEMMA StepOfTalk ==
  ASSUME TurnInv, GuardsFit, [TurnNext]_turnVars
  PROVE  Talk!Next \/ UNCHANGED <<lockOwner, history, Gone>>
<1>0. /\ stage \in [Requests -> Stages] /\ lockQueue \in Seq(Requests)
      /\ lockOwner \in Requests \cup {None}
  BY DEF TurnInv, TurnShape, TurnTypeOK
<1>1. Talk!Waiting = Requests \ (Gone \cup {lockOwner})
  BY DEF Talk!Waiting, Gone
<1>2. ASSUME NEW r \in Requests, Register(r) \/ Admit(r) \/ Screen(r)
      PROVE  Talk!TurnAway(r) \/ UNCHANGED <<lockOwner, history, Gone>>
  <2>1. /\ stage[r] \in {"idle", "admit", "screen"}
        /\ \A q \in Requests \ {r} : stage'[q] = stage[q]
        /\ UNCHANGED <<lockOwner, history>>
    BY <1>0, <1>2 DEF Register, Admit, Screen, Proceed, gateVars
  <2>2. lockOwner # r
    BY <2>1, TurnAssumption DEF GuardsFit, Locked, Loop
  <2>3. r \in Talk!Waiting
    BY <1>1, <2>1, <2>2 DEF Gone
  <2>4. CASE stage'[r] = "done"
    <3>1. Gone' = Gone \cup {r}
      BY <2>1, <2>4 DEF Gone
    <3> QED BY <2>1, <2>3, <3>1 DEF Talk!TurnAway, Gone
  <2>5. CASE stage'[r] # "done"
    <3>1. Gone' = Gone
      BY <2>1, <2>5 DEF Gone
    <3> QED BY <2>1, <3>1
  <2> QED BY <2>4, <2>5
<1>3. ASSUME NEW r \in Requests, LockSession(r)
      PROVE  Talk!Enter(r) \/ UNCHANGED <<lockOwner, history, Gone>>
  <2>1. stage[r] = "lock" /\ UNCHANGED history
    BY <1>3 DEF LockSession
  <2>2. stage' \in {[stage EXCEPT ![r] = "resolve"], [stage EXCEPT ![r] = "waiting"]}
    BY <1>3 DEF LockSession, TakeLock
  <2>3. Gone' = Gone
    BY <1>0, <2>1, <2>2 DEF Gone
  <2>4. CASE lockOwner = None
    <3>1. lockOwner' = r
      BY <1>3, <2>4 DEF LockSession, TakeLock
    <3>2. r \in Talk!Waiting
      BY <1>1, <2>1, <2>4, TurnAssumption DEF Gone
    <3> QED BY <2>1, <2>3, <2>4, <3>1, <3>2 DEF Talk!Enter, Gone
  <2>5. CASE lockOwner # None
    BY <1>3, <2>1, <2>3, <2>5 DEF LockSession, TakeLock
  <2> QED BY <2>4, <2>5
<1>4. ASSUME NEW r \in Requests, Leave(r)
      PROVE  Talk!GiveUp(r)
  <2>1. stage[r] = "leave" /\ UNCHANGED history
    BY <1>4 DEF Leave
  <2>2. lockOwner = r
    BY <2>1 DEF TurnInv, OwnerLocked, Locked
  <2>3. CASE lockQueue = <<>>
    <3>1. lockOwner' = None /\ stage' = [stage EXCEPT ![r] = "done"]
      BY <1>4, <2>3 DEF Leave
    <3>2. Gone' = Gone \cup {r}
      BY <1>0, <3>1 DEF Gone
    <3> QED BY <2>1, <2>2, <3>1, <3>2 DEF Talk!GiveUp, Gone
  <2>4. CASE lockQueue # <<>>
    <3>1. PICK h \in Requests : h = Head(lockQueue) /\ h = lockQueue[1]
      BY <1>0, <2>4
    <3>2. /\ lockOwner' = h /\ stage' = [stage EXCEPT ![r] = "done", ![h] = "resolve"]
      BY <1>4, <2>4, <3>1 DEF Leave
    <3>3. stage[h] = "waiting" /\ h # r
      <4>1. 1 \in 1..Len(lockQueue)
        BY <1>0, <2>4
      <4> QED BY <2>1, <3>1, <4>1 DEF TurnInv, QueueWaits
    <3>4. Gone' = Gone \cup {r}
      BY <1>0, <3>2, <3>3 DEF Gone
    <3>5. h \in Talk!Waiting
      BY <1>1, <2>2, <3>3 DEF Gone
    <3> QED BY <2>1, <2>2, <3>2, <3>4, <3>5 DEF Talk!GiveUp, Gone
  <2> QED BY <2>3, <2>4
<1>5. ASSUME ResumeApproved
      PROVE  Talk!Interject
  BY <1>5 DEF ResumeApproved, gateVars, Talk!Interject, Talk!Says, Talk!Aside, Resumed, Gone
<1>6. ASSUME UNCHANGED <<stage, lockOwner, history>>
      PROVE  UNCHANGED <<lockOwner, history, Gone>>
  BY <1>6 DEF Gone
<1> QED
  BY <1>2, <1>3, <1>4, <1>5, <1>6, SpeaksInTurn
  DEF TurnNext, TurnStep, LockedStep, Steer, PullEstop, gateVars, turnVars, Talk!Next

(* SessionTurn implements Conversation: for any number of requests that     *)
(* overlap, wait, fail, are stopped or run twice, one speaks at a time, and *)
(* only what is told of approved tools comes in between.                    *)
THEOREM TurnsConverse == TurnSpec => IsConversation
<1>1. TurnInit => Talk!Init
  BY DEF TurnInit, Talk!Init
<1>2. TurnInv /\ GuardsFit /\ [TurnNext]_turnVars => [Talk!Next]_(Talk!vars)
  BY StepOfTalk DEF Talk!vars, Gone
<1> QED BY <1>1, <1>2, GuardsHold, PTL DEF TurnSpec, IsConversation, Talk!Spec
=============================================================================
