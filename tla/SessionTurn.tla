---------------------------- MODULE SessionTurn ----------------------------
(***************************************************************************)
(* The requests of one chat session: the steering channel a Telegram worker *)
(* registers before it calls process_request, the admission permit, the     *)
(* lock of the session, the tool loop of the orchestrator with its rounds,  *)
(* its parallel and serial tool calls and its points of interruption, the   *)
(* second run a contract may ask for, the repaired call, and the messages   *)
(* the request leaves in the history of the session.                        *)
(***************************************************************************)
EXTENDS Absence, Naturals, FiniteSets, Sequences

CONSTANTS
  Requests,
  Contracted,    (* requests whose execution contract wants an artifact       *)
  MaxToolRounds,
  MaxCalls,      (* bound: tool calls of one answer of the model              *)
  SteerCap,      (* capacity of a steering channel: 4                         *)
  MaxSteers,     (* bound: commands of the user                               *)
  MaxResumes     (* bound: approved tools whose result is told to the session *)

ASSUME TurnAssumption ==
  /\ None \notin Requests /\ Contracted \subseteq Requests
  /\ SteerCap \in Nat \ {0} /\ MaxCalls \in Nat \ {0}
  /\ MaxToolRounds \in Nat /\ MaxSteers \in Nat /\ MaxResumes \in Nat

VARIABLES
  stage,         (* where process_request is                                  *)
  permits,       (* requests that hold an admission permit                    *)
  lockOwner,     (* the session's mutex                                       *)
  lockQueue,     (* and those that wait for it, first come first              *)
  steering,      (* session_steering_tx: whose channel the map holds          *)
  inbox,         (* the commands in the channel of a request                  *)
  secondRun,     (* the contract's retry, which has no steering channel       *)
  rounds,
  calls,         (* tool calls still to be made in this round                 *)
  executed,      (* some tool was executed: RecordingToolExecutor             *)
  outcome,       (* what the loop, and then the request, returned             *)
  history,       (* the messages appended to the session memory, in order     *)
  estop,         (* global_estop                                              *)
  aborts,        (* auxiliary: requests an Abort was sent to                  *)
  steers

turnVars == <<stage, permits, lockOwner, lockQueue, steering, inbox, secondRun, rounds, calls,
              executed, outcome, history, estop, aborts, steers>>
gateVars == <<permits, lockOwner, lockQueue>>
channelVars == <<steering, inbox, estop, aborts, steers>>
loopVars == <<secondRun, rounds, calls, executed>>

(* Queried, tools and follow are the awaits of the tool loop.               *)
Loop == {"top", "queried", "tools", "follow"}
Locked == {"resolve", "clarify", "remember", "settle", "answer", "leave"} \cup Loop
Stages == {"idle", "admit", "screen", "lock", "waiting", "done"} \cup Locked
Outcomes == {"none", "completed", "approval", "elevation", "aborted", "error"}

(* The result of a tool that was approved is told in the role of the user,  *)
(* and is no request.                                                       *)
Resumed == <<"user", None>>
Messages == ({"user", "assistant"} \X Requests) \cup {Resumed}

TurnTypeOK ==
  /\ stage \in [Requests -> Stages]
  /\ permits \subseteq Requests
  /\ lockOwner \in Requests \cup {None}
  /\ lockQueue \in Seq(Requests)
  /\ steering \in Requests \cup {None}
  /\ inbox \in [Requests -> Seq({"abort", "pivot"})]
  /\ secondRun \in [Requests -> BOOLEAN]
  /\ rounds \in [Requests -> 0..MaxToolRounds + 1]
  /\ calls \in [Requests -> 0..MaxCalls]
  /\ executed \in [Requests -> BOOLEAN]
  /\ outcome \in [Requests -> Outcomes]
  /\ history \in Seq(Messages)
  /\ estop \in BOOLEAN
  /\ aborts \subseteq Requests
  /\ steers \in 0..MaxSteers

TurnInit ==
  /\ stage = [r \in Requests |-> "idle"]
  /\ permits = {}
  /\ lockOwner = None
  /\ lockQueue = <<>>
  /\ steering = None
  /\ inbox = [r \in Requests |-> <<>>]
  /\ secondRun = [r \in Requests |-> FALSE]
  /\ rounds = [r \in Requests |-> 0]
  /\ calls = [r \in Requests |-> 0]
  /\ executed = [r \in Requests |-> FALSE]
  /\ outcome = [r \in Requests |-> "none"]
  /\ history = <<>>
  /\ estop = FALSE
  /\ aborts = {}
  /\ steers = 0

-----------------------------------------------------------------------------
Proceed(r, from, to) == stage[r] = from /\ stage' = [stage EXCEPT ![r] = to]
Return(r, o) == outcome' = [outcome EXCEPT ![r] = o]

(* The worker puts a new channel in the map.  The sender that was there is  *)
(* dropped: the channel of an earlier request is closed.                    *)
Register(r) ==
  /\ Proceed(r, "idle", "admit")
  /\ steering' = r
  /\ UNCHANGED <<gateVars, inbox, loopVars, outcome, history, estop, aborts, steers>>

(* try_acquire_owned: an error at once when the requests of this chat and   *)
(* of the others hold all permits.                                          *)
Admit(r) ==
  /\ \/ /\ Proceed(r, "admit", "screen")
        /\ permits' = permits \cup {r}
        /\ UNCHANGED outcome
     \/ /\ Proceed(r, "admit", "done")
        /\ Return(r, "error")
        /\ UNCHANGED permits
  /\ UNCHANGED <<lockOwner, lockQueue, channelVars, loopVars, history>>

(* The hook and the firewall.                                               *)
Screen(r) ==
  /\ \/ Proceed(r, "screen", "lock") /\ UNCHANGED <<permits, outcome>>
     \/ /\ Proceed(r, "screen", "done")
        /\ Return(r, "error")
        /\ permits' = permits \ {r}
  /\ UNCHANGED <<lockOwner, lockQueue, channelVars, loopVars, history>>

(* Mutant: the request goes on without the lock when another one has it.    *)
LockNotWaited(r) ==
  /\ lockOwner' = r
  /\ stage' = [stage EXCEPT ![r] = "resolve"]
  /\ UNCHANGED lockQueue

TakeLock(r) ==
  IF lockOwner = None
  THEN /\ lockOwner' = r
       /\ stage' = [stage EXCEPT ![r] = "resolve"]
       /\ UNCHANGED lockQueue
  ELSE /\ lockQueue' = Append(lockQueue, r)
       /\ stage' = [stage EXCEPT ![r] = "waiting"]
       /\ UNCHANGED lockOwner

LockSession(r) ==
  /\ stage[r] = "lock"
  /\ TakeLock(r)
  /\ UNCHANGED <<permits, channelVars, loopVars, outcome, history>>

(* Mutant: the lock is free again, and who waits for it is not woken.       *)
LeaveAsleep(r) ==
  /\ stage[r] = "leave"
  /\ permits' = permits \ {r}
  /\ lockOwner' = None
  /\ stage' = [stage EXCEPT ![r] = "done"]
  /\ UNCHANGED <<lockQueue, channelVars, loopVars, outcome, history>>

(* All guards are dropped: the permit, the lock (it goes to the next one).  *)
Leave(r) ==
  /\ stage[r] = "leave"
  /\ permits' = permits \ {r}
  /\ IF lockQueue = <<>>
     THEN /\ lockOwner' = None
          /\ stage' = [stage EXCEPT ![r] = "done"]
          /\ UNCHANGED lockQueue
     ELSE /\ lockOwner' = Head(lockQueue)
          /\ lockQueue' = Tail(lockQueue)
          /\ stage' = [stage EXCEPT ![r] = "done", ![Head(lockQueue)] = "resolve"]
  /\ UNCHANGED <<channelVars, loopVars, outcome, history>>

-----------------------------------------------------------------------------
(* Under the lock.                                                          *)

(* The agent is found, or is not and the user is asked which one was meant  *)
(* (the request is kept, unless the append fails: nobody looks), or needs   *)
(* an elevation; the quotas may be busy; the model may be unfit for the     *)
(* contract, which is said and not kept.                                    *)
Resolve(r) ==
  /\ \/ Proceed(r, "resolve", "remember") /\ UNCHANGED <<outcome, history>>
     \/ /\ Proceed(r, "resolve", "clarify")
        /\ Return(r, "completed")
        /\ history' \in {history, Append(history, <<"user", r>>)}
     \/ /\ Proceed(r, "resolve", "leave")
        /\ \/ \E o \in {"elevation", "error"} : Return(r, o)
           \/ r \in Contracted /\ Return(r, "completed")
        /\ UNCHANGED history
  /\ UNCHANGED <<gateVars, channelVars, loopVars>>

(* The question to the user is kept after the request, or is lost as well.  *)
Clarify(r) ==
  /\ Proceed(r, "clarify", "leave")
  /\ history' \in {history, Append(history, <<"assistant", r>>)}
  /\ UNCHANGED <<gateVars, channelVars, loopVars, outcome>>

(* The tool cache, the history (and its compaction), the context; then the  *)
(* message of the user is kept, or the append fails.                        *)
Remember(r) ==
  /\ \/ /\ Proceed(r, "remember", "top")
        /\ history' = Append(history, <<"user", r>>)
        /\ UNCHANGED outcome
     \/ /\ Proceed(r, "remember", "leave")
        /\ Return(r, "error")
        /\ UNCHANGED history
  /\ UNCHANGED <<gateVars, channelVars, loopVars>>

-----------------------------------------------------------------------------
(* The tool loop.                                                           *)

Steerable(r) == ~ secondRun[r]

(* Mutant: a channel that is empty is taken for one that is closed.         *)
ClosedWhenEmpty(r) == inbox[r] = <<>>

Closed(r) == steering # r /\ inbox[r] = <<>>

(* What the loop returns goes to the rest of process_request; an error is   *)
(* returned at once.                                                        *)
LoopEnds(r, o) ==
  /\ stage' = [stage EXCEPT ![r] = IF o \in {"error", "aborted"} THEN "leave" ELSE "settle"]
  /\ Return(r, o)
  /\ calls' = [calls EXCEPT ![r] = 0]

LoopGoes(r, to) ==
  /\ stage' = [stage EXCEPT ![r] = to]
  /\ UNCHANGED outcome

TakeCommand(r) == inbox' = [inbox EXCEPT ![r] = Tail(@)]

(* The head of the loop: the emergency stop and a command of the user are   *)
(* looked at, then the model is asked.                                      *)
AskModel(r) ==
  LET command == IF Steerable(r) /\ inbox[r] # <<>> THEN Head(inbox[r]) ELSE "none" IN
  /\ stage[r] = "top"
  /\ IF ~ estop /\ command # "none" THEN TakeCommand(r) ELSE UNCHANGED inbox
  /\ IF estop \/ command = "abort"
     THEN LoopEnds(r, "aborted")
     ELSE LoopGoes(r, "queried") /\ UNCHANGED calls
  /\ UNCHANGED <<gateVars, steering, estop, aborts, steers, secondRun, rounds, executed, history>>

(* Mutant: the round is not counted.                                        *)
NoRound(r) == UNCHANGED rounds

(* advance_round, and the same by hand where a text is answered.            *)
NextRound(r) == rounds' = [rounds EXCEPT ![r] = @ + 1]

LastRound(r) == rounds[r] >= MaxToolRounds

(* process_dynamic_tool_calls up to the calls: none ends the request (with  *)
(* an empty text, as a Pivot among the calls does), the rounds may be used  *)
(* up, run_shell and write_file wait for an approval, a middleware or the   *)
(* search of the registry may fail, a round of nothing but searches goes on *)
(* to the next one.                                                         *)
StartCalls(r) ==
  \/ estop /\ LoopEnds(r, "aborted") /\ UNCHANGED rounds
  \/ ~ estop /\ LoopEnds(r, "completed") /\ UNCHANGED rounds
  \/ ~ estop /\ LastRound(r) /\ LoopEnds(r, "error") /\ NextRound(r)
  \/ /\ ~ estop /\ ~ LastRound(r)
     /\ NextRound(r)
     /\ \/ \E o \in {"approval", "error"} : LoopEnds(r, o)
        \/ LoopGoes(r, "top") /\ UNCHANGED calls
        \/ \E n \in 1..MaxCalls : LoopGoes(r, "tools") /\ calls' = [calls EXCEPT ![r] = n]

(* The answer of the model: a failure, a text that is the answer, a text    *)
(* that must be corrected in another round, or tool calls.                  *)
ModelAnswers(r) ==
  /\ stage[r] = "queried"
  /\ \/ \E o \in {"error", "completed"} : LoopEnds(r, o) /\ UNCHANGED rounds
     \/ /\ NextRound(r)
        /\ IF LastRound(r) THEN LoopEnds(r, "error") ELSE LoopGoes(r, "top") /\ UNCHANGED calls
     \/ StartCalls(r)
  /\ UNCHANGED <<gateVars, channelVars, secondRun, executed, history>>

(* A call that failed is not recorded.                                      *)
Executed(r) == executed' \in {executed, [executed EXCEPT ![r] = TRUE]}

(* execute_tool_calls, all calls at once: the results of all of them, or a  *)
(* command that comes first, or the end of the channel.                     *)
ParallelCalls(r) ==
  /\ stage[r] = "tools"
  /\ \/ /\ Executed(r)
        /\ LoopGoes(r, "follow")
        /\ calls' = [calls EXCEPT ![r] = 0]
        /\ UNCHANGED inbox
     \/ /\ Steerable(r) /\ inbox[r] # <<>>
        /\ TakeCommand(r)
        /\ LoopEnds(r, IF Head(inbox[r]) = "abort" THEN "aborted" ELSE "completed")
        /\ Executed(r)
     \/ /\ Steerable(r) /\ Closed(r)
        /\ LoopEnds(r, "aborted")
        /\ Executed(r)
        /\ UNCHANGED inbox
  /\ UNCHANGED <<gateVars, steering, estop, aborts, steers, secondRun, rounds, history>>

(* One after the other: a command is looked for before each of them.        *)
SerialCall(r) ==
  /\ stage[r] = "tools"
  /\ IF Steerable(r) /\ inbox[r] # <<>>
     THEN /\ TakeCommand(r)
          /\ LoopEnds(r, IF Head(inbox[r]) = "abort" THEN "aborted" ELSE "completed")
          /\ UNCHANGED executed
     ELSE /\ Executed(r)
          /\ calls' = [calls EXCEPT ![r] = @ - 1]
          /\ LoopGoes(r, IF calls[r] = 1 THEN "follow" ELSE "tools")
          /\ UNCHANGED inbox
  /\ UNCHANGED <<gateVars, steering, estop, aborts, steers, secondRun, rounds, history>>

(* The results: one may ask for an approval or be fatal, the tools of the   *)
(* scheduler end the request; else the model is asked again, with them.     *)
FollowUp(r) ==
  /\ stage[r] = "follow"
  /\ \/ \E o \in {"approval", "error", "completed"} : LoopEnds(r, o) /\ UNCHANGED rounds
     \/ LoopGoes(r, "top") /\ UNCHANGED <<calls, rounds>>
     \/ StartCalls(r)
  /\ UNCHANGED <<gateVars, channelVars, secondRun, executed, history>>

-----------------------------------------------------------------------------
(* The rest of process_request.                                             *)

(* A contract that wants an artifact, no tool executed, a text returned:    *)
(* the loop is run once more with the rounds from zero and without the      *)
(* channel.                                                                 *)
RunAgain(r) ==
  /\ r \in Contracted /\ ~ secondRun[r] /\ ~ executed[r]
  /\ outcome[r] = "completed"

RetryContract(r) ==
  /\ RunAgain(r)
  /\ Proceed(r, "settle", "top")
  /\ secondRun' = [secondRun EXCEPT ![r] = TRUE]
  /\ rounds' = [rounds EXCEPT ![r] = 0]
  /\ UNCHANGED <<gateVars, channelVars, calls, executed, outcome, history>>

(* A text in which a tool call is found is repaired: the tool is executed,  *)
(* fails or waits for an approval, and a text about it is the answer.  The  *)
(* contract and a leaked payload change the text only; the firewall may     *)
(* refuse it.                                                               *)
Settle(r) ==
  /\ stage[r] = "settle" /\ ~ RunAgain(r)
  /\ \/ stage' = [stage EXCEPT ![r] = "answer"] /\ UNCHANGED <<executed, outcome>>
     \/ /\ outcome[r] = "completed" /\ ~ executed[r]
        /\ stage' = [stage EXCEPT ![r] = "answer"]
        /\ Executed(r)
        /\ UNCHANGED outcome
     \/ /\ stage' = [stage EXCEPT ![r] = "leave"]
        /\ Return(r, "error")
        /\ UNCHANGED executed
  /\ UNCHANGED <<gateVars, channelVars, secondRun, rounds, calls, history>>

(* The answer is kept, if there is one and the append does not fail; the    *)
(* snapshot of the cache and the traces follow.                             *)
AnswerUser(r) ==
  /\ Proceed(r, "answer", "leave")
  /\ \/ /\ outcome[r] = "completed"
        /\ history' = Append(history, <<"assistant", r>>)
        /\ UNCHANGED outcome
     \/ /\ outcome[r] = "completed"
        /\ Return(r, "error")
        /\ UNCHANGED history
     \/ /\ outcome[r] # "completed"
        /\ UNCHANGED <<outcome, history>>
  /\ UNCHANGED <<gateVars, channelVars, loopVars>>

-----------------------------------------------------------------------------
(* The user: /stop and /pivot go to the channel in the map, whoever runs; a *)
(* request that has ended has dropped its receiver, and the send fails.     *)
Steer(command) ==
  /\ steers < MaxSteers /\ steering # None
  /\ steers' = steers + 1
  /\ Len(inbox[steering]) < SteerCap
  /\ inbox' = IF stage[steering] = "done" THEN inbox
              ELSE [inbox EXCEPT ![steering] = Append(@, command)]
  /\ aborts' = IF command = "abort" THEN aborts \cup {steering} ELSE aborts
  /\ UNCHANGED <<stage, gateVars, steering, loopVars, outcome, history, estop>>

PullEstop ==
  /\ ~ estop /\ steers < MaxSteers
  /\ estop' = TRUE
  /\ steers' = steers + 1
  /\ UNCHANGED <<stage, gateVars, steering, inbox, aborts, loopVars, outcome, history>>

(* The user approved a tool: the handler of the callback executes it and    *)
(* tells the session what came of it, without the lock of the session.      *)
ResumeApproved ==
  /\ Cardinality({i \in DOMAIN history : history[i] = Resumed}) < MaxResumes
  /\ history' = Append(history, Resumed)
  /\ UNCHANGED <<stage, gateVars, channelVars, loopVars, outcome>>

(* What a request does by itself once it was registered.                    *)
TurnStep(r) ==
  \/ Admit(r) \/ Screen(r) \/ LockSession(r) \/ Resolve(r) \/ Clarify(r) \/ Remember(r)
  \/ AskModel(r) \/ ModelAnswers(r) \/ ParallelCalls(r) \/ SerialCall(r) \/ FollowUp(r)
  \/ RetryContract(r) \/ Settle(r) \/ AnswerUser(r) \/ Leave(r)

TurnNext ==
  \/ \E r \in Requests : Register(r) \/ TurnStep(r)
  \/ \E command \in {"abort", "pivot"} : Steer(command)
  \/ PullEstop
  \/ ResumeApproved

(* Tasks that can run are run; the model and the tools answer (they have    *)
(* timeouts of their own).                                                  *)
TurnFairness == \A r \in Requests : WF_turnVars(TurnStep(r))

TurnSpec == TurnInit /\ [][TurnNext]_turnVars /\ TurnFairness

-----------------------------------------------------------------------------
(* One turn at a time: between the message of a user and its answer stands  *)
(* nothing but the results of approved tools, which are told without the    *)
(* lock, however the requests of the session overlap, wait, fail and are    *)
(* stopped; and nothing is said twice.                                      *)
HistoryPaired ==
  \A i, j \in DOMAIN history :
    /\ history[i] = history[j] => i = j \/ history[i] = Resumed
    /\ \A r \in Requests :
         history[i] = <<"user", r>> /\ history[j] = <<"assistant", r>>
           => i < j /\ \A k \in (i + 1)..(j - 1) : history[k] = Resumed

(* The guards a request holds fit the place it is at, whichever way it came *)
(* there: a permit from its admission to its end, the lock while it works   *)
(* under it; and nobody waits for a lock that is free, or out of the queue. *)
GuardsFit ==
  /\ permits = {r \in Requests : stage[r] \in {"screen", "lock", "waiting"} \cup Locked}
  /\ lockOwner # None => stage[lockOwner] \in Locked
  /\ lockOwner = None => lockQueue = <<>>
  /\ \A r \in Requests : stage[r] = "waiting" => \E i \in 1..Len(lockQueue) : lockQueue[i] = r

(* Seen from outside the requests of a session are a conversation: whoever  *)
(* has the lock speaks, and nobody before or after that, except for the     *)
(* results of approved tools.                                               *)
Talk == INSTANCE Conversation WITH
  speaker <- lockOwner, said <- history, gone <- {r \in Requests : stage[r] = "done"}

IsConversation == Talk!Spec

(* Every request that was let in ends, and gives back its permit and the    *)
(* lock: each way round the loop uses up a round, the contract's second run *)
(* is the last, and those that wait for the lock get it in turn.            *)
TurnEnds ==
  \A r \in Requests :
    (stage[r] # "idle") ~> (stage[r] = "done" /\ r \notin permits /\ lockOwner # r)

(* No request is aborted without a reason: an Abort was sent to it, the     *)
(* emergency stop was pulled, or a later request of the chat took its       *)
(* channel away while its tools ran; never because another request was told *)
(* to stop, nor by a Pivot.                                                 *)
AbortHasReason ==
  \A r \in Requests : outcome[r] = "aborted" => r \in aborts \/ estop \/ steering # r
=============================================================================
