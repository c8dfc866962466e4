----------------------------- MODULE AgentRuns -----------------------------
(***************************************************************************)
(* Delegated agent runs.  spawn_agent queues a run in the session it is     *)
(* called in; a background worker per node claims queued runs, executes one *)
(* at a time and stores how it ended; users and agents cancel, retry and    *)
(* take over runs.  All of them read a row, decide and write the row back   *)
(* as a whole; only the claim is a transaction.                             *)
(***************************************************************************)
EXTENDS Naturals, FiniteSets

CONSTANTS
  Runs,         (* run ids; a fresh one is one that has no row yet          *)
  Workers,      (* the background processors, one per node                  *)
  Clients,      (* tool calls and user commands on runs                     *)
  KindsOf,      (* what a client may ask: "cancel", "retry", "takeover"     *)
  Outcomes,     (* how a handler may return                                 *)
  Chat,         (* the session of a chat                                    *)
  None,
  MaxFaults     (* bound: store calls that fail and nodes that die          *)

(* The handler of a run works in a session of its own (agent_run_session_id *)
(* hashes the run id), written as the run.                                  *)
Sessions == Runs \cup {Chat}
Kinds == {"cancel", "retry", "takeover"}
Ended == {"Completed", "Failed", "TimedOut", "Cancelled"}

ASSUME RunAssumption ==
  /\ Chat \notin Runs /\ None \notin Sessions
  /\ KindsOf \in [Clients -> SUBSET Kinds]
  /\ Outcomes \subseteq {"Completed", "Failed", "TimedOut"}
  /\ MaxFaults \in Nat

(* parent is None where parent_run_id is "session:<session id>".            *)
Record ==
  [status : {"Queued", "Running"} \cup Ended, parent : Runs \cup {None}, session : Sessions]

Job == [at : {"start", "exec", "check", "write", "tell"}, run : Runs, out : Ended \cup {None}]

Op ==
  [kind : Kinds, at : {"read", "write", "tell", "insert", "inform"}, root : Runs,
   todo : SUBSET Runs, now : Runs \cup {None}, listed : SUBSET Runs]

ASSUME NoneAssumption == None \notin Record \cup Job \cup Op

VARIABLES
  run,        (* agent_runs                                                 *)
  mail,       (* agent_mailbox: what the requester was told of each run     *)
  work,       (* the run a worker has in hand                               *)
  op,         (* the operation of a client; listed is auxiliary             *)
  started,    (* auxiliary: how often the handler of a run was started      *)
  faults

vars == <<run, mail, work, op, started, faults>>

Exists(r) == run[r] # None
Status(r) == IF Exists(r) THEN run[r].status ELSE "Absent"
IsEnded(r) == Status(r) \in Ended

TypeOK ==
  /\ run \in [Runs -> Record \cup {None}]
  /\ mail \in [Runs -> SUBSET (Ended \cup {"TakenOver"})]
  /\ work \in [Workers -> Job \cup {None}]
  /\ op \in [Clients -> Op \cup {None}]
  /\ started \in [Runs -> Nat]
  /\ faults \in 0..MaxFaults

Init ==
  /\ run = [r \in Runs |-> None]
  /\ mail = [r \in Runs |-> {}]
  /\ work = [w \in Workers |-> None]
  /\ op = [c \in Clients |-> None]
  /\ started = [r \in Runs |-> 0]
  /\ faults = 0

-----------------------------------------------------------------------------
SetStatus(r, s) == run' = [run EXCEPT ![r].status = s]
Told(r, what) == mail' = [mail EXCEPT ![r] = @ \cup {what}]
Fault == faults < MaxFaults /\ faults' = faults + 1

(* A new run gets a fresh id; which one makes no difference.                *)
Insert(parent, session) ==
  LET fresh == {r \in Runs : ~ Exists(r)}
      r == CHOOSE f \in fresh : TRUE
  IN
  /\ fresh # {}
  /\ run' = [run EXCEPT ![r] = [status |-> "Queued", parent |-> parent, session |-> session]]

-----------------------------------------------------------------------------
(* process_next_queued_agent_run.                                           *)

At(w, place) == work[w] # None /\ work[w].at = place
GoOn(w, place) == work' = [work EXCEPT ![w].at = place]

(* Mutant: runs that a crash left Running are claimed too.                  *)
ClaimAny(w) ==
  /\ work[w] = None
  /\ \E r \in Runs :
       /\ Status(r) \in {"Queued", "Running"}
       /\ SetStatus(r, "Running")
       /\ work' = [work EXCEPT ![w] = [at |-> "start", run |-> r, out |-> None]]
  /\ UNCHANGED <<mail, op, started, faults>>

(* claim_next_queued_agent_run.                                             *)
Claim(w) ==
  /\ work[w] = None
  /\ \E r \in Runs :
       /\ Status(r) = "Queued"
       /\ SetStatus(r, "Running")
       /\ work' = [work EXCEPT ![w] = [at |-> "start", run |-> r, out |-> None]]
  /\ UNCHANGED <<mail, op, started, faults>>

(* The Started event is stored, then the handler is called; with a limit of *)
(* zero seconds it is not.                                                  *)
Start(w) ==
  /\ At(w, "start")
  /\ \/ /\ GoOn(w, "exec")
        /\ started' = [started EXCEPT ![work[w].run] = @ + 1]
     \/ /\ work' = [work EXCEPT ![w].at = "check", ![w].out = "TimedOut"]
        /\ UNCHANGED started
  /\ UNCHANGED <<run, mail, op, faults>>

(* The handler returns, or the timeout drops it.                            *)
Return(w) ==
  /\ At(w, "exec")
  /\ \E out \in Outcomes :
       work' = [work EXCEPT ![w].at = "check", ![w].out = out]
  /\ UNCHANGED <<run, mail, op, started, faults>>

(* Mutant: any status but the one that was claimed ends the processing.     *)
CheckQueued(w) ==
  /\ At(w, "check")
  /\ IF Status(work[w].run) # "Queued"
     THEN work' = [work EXCEPT ![w] = None]
     ELSE GoOn(w, "write")
  /\ UNCHANGED <<run, mail, op, started, faults>>

(* The row is read again: whoever cancelled the run also reports it.        *)
Check(w) ==
  /\ At(w, "check")
  /\ IF Status(work[w].run) = "Cancelled"
     THEN work' = [work EXCEPT ![w] = None]
     ELSE GoOn(w, "write")
  /\ UNCHANGED <<run, mail, op, started, faults>>

(* An error of that read is taken for "not cancelled".                      *)
CheckError(w) ==
  /\ At(w, "check")
  /\ Fault
  /\ GoOn(w, "write")
  /\ UNCHANGED <<run, mail, op, started>>

Store(w) ==
  /\ At(w, "write")
  /\ SetStatus(work[w].run, work[w].out)
  /\ GoOn(w, "tell")
  /\ UNCHANGED <<mail, op, started, faults>>

Tell(w) ==
  /\ At(w, "tell")
  /\ Told(work[w].run, work[w].out)
  /\ work' = [work EXCEPT ![w] = None]
  /\ UNCHANGED <<run, op, started, faults>>

(* ? ends the processing; the row keeps the status it has.                  *)
WorkError(w) ==
  /\ At(w, "start") \/ At(w, "write") \/ At(w, "tell")
  /\ Fault
  /\ work' = [work EXCEPT ![w] = None]
  /\ UNCHANGED <<run, mail, op, started>>

-----------------------------------------------------------------------------
(* cancel_agent_run_tree, retry_agent_run and take_over_agent_run.          *)

(* The runs of peers that descend from root, and root: the least set that   *)
(* has root and the children of its members.                                *)
Below(root, peers) ==
  {r \in Runs : \A S \in SUBSET Runs :
     root \in S /\ (\A s \in peers : run[s].parent \in S => s \in S) => r \in S}

(* The runs a cancellation of root covers: those below it in its session.   *)
Tree(root) ==
  Below(root, {r \in Runs : Exists(r) /\ run[r].session = run[root].session})

OpAt(c, place) == op[c] # None /\ op[c].at = place
Finish(c) == op' = [op EXCEPT ![c] = None]

(* The next run to cancel, the run that takes over, or the end.             *)
Proceed(c, todo) ==
  IF todo = {} /\ op[c].kind = "cancel" THEN Finish(c)
  ELSE op' = [op EXCEPT ![c].todo = todo, ![c].now = None,
                        ![c].at = IF todo = {} THEN "insert" ELSE "read"]

(* Bound: every operation that will insert a run finds a fresh run id.      *)
Spare ==
  Cardinality({r \in Runs : ~ Exists(r)}) >
    Cardinality({c \in Clients : op[c] # None /\ op[c].kind # "cancel"})

(* spawn_agent in the chat, or in the session of a run that is executing.   *)
(* The model may name the parent run; otherwise it is the session.          *)
Spawn ==
  /\ Spare
  /\ \E s \in {Chat} \cup {work[w].run : w \in {v \in Workers : At(v, "exec")}} :
       \E p \in {None} \cup {r \in Runs : Exists(r)} : Insert(p, s)
  /\ UNCHANGED <<mail, work, op, started, faults>>

Ask(c) ==
  /\ op[c] = None
  /\ \E r \in {s \in Runs : Exists(s)} : \E k \in KindsOf[c] :
       LET tree == IF k = "cancel" \/ (k = "takeover" /\ ~ IsEnded(r)) THEN Tree(r) ELSE {} IN
       /\ k # "cancel" => Spare
       /\ op' = [op EXCEPT ![c] = [kind |-> k, root |-> r, todo |-> tree, listed |-> tree,
                                   now |-> None, at |-> IF tree = {} THEN "insert" ELSE "read"]]
  /\ UNCHANGED <<run, mail, work, started, faults>>

(* Mutant: only queued runs are cancelled.                                  *)
CancelReadQueued(c) ==
  /\ OpAt(c, "read")
  /\ \E r \in op[c].todo :
       /\ \A s \in op[c].todo : run[s].parent # r
       /\ IF Status(r) # "Queued" THEN Proceed(c, op[c].todo \ {r})
          ELSE op' = [op EXCEPT ![c].now = r, ![c].at = "write"]
  /\ UNCHANGED <<run, mail, work, started, faults>>

(* cancel_agent_run reads a run, those below it first; one that has ended   *)
(* is left alone.                                                           *)
CancelRead(c) ==
  /\ OpAt(c, "read")
  /\ \E r \in op[c].todo :
       /\ \A s \in op[c].todo : run[s].parent # r
       /\ IF IsEnded(r) THEN Proceed(c, op[c].todo \ {r})
          ELSE op' = [op EXCEPT ![c].now = r, ![c].at = "write"]
  /\ UNCHANGED <<run, mail, work, started, faults>>

CancelWrite(c) ==
  /\ OpAt(c, "write")
  /\ SetStatus(op[c].now, "Cancelled")
  /\ op' = [op EXCEPT ![c].at = "tell"]
  /\ UNCHANGED <<mail, work, started, faults>>

(* Mutant: only the end of the root of the tree is reported.                *)
CancelTellRoot(c) ==
  /\ OpAt(c, "tell")
  /\ IF op[c].now = op[c].root THEN Told(op[c].now, "Cancelled") ELSE UNCHANGED mail
  /\ Proceed(c, op[c].todo \ {op[c].now})
  /\ UNCHANGED <<run, work, started, faults>>

CancelTell(c) ==
  /\ OpAt(c, "tell")
  /\ Told(op[c].now, "Cancelled")
  /\ Proceed(c, op[c].todo \ {op[c].now})
  /\ UNCHANGED <<run, work, started, faults>>

(* Mutant: the run itself is queued again.                                  *)
RequeueSame(c) ==
  /\ OpAt(c, "insert")
  /\ SetStatus(op[c].root, "Queued")
  /\ IF op[c].kind = "retry" THEN Finish(c)
     ELSE op' = [op EXCEPT ![c].at = "inform"]
  /\ UNCHANGED <<mail, work, started, faults>>

(* The new run has the parent and the session of the old one.               *)
Requeue(c) ==
  /\ OpAt(c, "insert")
  /\ Insert(run[op[c].root].parent, run[op[c].root].session)
  /\ IF op[c].kind = "retry" THEN Finish(c)
     ELSE op' = [op EXCEPT ![c].at = "inform"]
  /\ UNCHANGED <<mail, work, started, faults>>

Inform(c) ==
  /\ OpAt(c, "inform")
  /\ Told(op[c].root, "TakenOver")
  /\ Finish(c)
  /\ UNCHANGED <<run, work, started, faults>>

(* ? ends the operation where it is.                                        *)
OpError(c) ==
  /\ op[c] # None
  /\ Fault
  /\ Finish(c)
  /\ UNCHANGED <<run, mail, work, started>>

-----------------------------------------------------------------------------
(* A node dies, with some of the clients; the worker of the node that is    *)
(* started again has nothing in hand, and nobody looks for Running runs.    *)
Crash(w) ==
  /\ Fault
  /\ work' = [work EXCEPT ![w] = None]
  /\ \E gone \in SUBSET Clients :
       op' = [c \in Clients |-> IF c \in gone THEN None ELSE op[c]]
  /\ UNCHANGED <<run, mail, started>>

Work(w) == Claim(w) \/ Start(w) \/ Return(w) \/ Check(w) \/ Store(w) \/ Tell(w)

Serve(c) ==
  CancelRead(c) \/ CancelWrite(c) \/ CancelTell(c) \/ Requeue(c) \/ Inform(c)

Next ==
  \/ Spawn
  \/ \E w \in Workers : Work(w) \/ CheckError(w) \/ WorkError(w) \/ Crash(w)
  \/ \E c \in Clients : Ask(c) \/ Serve(c) \/ OpError(c)

Spec == Init /\ [][Next]_vars

(* The worker's interval keeps ticking, and an operation that was asked for *)
(* goes on; nobody has to spawn a run or to ask for anything.               *)
FairSpec ==
  /\ Spec
  /\ \A w \in Workers : WF_vars(Work(w))
  /\ \A c \in Clients : WF_vars(Serve(c))

-----------------------------------------------------------------------------
(* Properties.                                                              *)

(* The handler of a run is started once at most, however many workers poll  *)
(* and whatever is cancelled, retried or taken over: a retry is another run.*)
RunOnce == \A r \in Runs : started[r] <= 1

(* A run that has ended is never queued or running again, although rows are *)
(* written back as they were read earlier.                                  *)
NeverRevived == [][\A r \in Runs : IsEnded(r) => IsEnded(r)']_vars

(* A cancellation works from the leaves up: when it turns to a run, what it *)
(* listed below that run has ended and cannot start again.                  *)
BottomUp ==
  \A c \in Clients : op[c] # None =>
    \A r, s \in op[c].listed :
      (r = op[c].now \/ r \notin op[c].todo) /\ run[s].parent = r => IsEnded(s)

(* Without faults a run that is Running is in the hands of a worker that    *)
(* will store how it ended: neither the check for a cancellation nor a      *)
(* cancellation that comes too late lets go of it.  Nothing else looks for  *)
(* Running runs.                                                            *)
RunningInHand ==
  faults = 0 =>
    \A r \in Runs : Status(r) = "Running" =>
      \E w \in Workers : work[w] # None /\ work[w].run = r /\ work[w].at # "tell"

(* Whoever ends a run tells the requester or is about to, although workers  *)
(* and cancellations leave it to each other.                                *)
EndTold ==
  faults = 0 =>
    \A r \in Runs : IsEnded(r) =>
      \/ mail[r] \cap Ended # {}
      \/ \E w \in Workers : At(w, "tell") /\ work[w].run = r
      \/ \E c \in Clients : OpAt(c, "tell") /\ op[c].now = r

(* Neither the run that is executed nor the message that is owed is dropped *)
(* between a worker and the cancellations.                                  *)
NothingDropped == RunningInHand /\ EndTold

(* Every queued run is taken and ends; only after a store error or a crash  *)
(* it may stay Running.                                                     *)
QueuedRunEnds ==
  \A r \in Runs :
    Status(r) = "Queued" ~>
      IsEnded(r) \/ (Status(r) = "Running" /\ faults > 0)

(* Who asked for a run learns of its end: a worker that finds it cancelled  *)
(* and a cancellation that finds it ended rely on each other's message.     *)
EndReported ==
  \A r \in Runs : IsEnded(r) ~> mail[r] \cap Ended # {} \/ faults > 0

(* A cancelled run stays cancelled, also when its handler returns later.    *)
CancelledStays ==
  [][\A r \in Runs : Status(r) = "Cancelled" => Status(r)' = "Cancelled"]_vars

(* A cancellation sets out to cancel all runs that descend from its root.   *)
Heirs(root) == Below(root, {r \in Runs : Exists(r)})

TreeCovered ==
  [][\A c \in Clients :
       op[c] = None /\ op'[c] # None /\ op'[c].kind = "cancel" =>
         Heirs(op'[c].root) \subseteq op'[c].todo]_vars

(* It does, where the runs of the tree have one session.                    *)
SessionTreeCovered ==
  [][\A c \in Clients :
       /\ op[c] = None /\ op'[c] # None /\ op'[c].kind = "cancel"
       /\ \A r \in Heirs(op'[c].root) : run[r].session = run[op'[c].root].session
       => Heirs(op'[c].root) \subseteq op'[c].todo]_vars
=============================================================================
