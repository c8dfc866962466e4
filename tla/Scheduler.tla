----------------------------- MODULE Scheduler -----------------------------
(***************************************************************************)
(* Scheduled jobs.  The nodes share one runtime store with a snapshot and a *)
(* lease per job.  Each node runs a polling loop, which claims due jobs and *)
(* executes them one after the other, and a command processor, which reads  *)
(* a bounded channel fed by the loop and by the manage_cron tool.  Every    *)
(* read and every write of the store is a step of its own.                  *)
(***************************************************************************)
EXTENDS Integers, Sequences

CONSTANTS
  Nodes, Jobs,
  Once,         (* the jobs with a Once schedule; the others repeat         *)
  DueAt,        (* when a Once job is due                                   *)
  Period,       (* the interval of the others                               *)
  Mine,         (* the jobs of a node's shard; all of them without shards   *)
  NeedsLeader,  (* a cluster with one shard: only the leader polls          *)
  ConfigJobs,   (* the jobs of a node's config.toml                         *)
  Outcomes,     (* how an execution may end                                 *)
  Orders,       (* what the tool may be asked: <<"add" or "remove", job>>   *)
  Lease,        (* length of the job lease and of the leadership            *)
  ChanCap,      (* capacity of the command channel: 64                      *)
  MaxTime,      (* bound: the clock stops there                             *)
  MaxLives,     (* bound: how often a node boots                            *)
  MaxErrors,    (* bound: store calls that fail                             *)
  MaxCalls,     (* bound: manage_cron calls                                 *)
  Failing,      (* bound: which of them: the read at boot, calls after it   *)
  None

Settled == {"Completed", "Failed", "ApprovalRequired"}
Status == {"Scheduled", "Dispatched"} \cup Settled
Times == 0..MaxTime
Lives == 0..MaxLives

ASSUME JobAssumption ==
  /\ Once \subseteq Jobs
  /\ DueAt \in [Jobs -> Nat]
  /\ Period \in [Jobs -> Nat \ {0}]
  /\ Mine \in [Nodes -> SUBSET Jobs]
  /\ ConfigJobs \in [Nodes -> SUBSET Jobs]
  /\ NeedsLeader \in BOOLEAN /\ Failing \subseteq {"boot", "later"}
  /\ Outcomes \subseteq Settled /\ Outcomes # {}
  /\ Orders \subseteq {"add", "remove"} \X Jobs

ASSUME BoundAssumption ==
  /\ Lease \in Nat \ {0} /\ ChanCap \in Nat \ {0}
  /\ {MaxTime, MaxLives, MaxErrors, MaxCalls} \subseteq Nat

(* A snapshot: the fields of ScheduledPromptJob that change, and the column *)
(* updated_at_us.  A worker id names a node and its runtime instance.       *)
Snapshot == [status : Status, lastRun : Times \cup {None}, updated : Times]
Worker == Nodes \X Lives
LeaseRow == [worker : Worker, until : Nat]

ASSUME NoneAssumption ==
  /\ None \notin Jobs /\ None \notin Snapshot /\ None \notin LeaseRow
  /\ None \notin [op : {"write"}, job : Jobs, snap : Snapshot]

Command ==
  [op : {"Add", "Remove", "List"}, job : Jobs]
    \cup [op : {"UpdateStatus"}, job : Jobs, status : Settled, at : Times]

VARIABLES
  clock,
  snap,       (* job_snapshots                                              *)
  jobLease,   (* job_leases                                                 *)
  leader,     (* the resource lease scheduler:leader:0                      *)
  config,     (* the scheduler.jobs of each config.toml                     *)
  life,       (* which instance of the node runs                            *)
  pc,         (* where the polling loop is                                  *)
  stamp,      (* now_us of the poll, or of the seeding                      *)
  copies,     (* what the loop read of the jobs it has still to handle      *)
  job,        (* the job whose claim is in hand                             *)
  events,     (* the jobs this poll claimed, to be executed in order        *)
  result,     (* how the execution of the head of events ended              *)
  reply,      (* what the List command answered for it                      *)
  chan,       (* the command channel                                        *)
  proc,       (* what the command processor has still to write              *)
  tool,       (* what a manage_cron call has still to write                 *)
  held,       (* auxiliary: when the lease of a claimed job ends            *)
  runs,       (* auxiliary: executions of a job, counted up to MaxRuns      *)
  seeded,     (* auxiliary: how often boot took a job from the config       *)
  errors, calls

loopVars == <<pc, stamp, copies, job, events, result, reply, held>>
storeVars == <<snap, jobLease, leader>>
otherVars == <<clock, config, life, seeded>>
vars == <<clock, storeVars, config, life, loopVars, chan, proc, tool, runs, seeded,
          errors, calls>>

MaxRuns == 2
WorkerId(n) == <<n, life[n]>>
NoCopies == [j \in Jobs |-> None]
Fresh(t) == [status |-> "Scheduled", lastRun |-> None, updated |-> t]

Pcs == {"down", "seed", "wait", "list", "claim", "mark", "run", "exec", "report",
        "ask", "reply", "persist", "release"}

TypeOK ==
  /\ clock \in Times
  /\ snap \in [Jobs -> Snapshot \cup {None}]
  /\ jobLease \in [Jobs -> LeaseRow \cup {None}]
  /\ leader \in LeaseRow \cup {None}
  /\ config \in [Nodes -> SUBSET Jobs]
  /\ life \in [Nodes -> Lives]
  /\ pc \in [Nodes -> Pcs]
  /\ stamp \in [Nodes -> Times]
  /\ copies \in [Nodes -> [Jobs -> Snapshot \cup {None}]]
  /\ job \in [Nodes -> Jobs \cup {None}]
  /\ events \in [Nodes -> Seq(Jobs)]
  /\ result \in [Nodes -> Settled \cup {None}]
  /\ reply \in [Nodes -> Snapshot \cup {None}]
  /\ chan \in [Nodes -> Seq(Command)]
  /\ \A n \in Nodes : Len(chan[n]) <= ChanCap
  /\ proc \in [Nodes -> [op : {"write"}, job : Jobs, snap : Snapshot]
                          \cup [op : {"clear"}, job : Jobs] \cup {None}]
  /\ tool \in [Nodes -> [op : {"add", "remove"}, job : Jobs, edit : BOOLEAN] \cup {None}]
  /\ held \in [Nodes -> [Jobs -> Nat]]
  /\ runs \in [Jobs -> 0..MaxRuns]
  /\ seeded \in [Jobs -> Nat]
  /\ errors \in 0..MaxErrors /\ calls \in 0..MaxCalls

Init ==
  /\ clock = 0
  /\ snap = [j \in Jobs |-> None]
  /\ jobLease = [j \in Jobs |-> None]
  /\ leader = None
  /\ config = ConfigJobs
  /\ life = [n \in Nodes |-> 0]
  /\ pc = [n \in Nodes |-> "down"]
  /\ stamp = [n \in Nodes |-> 0]
  /\ copies = [n \in Nodes |-> NoCopies]
  /\ job = [n \in Nodes |-> None]
  /\ events = [n \in Nodes |-> <<>>]
  /\ result = [n \in Nodes |-> None]
  /\ reply = [n \in Nodes |-> None]
  /\ chan = [n \in Nodes |-> <<>>]
  /\ proc = [n \in Nodes |-> None]
  /\ tool = [n \in Nodes |-> None]
  /\ held = [n \in Nodes |-> [j \in Jobs |-> 0]]
  /\ runs = [j \in Jobs |-> 0]
  /\ seeded = [j \in Jobs |-> 0]
  /\ errors = 0 /\ calls = 0

-----------------------------------------------------------------------------
(* Operations of the store and of the loop's bookkeeping.                   *)

(* Mutant: the lease may be taken over one tick before it ends.             *)
CanAcquireEarly(row, worker) ==
  row # None => row.worker = worker \/ row.until - 1 <= clock

(* Mutant: a lease never expires.                                           *)
CanAcquireOwn(row, worker) == row # None => row.worker = worker

CanAcquire(row, worker) ==
  row # None => row.worker = worker \/ row.until <= clock

InHand(n) == {j \in Jobs : copies[n][j] # None}

(* What the jobs listed ORDER BY updated_at_us have first.                  *)
Oldest(n) ==
  {j \in InHand(n) : \A i \in InHand(n) : copies[n][j].updated <= copies[n][i].updated}

Reference(s) == IF s.lastRun = None THEN s.updated ELSE s.lastRun

(* Mutant: the status of a Once job is not looked at.                       *)
IsDueAgain(j, s, t) ==
  IF j \in Once THEN DueAt[j] <= t ELSE Reference(s) + Period[j] <= t

IsDue(j, s, t) ==
  IF j \in Once
  THEN s.status = "Scheduled" /\ DueAt[j] <= t
  ELSE Reference(s) + Period[j] <= t

Put(j, s) == snap' = [snap EXCEPT ![j] = s]
Goto(n, p) == pc' = [pc EXCEPT ![n] = p]
PutBack(n, j) == copies' = [copies EXCEPT ![n][j] = None]

Send(n, cmd) == Len(chan[n]) < ChanCap /\ chan' = [chan EXCEPT ![n] = Append(@, cmd)]

(* Bound: early enough for the leases left behind to expire before the      *)
(* clock stops.                                                             *)
TimeLeft == clock + Lease <= MaxTime

CallFails(when) ==
  when \in Failing /\ TimeLeft /\ errors < MaxErrors /\ errors' = errors + 1

StoreFails == CallFails("later")

(* Where the loop goes when the jobs left are still to be claimed and those *)
(* in evs executed.                                                         *)
NextPoll(left, evs) ==
  IF left # {} THEN "claim" ELSE IF evs # <<>> THEN "run" ELSE "wait"

-----------------------------------------------------------------------------
(* Boot: seed_scheduler_runtime_store writes back every snapshot it read,   *)
(* or the jobs of the config file when it read none.                        *)

SeedWith(n, read) ==
  LET boot == IF \E j \in Jobs : read[j] # None THEN read
              ELSE [j \in Jobs |-> IF j \in config[n] THEN Fresh(clock) ELSE None]
  IN
  /\ pc[n] = "down"
  /\ life[n] < MaxLives
  /\ life' = [life EXCEPT ![n] = @ + 1]
  /\ copies' = [copies EXCEPT ![n] = boot]
  /\ seeded' = [j \in Jobs |-> seeded[j] +
                  IF boot # read /\ boot[j] # None THEN 1 ELSE 0]
  /\ stamp' = [stamp EXCEPT ![n] = clock]
  /\ Goto(n, IF boot = NoCopies THEN "wait" ELSE "seed")
  /\ UNCHANGED <<clock, storeVars, config, job, events, result, reply, held, chan,
                 proc, tool, runs, calls>>

Boot(n) == SeedWith(n, snap) /\ UNCHANGED errors

(* The error of the read is taken for an empty table.                       *)
BootError(n) == SeedWith(n, NoCopies) /\ CallFails("boot")

SeedWrite(n) ==
  /\ pc[n] = "seed"
  /\ \E j \in Oldest(n) :
       /\ Put(j, [copies[n][j] EXCEPT !.updated = stamp[n]])
       /\ PutBack(n, j)
       /\ Goto(n, IF InHand(n) = {j} THEN "wait" ELSE "seed")
  /\ UNCHANGED <<jobLease, leader, otherVars, stamp, job, events, result, reply, held,
                 chan, proc, tool, runs, errors, calls>>

(* The first write that fails ends the seeding; the node starts all the same. *)
SeedError(n) ==
  /\ pc[n] = "seed"
  /\ StoreFails
  /\ copies' = [copies EXCEPT ![n] = NoCopies]
  /\ Goto(n, "wait")
  /\ UNCHANGED <<storeVars, otherVars, stamp, job, events, result, reply, held, chan,
                 proc, tool, runs, calls>>

-----------------------------------------------------------------------------
(* The polling loop.                                                        *)

(* A tick: without leadership nothing happens.                              *)
Lead(n) ==
  /\ pc[n] = "wait"
  /\ NeedsLeader => CanAcquire(leader, WorkerId(n))
  /\ leader' = IF NeedsLeader
               THEN [worker |-> WorkerId(n), until |-> clock + Lease] ELSE leader
  /\ Goto(n, "list")
  /\ UNCHANGED <<snap, jobLease, otherVars, stamp, copies, job, events, result, reply,
                 held, chan, proc, tool, runs, errors, calls>>

(* list_job_snapshot_records, then the tests that need only the copy.       *)
ListDue(n) ==
  LET due == {j \in Mine[n] : snap[j] # None /\ IsDue(j, snap[j], clock)} IN
  /\ pc[n] = "list"
  /\ stamp' = [stamp EXCEPT ![n] = clock]
  /\ copies' = [copies EXCEPT ![n] = [j \in Jobs |-> IF j \in due THEN snap[j] ELSE None]]
  /\ Goto(n, NextPoll(due, <<>>))
  /\ UNCHANGED <<storeVars, otherVars, job, events, result, reply, held, chan, proc,
                 tool, runs, errors, calls>>

(* try_acquire_job_lease says yes.                                          *)
Claim(n) ==
  /\ pc[n] = "claim"
  /\ \E j \in Oldest(n) :
       /\ CanAcquire(jobLease[j], WorkerId(n))
       /\ jobLease' = [jobLease EXCEPT ![j] =
                         [worker |-> WorkerId(n), until |-> clock + Lease]]
       /\ held' = [held EXCEPT ![n][j] = clock + Lease]
       /\ job' = [job EXCEPT ![n] = j]
  /\ Goto(n, "mark")
  /\ UNCHANGED <<snap, leader, otherVars, stamp, copies, events, result, reply, chan,
                 proc, tool, runs, errors, calls>>

(* Another worker has the lease: skip the job.                              *)
Skip(n) ==
  /\ pc[n] = "claim"
  /\ \E j \in Oldest(n) :
       /\ ~ CanAcquire(jobLease[j], WorkerId(n))
       /\ PutBack(n, j)
       /\ Goto(n, NextPoll(InHand(n) \ {j}, events[n]))
  /\ UNCHANGED <<storeVars, otherVars, stamp, job, events, result, reply, held, chan,
                 proc, tool, runs, errors, calls>>

(* The copy goes back to the store as Dispatched.                           *)
Mark(n) ==
  LET j == job[n] IN
  /\ pc[n] = "mark"
  /\ Put(j, [status |-> "Dispatched", lastRun |-> stamp[n], updated |-> stamp[n]])
  /\ PutBack(n, j)
  /\ events' = [events EXCEPT ![n] = Append(@, j)]
  /\ job' = [job EXCEPT ![n] = None]
  /\ Goto(n, NextPoll(InHand(n) \ {j}, events'[n]))
  /\ UNCHANGED <<jobLease, leader, otherVars, stamp, result, reply, held, chan, proc,
                 tool, runs, errors, calls>>

(* An error ends the poll: the events of jobs marked before are dropped.    *)
PollError(n) ==
  /\ pc[n] \in {"list", "claim", "mark"}
  /\ StoreFails
  /\ copies' = [copies EXCEPT ![n] = NoCopies]
  /\ job' = [job EXCEPT ![n] = None]
  /\ events' = [events EXCEPT ![n] = <<>>]
  /\ held' = [held EXCEPT ![n] = [j \in Jobs |-> 0]]
  /\ Goto(n, "wait")
  /\ UNCHANGED <<storeVars, otherVars, stamp, result, reply, chan, proc, tool, runs, calls>>

Execute(n) ==
  LET j == Head(events[n]) IN
  /\ pc[n] = "run"
  /\ runs' = [runs EXCEPT ![j] = IF @ < MaxRuns THEN @ + 1 ELSE @]
  /\ Goto(n, "exec")
  /\ UNCHANGED <<storeVars, otherVars, stamp, copies, job, events, result, reply, held,
                 chan, proc, tool, errors, calls>>

(* The notification is sent, or process_request returns.                    *)
Finish(n) ==
  /\ pc[n] = "exec"
  /\ \E r \in Outcomes : result' = [result EXCEPT ![n] = r]
  /\ Goto(n, "report")
  /\ UNCHANGED <<storeVars, otherVars, stamp, copies, job, events, reply, held, chan,
                 proc, tool, runs, errors, calls>>

Report(n) ==
  /\ pc[n] = "report"
  /\ Send(n, [op |-> "UpdateStatus", job |-> Head(events[n]), status |-> result[n],
              at |-> clock])
  /\ result' = [result EXCEPT ![n] = None]
  /\ Goto(n, "ask")
  /\ UNCHANGED <<storeVars, otherVars, stamp, copies, job, events, reply, held, proc,
                 tool, runs, errors, calls>>

(* persist_scheduler_job_snapshot: List, then write the answer back.        *)
Ask(n) ==
  /\ pc[n] = "ask"
  /\ Send(n, [op |-> "List", job |-> Head(events[n])])
  /\ Goto(n, "reply")
  /\ UNCHANGED <<storeVars, otherVars, stamp, copies, job, events, result, reply, held,
                 proc, tool, runs, errors, calls>>

NextEvent(n) ==
  /\ events' = [events EXCEPT ![n] = Tail(@)]
  /\ held' = [held EXCEPT ![n][Head(events[n])] = 0]
  /\ Goto(n, NextPoll({}, Tail(events[n])))

(* Mutant: a job that is gone ends the event without giving the lease back. *)
PersistReturning(n) ==
  /\ pc[n] = "persist"
  /\ IF reply[n] = None
     THEN NextEvent(n) /\ UNCHANGED snap
     ELSE /\ Put(Head(events[n]), [reply[n] EXCEPT !.updated = clock])
          /\ Goto(n, "release")
          /\ UNCHANGED <<events, held>>
  /\ reply' = [reply EXCEPT ![n] = None]
  /\ UNCHANGED <<jobLease, leader, otherVars, stamp, copies, job, result,
                 chan, proc, tool, runs, errors, calls>>

(* Mutant: the processor is asked again until its answer has the job.       *)
PersistUntilSeen(n) ==
  /\ pc[n] = "persist"
  /\ IF reply[n] = None THEN Goto(n, "ask") /\ UNCHANGED snap
     ELSE /\ Put(Head(events[n]), [reply[n] EXCEPT !.updated = clock])
          /\ Goto(n, "release")
  /\ reply' = [reply EXCEPT ![n] = None]
  /\ UNCHANGED <<jobLease, leader, otherVars, stamp, copies, job, events, result, held,
                 chan, proc, tool, runs, errors, calls>>

Persist(n) ==
  /\ pc[n] = "persist"
  /\ IF reply[n] = None THEN UNCHANGED snap
     ELSE Put(Head(events[n]), [reply[n] EXCEPT !.updated = clock])
  /\ reply' = [reply EXCEPT ![n] = None]
  /\ Goto(n, "release")
  /\ UNCHANGED <<jobLease, leader, otherVars, stamp, copies, job, events, result, held,
                 chan, proc, tool, runs, errors, calls>>

PersistError(n) ==
  /\ pc[n] = "persist"
  /\ StoreFails
  /\ reply' = [reply EXCEPT ![n] = None]
  /\ Goto(n, "release")
  /\ UNCHANGED <<storeVars, otherVars, stamp, copies, job, events, result, held, chan,
                 proc, tool, runs, calls>>

(* release_job_lease: DELETE ... WHERE job_id and worker_id match.          *)
Release(n) ==
  LET j == Head(events[n]) IN
  /\ pc[n] = "release"
  /\ jobLease' = [jobLease EXCEPT ![j] =
                    IF @ # None /\ @.worker = WorkerId(n) THEN None ELSE @]
  /\ NextEvent(n)
  /\ UNCHANGED <<snap, leader, otherVars, stamp, copies, job, result, reply, chan, proc,
                 tool, runs, errors, calls>>

ReleaseError(n) ==
  /\ pc[n] = "release"
  /\ StoreFails
  /\ NextEvent(n)
  /\ UNCHANGED <<storeVars, otherVars, stamp, copies, job, result, reply, chan, proc,
                 tool, runs, calls>>

-----------------------------------------------------------------------------
(* spawn_scheduler_command_processor.                                       *)

(* Mutant: the next command is taken while a write is outstanding.          *)
ReceiveAhead(n, op) ==
  /\ pc[n] # "down"
  /\ chan[n] # <<>> /\ Head(chan[n]).op = op
  /\ chan' = [chan EXCEPT ![n] = Tail(@)]

(* The processor takes the next command when it has written what the last   *)
(* one asked for.                                                           *)
Receive(n, op) ==
  /\ pc[n] # "down"
  /\ proc[n] = None
  /\ chan[n] # <<>> /\ Head(chan[n]).op = op
  /\ chan' = [chan EXCEPT ![n] = Tail(@)]

Answer(n, s) ==
  /\ reply' = [reply EXCEPT ![n] = s]
  /\ Goto(n, "persist")
  /\ UNCHANGED <<stamp, copies, job, events, result, held>>

HandleAdd(n) ==
  /\ Receive(n, "Add")
  /\ Put(Head(chan[n]).job, Fresh(clock))
  /\ UNCHANGED <<jobLease, leader, otherVars, loopVars, proc, tool, runs, errors, calls>>

HandleRemove(n) ==
  /\ Receive(n, "Remove")
  /\ Put(Head(chan[n]).job, None)
  /\ proc' = [proc EXCEPT ![n] = [op |-> "clear", job |-> Head(chan[n]).job]]
  /\ UNCHANGED <<jobLease, leader, otherVars, loopVars, tool, runs, errors, calls>>

(* UpdateStatus reads the job; its write is ProcWrite.                      *)
HandleUpdate(n) ==
  LET cmd == Head(chan[n])
      s == snap[cmd.job]
  IN
  /\ Receive(n, "UpdateStatus")
  /\ proc' = [proc EXCEPT ![n] = IF s = None THEN None ELSE
                [op |-> "write", job |-> cmd.job,
                 snap |-> [s EXCEPT !.status = cmd.status, !.updated = cmd.at]]]
  /\ UNCHANGED <<storeVars, otherVars, loopVars, tool, runs, errors, calls>>

HandleList(n) ==
  /\ Receive(n, "List")
  /\ Answer(n, snap[Head(chan[n]).job])
  /\ UNCHANGED <<storeVars, otherVars, proc, tool, runs, errors, calls>>

(* A failed delete does not keep the lease from being cleared, a failed     *)
(* List answers with no job at all.                                         *)
HandleError(n) ==
  LET cmd == Head(chan[n]) IN
  /\ \E op \in {"Add", "Remove", "UpdateStatus", "List"} : Receive(n, op)
  /\ StoreFails
  /\ proc' = [proc EXCEPT ![n] = IF cmd.op = "Remove"
                                 THEN [op |-> "clear", job |-> cmd.job] ELSE None]
  /\ IF cmd.op = "List" THEN Answer(n, None) ELSE UNCHANGED loopVars
  /\ UNCHANGED <<storeVars, otherVars, tool, runs, calls>>

ProcWrite(n) ==
  /\ proc[n] # None /\ proc[n].op = "write"
  /\ Put(proc[n].job, proc[n].snap)
  /\ proc' = [proc EXCEPT ![n] = None]
  /\ UNCHANGED <<jobLease, leader, otherVars, loopVars, chan, tool, runs, errors, calls>>

ProcClear(n) ==
  /\ proc[n] # None /\ proc[n].op = "clear"
  /\ jobLease' = [jobLease EXCEPT ![proc[n].job] = None]
  /\ proc' = [proc EXCEPT ![n] = None]
  /\ UNCHANGED <<snap, leader, otherVars, loopVars, chan, tool, runs, errors, calls>>

ProcError(n) ==
  /\ proc[n] # None
  /\ StoreFails
  /\ proc' = [proc EXCEPT ![n] = None]
  /\ UNCHANGED <<storeVars, otherVars, loopVars, chan, tool, runs, calls>>

-----------------------------------------------------------------------------
(* manage_cron on a node: a command, then the same write once more from the *)
(* tool itself, then the config file.                                       *)

ToolSend(n) ==
  /\ pc[n] # "down" /\ tool[n] = None
  /\ calls < MaxCalls
  /\ calls' = calls + 1
  /\ \E o \in Orders :
       /\ Send(n, [op |-> IF o[1] = "add" THEN "Add" ELSE "Remove", job |-> o[2]])
       /\ tool' = [tool EXCEPT ![n] = [op |-> o[1], job |-> o[2], edit |-> FALSE]]
  /\ UNCHANGED <<storeVars, otherVars, loopVars, proc, runs, errors>>

(* Its error is ignored.                                                    *)
ToolWrite(n) ==
  /\ tool[n] # None /\ ~ tool[n].edit
  /\ \/ Put(tool[n].job, IF tool[n].op = "add" THEN Fresh(clock) ELSE None)
        /\ UNCHANGED errors
     \/ StoreFails /\ UNCHANGED snap
  /\ tool' = [tool EXCEPT ![n].edit = TRUE]
  /\ UNCHANGED <<jobLease, leader, otherVars, loopVars, chan, proc, runs, calls>>

ToolEdit(n) ==
  /\ tool[n] # None /\ tool[n].edit
  /\ config' = [config EXCEPT ![n] = IF tool[n].op = "add" THEN @ \cup {tool[n].job}
                                     ELSE @ \ {tool[n].job}]
  /\ tool' = [tool EXCEPT ![n] = None]
  /\ UNCHANGED <<clock, storeVars, life, seeded, loopVars, chan, proc, runs, errors, calls>>

-----------------------------------------------------------------------------
(* A node dies with everything in its memory.                               *)
Crash(n) ==
  /\ pc[n] # "down"
  /\ life[n] < MaxLives
  /\ TimeLeft
  /\ Goto(n, "down")
  /\ copies' = [copies EXCEPT ![n] = NoCopies]
  /\ job' = [job EXCEPT ![n] = None]
  /\ events' = [events EXCEPT ![n] = <<>>]
  /\ result' = [result EXCEPT ![n] = None]
  /\ reply' = [reply EXCEPT ![n] = None]
  /\ held' = [held EXCEPT ![n] = [j \in Jobs |-> 0]]
  /\ chan' = [chan EXCEPT ![n] = <<>>]
  /\ proc' = [proc EXCEPT ![n] = None]
  /\ tool' = [tool EXCEPT ![n] = None]
  /\ UNCHANGED <<storeVars, otherVars, stamp, runs, errors, calls>>

Tick ==
  /\ clock < MaxTime
  /\ clock' = clock + 1
  /\ UNCHANGED <<storeVars, config, life, loopVars, chan, proc, tool, runs, seeded,
                 errors, calls>>

Poll(n) ==
  \/ SeedWrite(n) \/ Lead(n) \/ ListDue(n) \/ Claim(n) \/ Skip(n) \/ Mark(n)
  \/ Execute(n) \/ Finish(n) \/ Report(n) \/ Ask(n) \/ Persist(n) \/ Release(n)

Process(n) ==
  \/ HandleAdd(n) \/ HandleRemove(n) \/ HandleUpdate(n) \/ HandleList(n)
  \/ ProcWrite(n) \/ ProcClear(n)

Fault(n) ==
  \/ BootError(n) \/ SeedError(n) \/ PollError(n) \/ PersistError(n) \/ ReleaseError(n)
  \/ HandleError(n) \/ ProcError(n)

Tool(n) == ToolSend(n) \/ ToolWrite(n) \/ ToolEdit(n)

Next ==
  \/ \E n \in Nodes : Boot(n) \/ Poll(n) \/ Process(n) \/ Fault(n) \/ Tool(n) \/ Crash(n)
  \/ Tick

Spec == Init /\ [][Next]_vars

(* Tokio keeps running both tasks, the machine is started again, time goes  *)
(* by; nobody has to call the tool, or to crash.                            *)
FairSpec ==
  /\ Spec
  /\ \A n \in Nodes : WF_vars(Boot(n)) /\ WF_vars(Poll(n)) /\ WF_vars(Process(n))
  /\ WF_vars(Tick)

-----------------------------------------------------------------------------
(* Properties.                                                              *)

Phase(s) ==
  IF s = None THEN "absent"
  ELSE CASE s.status = "Scheduled" -> "scheduled"
         [] s.status = "Dispatched" -> "dispatched"
         [] OTHER -> "settled"

Lifecycle == INSTANCE OneShot WITH
  Jobs <- Once,
  phase <- [j \in Once |-> Phase(snap[j])],
  ran <- [j \in Once |-> runs[j]]

(* On one node a Once job follows its life cycle and runs at most once,     *)
(* whatever is lost by crashes and store errors and although three tasks    *)
(* write whole snapshots they read earlier.                                 *)
FollowsLifecycle == Lifecycle!Spec

(* A Once job is executed at most once (for each time boot took it from the *)
(* config file).                                                            *)
OnceAtMostOnce == \A j \in Once : runs[j] <= seeded[j]

(* Two workers never both have a claim on a job that they may take to be    *)
(* unexpired, whatever becomes of other jobs and as long as the tool is not *)
(* asked to remove this one.                                                *)
Lasting == {j \in Jobs : <<"remove", j>> \notin Orders}

ClaimExclusive ==
  \A m, n \in Nodes : \A j \in Lasting :
    held[m][j] > clock /\ held[n][j] > clock => m = n

(* A loop between two polls has given back the lease of every job, unless   *)
(* the store failed.                                                        *)
NoLeakedJobLease ==
  \A n \in Nodes : \A j \in Jobs :
    errors = 0 /\ pc[n] = "wait" /\ jobLease[j] # None => jobLease[j].worker # WorkerId(n)

(* On one node a job that reads Dispatched has its event in the loop's hand,*)
(* unless a crash or the store took it: nothing looks for such a Once job   *)
(* again.  The report has to be written before the List that follows it is  *)
(* answered, because the loop writes the answer back.                       *)
FirstLife == \A n \in Nodes : life[n] = IF pc[n] = "down" THEN 0 ELSE 1

DispatchedInHand ==
  errors = 0 /\ FirstLife =>
    \A j \in Jobs : snap[j] # None /\ snap[j].status = "Dispatched" =>
      \E n \in Nodes : \E i \in 1..Len(events[n]) : events[n][i] = j

(* A loop that has found due jobs comes back to its next poll: it blocks on *)
(* the full channel and on the answer of the processor, never for ever.     *)
LoopReturns ==
  \A n \in Nodes : pc[n] \in {"claim", "run"} ~> pc[n] \in {"wait", "down"}

(* A Once job that is scheduled is dispatched or gone in the end, although  *)
(* the leader, or the worker with the lease of the job, may crash.          *)
DueJobTaken ==
  \A j \in Once :
    snap[j] # None /\ snap[j].status = "Scheduled" ~>
      snap[j] = None \/ snap[j].status # "Scheduled"
=============================================================================
