-------------------------- MODULE SchedulerProofs --------------------------
(***************************************************************************)
(* Proofs about Scheduler: what every variable holds, what the loop, the    *)
(* channel and the processor of a node have to do with one another, that a  *)
(* claim is exclusive and no lease stays behind on any number of nodes, and *)
(* that one node follows the life cycle of a Once job and has in hand what  *)
(* reads Dispatched.                                                        *)
(***************************************************************************)
EXTENDS Scheduler, TLAPS

(* The head of the events is being handled.                                 *)
Started == {"exec", "report", "ask", "reply", "persist", "release"}

(* Where the loop of a node is says what it has in hand.                    *)
LoopHas(n) ==
  /\ pc[n] \in {"down", "seed", "wait", "list"} => events[n] = <<>>
  /\ pc[n] \in {"run"} \cup Started => events[n] # <<>>
  /\ pc[n] = "mark" => job[n] \in Jobs /\ copies[n][job[n]] # None
  /\ pc[n] # "mark" => job[n] = None
  /\ pc[n] = "report" => result[n] \in Settled
  /\ pc[n] = "down" =>
       /\ chan[n] = <<>> /\ proc[n] = None /\ tool[n] = None
       /\ \A j \in Jobs : held[n][j] = 0

(* A command that the loop sent is about the job whose event it handles: it *)
(* asks for the job after it reported its status, and waits for the answer. *)
Commanded(n, cmd) ==
  /\ cmd.op = "List" => pc[n] = "reply" /\ cmd.job = Head(events[n])
  /\ cmd.op = "UpdateStatus" => pc[n] \in {"ask", "reply"} /\ cmd.job = Head(events[n])

ChannelHas(n) ==
  /\ \A i \in 1..Len(chan[n]) : Commanded(n, chan[n][i])
  /\ \A i, k \in 1..Len(chan[n]) :
       i < k /\ chan[n][i].op = "List" => chan[n][k].op \notin {"List", "UpdateStatus"}

(* What the processor has still to write.                                   *)
ProcHas(n) ==
  proc[n] # None /\ proc[n].op = "write" =>
    /\ pc[n] \in {"ask", "reply"} /\ proc[n].job = Head(events[n])
    /\ proc[n].snap.status \in Settled

Shape(n) == LoopHas(n) /\ ChannelHas(n) /\ ProcHas(n)
Known == TypeOK /\ \A n \in Nodes : Shape(n)

-----------------------------------------------------------------------------
(* A lease a worker that runs has in the table is that of the job it is     *)
(* claiming or of an event, unless the store failed; and nobody has a lease *)
(* before its time.                                                         *)
Claimed(n, j) == j = job[n] \/ \E i \in 1..Len(events[n]) : events[n][i] = j

OwnLease(n, j) ==
  jobLease[j] # None /\ jobLease[j].worker = WorkerId(n) /\ pc[n] # "down" => Claimed(n, j)

LivedLease(n, j) ==
  \A l \in Lives : jobLease[j] # None /\ jobLease[j].worker = <<n, l>> => l <= life[n]

LeaseInv ==
  \A n \in Nodes : \A j \in Jobs : LivedLease(n, j) /\ (errors = 0 => OwnLease(n, j))

(* No node has the removal of a lasting job pending.                        *)
NothingRemoved(n) ==
  /\ \A i \in 1..Len(chan[n]) : chan[n][i].op = "Remove" => chan[n][i].job \notin Lasting
  /\ proc[n] # None /\ proc[n].op = "clear" => proc[n].job \notin Lasting
  /\ tool[n] # None /\ tool[n].op = "remove" => tool[n].job \notin Lasting

NoRemoval == \A n \in Nodes : NothingRemoved(n)

(* A claim that may be taken to be unexpired has its row in the table.      *)
HeldLease(n, j) ==
  held[n][j] > clock =>
    /\ jobLease[j] # None /\ jobLease[j].worker = WorkerId(n)
    /\ jobLease[j].until >= held[n][j]

ClaimInv == NoRemoval /\ \A n \in Nodes : \A j \in Lasting : HeldLease(n, j)

-----------------------------------------------------------------------------
(* manage_cron leaves Once jobs alone.                                      *)
LeftAlone(n) ==
  /\ \A i \in 1..Len(chan[n]) :
       chan[n][i].op \in {"Add", "Remove"} => chan[n][i].job \notin Once
  /\ tool[n] # None => tool[n].job \notin Once

(* What a loop read of a Once job is still so.                              *)
OnceCopied(n, j) ==
  copies[n][j] # None =>
    /\ pc[n] = "seed" =>
         \/ Phase(snap[j]) = "absent" /\ Phase(copies[n][j]) = "scheduled"
         \/ Phase(snap[j]) = Phase(copies[n][j])
    /\ pc[n] \in {"claim", "mark"} => Phase(snap[j]) = "scheduled"

(* An event of it is the only one, of a job that is dispatched and ran when *)
(* the event was begun.                                                     *)
OnceEvent(n, i, j) ==
  events[n][i] = j =>
    /\ Phase(snap[j]) \in {"dispatched", "settled"}
    /\ runs[j] = (IF i = 1 /\ pc[n] \in Started THEN 1 ELSE 0)
    /\ \A k \in 1..Len(events[n]) : events[n][k] = j => k = i

(* The answer of the processor is still so when it is written back.         *)
OnceReplied(n) ==
  pc[n] = "persist" /\ reply[n] # None /\ Head(events[n]) \in Once =>
    Phase(snap[Head(events[n])]) = Phase(reply[n])

OnceNode(n) ==
  /\ \A j \in Once : OnceCopied(n, j) /\ \A i \in 1..Len(events[n]) : OnceEvent(n, i, j)
  /\ OnceReplied(n)

(* How often it ran says where it is.                                       *)
OnceRan(j) ==
  /\ runs[j] \in {0, 1}
  /\ Phase(snap[j]) \in {"absent", "scheduled"} => runs[j] = 0
  /\ Phase(snap[j]) = "settled" => runs[j] = 1

OnceInv ==
  /\ \A n \in Nodes : LeftAlone(n) /\ OnceNode(n)
  /\ \A j \in Once : OnceRan(j)

-----------------------------------------------------------------------------
(* What the loop of the one node still does for a job that reads Dispatched.*)
Dispatched(j) == snap[j] # None /\ snap[j].status = "Dispatched"
HasEvent(n, j) == \E i \in 1..Len(events[n]) : events[n][i] = j

(* The status of the event at the head is on its way to the store.          *)
Reported(n) ==
  \/ proc[n] # None /\ proc[n].op = "write"
  \/ \E i \in 1..Len(chan[n]) : chan[n][i].op = "UpdateStatus"

HandNode(n) ==
  /\ \A j \in Jobs : Dispatched(j) => HasEvent(n, j)
  /\ pc[n] \in {"ask", "reply"} /\ Dispatched(Head(events[n])) => Reported(n)
  /\ pc[n] \in {"persist", "release"} => ~ Dispatched(Head(events[n]))
  /\ pc[n] = "persist" /\ reply[n] # None => reply[n].status # "Dispatched"
  /\ pc[n] = "seed" =>
       \A j \in Jobs : copies[n][j] # None => copies[n][j].status # "Dispatched"

HandInv ==
  /\ \A n \in Nodes : pc[n] # "down" => life[n] > 0
  /\ errors = 0 /\ FirstLife => \A n \in Nodes : HandNode(n)

-----------------------------------------------------------------------------
(* What every variable holds.                                               *)

(* Nothing runs and nothing is stored.                                      *)
LEMMA InitKnown == Init => Known
<1> SUFFICES ASSUME Init PROVE Known
  OBVIOUS
<1>1. TypeOK
  <2>1. /\ clock \in Times /\ errors \in 0..MaxErrors /\ calls \in 0..MaxCalls
        /\ life \in [Nodes -> Lives] /\ stamp \in [Nodes -> Times]
        /\ config \in [Nodes -> SUBSET Jobs]
    BY BoundAssumption, JobAssumption DEF Init, Times, Lives
  <2>2. /\ snap \in [Jobs -> Snapshot \cup {None}] /\ jobLease \in [Jobs -> LeaseRow \cup {None}]
        /\ leader \in LeaseRow \cup {None} /\ runs \in [Jobs -> 0..MaxRuns] /\ seeded \in [Jobs -> Nat]
    BY DEF Init, MaxRuns
  <2>3. /\ pc \in [Nodes -> Pcs] /\ copies \in [Nodes -> [Jobs -> Snapshot \cup {None}]]
        /\ job \in [Nodes -> Jobs \cup {None}] /\ events \in [Nodes -> Seq(Jobs)]
        /\ result \in [Nodes -> Settled \cup {None}] /\ reply \in [Nodes -> Snapshot \cup {None}]
        /\ held \in [Nodes -> [Jobs -> Nat]]
    BY DEF Init, Pcs, NoCopies
  <2>4. /\ chan \in [Nodes -> Seq(Command)] /\ \A n \in Nodes : Len(chan[n]) <= ChanCap
        /\ proc \in [Nodes -> [op : {"write"}, job : Jobs, snap : Snapshot]
                                \cup [op : {"clear"}, job : Jobs] \cup {None}]
        /\ tool \in [Nodes -> [op : {"add", "remove"}, job : Jobs, edit : BOOLEAN] \cup {None}]
    BY BoundAssumption DEF Init
  <2> QED
    BY <2>1, <2>2, <2>3, <2>4 DEF TypeOK
<1>2. ASSUME NEW n \in Nodes PROVE Shape(n)
  BY DEF Init, Shape, LoopHas, ChannelHas, ProcHas, Started
<1> QED
  BY <1>1, <1>2 DEF Known

(* A step of one node leaves what the others have.                          *)
Others(n) ==
  \A m \in Nodes : m # n =>
    /\ pc'[m] = pc[m] /\ copies'[m] = copies[m] /\ job'[m] = job[m] /\ events'[m] = events[m]
    /\ result'[m] = result[m] /\ reply'[m] = reply[m] /\ held'[m] = held[m]
    /\ chan'[m] = chan[m] /\ proc'[m] = proc[m] /\ tool'[m] = tool[m]

(* The shape of one node is all that its step can change.                   *)
LEMMA OthersShape ==
  ASSUME Known, NEW n \in Nodes, Others(n), Shape(n)'
  PROVE  \A m \in Nodes : Shape(m)'
<1> SUFFICES ASSUME NEW m \in Nodes, m # n PROVE Shape(m)'
  OBVIOUS
<1>1. /\ pc'[m] = pc[m] /\ copies'[m] = copies[m] /\ job'[m] = job[m] /\ events'[m] = events[m]
      /\ result'[m] = result[m] /\ reply'[m] = reply[m] /\ held'[m] = held[m]
      /\ chan'[m] = chan[m] /\ proc'[m] = proc[m] /\ tool'[m] = tool[m]
  BY DEF Others
<1>2. LoopHas(m) /\ ChannelHas(m) /\ ProcHas(m)
  BY DEF Known, Shape
<1>3. LoopHas(m)'
  BY <1>1, <1>2 DEF LoopHas
<1>4. ChannelHas(m)'
  BY <1>1, <1>2 DEF ChannelHas, Commanded
<1>5. ProcHas(m)'
  BY <1>1, <1>2 DEF ProcHas
<1> QED
  BY <1>3, <1>4, <1>5 DEF Shape

(* A channel nobody touched, while the loop goes where it may go.           *)
LEMMA ChannelStays ==
  ASSUME NEW n \in Nodes, Shape(n), chan'[n] = chan[n], proc'[n] = proc[n],
         \/ pc'[n] = pc[n] /\ events'[n] = events[n]
         \/ pc[n] \notin {"ask", "reply"}
  PROVE  ChannelHas(n)' /\ ProcHas(n)'
BY DEF Shape, ChannelHas, Commanded, ProcHas

(* What is built from the clock and the name of a worker has its type.      *)
LEMMA SeedTypes ==
  ASSUME TypeOK, NEW n \in Nodes
  PROVE  /\ WorkerId(n) \in Worker /\ clock \in Times /\ clock \in Nat /\ clock + Lease \in Nat
         /\ [worker |-> WorkerId(n), until |-> clock + Lease] \in LeaseRow
         /\ Fresh(clock) \in Snapshot /\ stamp[n] \in Times
<1>1. clock \in Times /\ life[n] \in Lives /\ stamp[n] \in Times
  BY DEF TypeOK
<1>2. clock \in Nat /\ Lease \in Nat
  BY <1>1, BoundAssumption DEF Times
<1>3. WorkerId(n) \in Worker
  BY <1>1 DEF WorkerId, Worker
<1>4. [worker |-> WorkerId(n), until |-> clock + Lease] \in LeaseRow
  BY <1>2, <1>3 DEF LeaseRow
<1>5. Fresh(clock) \in Snapshot
  BY <1>1 DEF Fresh, Snapshot, Status
<1> QED
  BY <1>1, <1>2, <1>3, <1>4, <1>5

(* The boot of a node, whatever it read.                                    *)
LEMMA SeedWithKnown ==
  ASSUME Known, NEW n \in Nodes, NEW read \in [Jobs -> Snapshot \cup {None}], SeedWith(n, read),
         errors' \in 0..MaxErrors
  PROVE  Known'
<1> DEFINE boot == IF \E j \in Jobs : read[j] # None THEN read
                   ELSE [j \in Jobs |-> IF j \in config[n] THEN Fresh(clock) ELSE None]
<1>1. TypeOK /\ Shape(n)
  BY DEF Known
<1>2. boot \in [Jobs -> Snapshot \cup {None}]
  BY <1>1, SeedTypes
<1> HIDE DEF boot
<1>3. /\ pc[n] = "down" /\ life[n] < MaxLives
      /\ life' = [life EXCEPT ![n] = @ + 1]
      /\ copies' = [copies EXCEPT ![n] = boot]
      /\ stamp' = [stamp EXCEPT ![n] = clock]
      /\ pc' = [pc EXCEPT ![n] = IF boot = NoCopies THEN "wait" ELSE "seed"]
      /\ UNCHANGED <<clock, storeVars, config, job, events, result, reply, held, chan, proc, tool, runs, calls>>
  BY DEF SeedWith, Goto, boot
<1>4. seeded' \in [Jobs -> Nat]
  <2>1. seeded \in [Jobs -> Nat]
    BY <1>1 DEF TypeOK
  <2>2. seeded' = [j \in Jobs |-> seeded[j] + IF boot # read /\ boot[j] # None THEN 1 ELSE 0]
    BY DEF SeedWith, boot
  <2> QED
    BY <2>1, <2>2
<1>5. life' \in [Nodes -> Lives]
  <2>1. life \in [Nodes -> Lives] /\ MaxLives \in Nat
    BY <1>1, BoundAssumption DEF TypeOK
  <2> QED
    BY <1>3, <2>1 DEF Lives
<1>6. /\ copies' \in [Nodes -> [Jobs -> Snapshot \cup {None}]]
      /\ stamp' \in [Nodes -> Times] /\ pc' \in [Nodes -> Pcs]
      /\ pc'[n] \in {"wait", "seed"} /\ Others(n)
  BY <1>1, <1>2, <1>3, SeedTypes DEF TypeOK, Pcs, Others
<1>7. TypeOK'
  BY <1>1, <1>3, <1>4, <1>5, <1>6 DEF TypeOK, storeVars
<1>8. LoopHas(n)'
  BY <1>1, <1>3, <1>6 DEF Shape, LoopHas, Started
<1>9. ChannelHas(n)' /\ ProcHas(n)'
  BY <1>1, <1>3, ChannelStays
<1> QED
  BY <1>6, <1>7, <1>8, <1>9, OthersShape DEF Known, Shape

(* A record of a copy.                                                      *)
LEMMA CopyOf ==
  ASSUME TypeOK, NEW n \in Nodes, NEW j \in Oldest(n)
  PROVE  j \in Jobs /\ copies[n][j] \in Snapshot /\ copies[n][j] # None
BY DEF TypeOK, Oldest, InHand

(* SeedWrite: one of the copies goes to the store.                          *)
LEMMA SeedWriteKnown ==
  ASSUME Known, NEW n \in Nodes, SeedWrite(n)
  PROVE  Known'
<1>1. TypeOK /\ Shape(n) /\ pc[n] = "seed"
  BY DEF Known, SeedWrite
<1>2. PICK j \in Oldest(n) :
         /\ Put(j, [copies[n][j] EXCEPT !.updated = stamp[n]])
         /\ PutBack(n, j) /\ Goto(n, IF InHand(n) = {j} THEN "wait" ELSE "seed")
  BY DEF SeedWrite
<1>3. UNCHANGED <<jobLease, leader, otherVars, stamp, job, events, result, reply, held,
                  chan, proc, tool, runs, errors, calls>>
  BY DEF SeedWrite
<1>4. j \in Jobs /\ [copies[n][j] EXCEPT !.updated = stamp[n]] \in Snapshot
  BY <1>1, CopyOf, SeedTypes DEF Snapshot
<1>5. snap' \in [Jobs -> Snapshot \cup {None}]
  BY <1>1, <1>2, <1>4 DEF Put, TypeOK
<1>6. /\ copies' \in [Nodes -> [Jobs -> Snapshot \cup {None}]]
      /\ pc' \in [Nodes -> Pcs] /\ pc'[n] \in {"wait", "seed"} /\ Others(n)
  BY <1>1, <1>2, <1>3, <1>4 DEF TypeOK, Pcs, Others, PutBack, Goto
<1>7. TypeOK'
  BY <1>1, <1>3, <1>5, <1>6 DEF TypeOK, otherVars
<1>8. LoopHas(n)'
  BY <1>1, <1>3, <1>6 DEF Shape, LoopHas, Started
<1>9. ChannelHas(n)' /\ ProcHas(n)'
  BY <1>1, <1>3, ChannelStays
<1> QED
  BY <1>6, <1>7, <1>8, <1>9, OthersShape DEF Known, Shape

(* Failures are counted up to their bound.                                  *)
LEMMA FailsCounted ==
  ASSUME TypeOK, NEW when, CallFails(when)
  PROVE  errors' \in 0..MaxErrors /\ errors' > 0
BY BoundAssumption DEF CallFails, TypeOK

(* The loop runs only when it has events and waits only when it has none.   *)
LEMMA NextPollWhere ==
  ASSUME NEW left, NEW evs
  PROVE  /\ NextPoll(left, evs) \in {"claim", "run", "wait"}
         /\ NextPoll(left, evs) = "run" => evs # <<>>
         /\ NextPoll(left, evs) = "wait" => evs = <<>>
BY DEF NextPoll

(* Boot and BootError.                                                      *)
LEMMA BootsKnown ==
  ASSUME Known, NEW n \in Nodes, Boot(n) \/ BootError(n)
  PROVE  Known'
<1>1. TypeOK /\ snap \in [Jobs -> Snapshot \cup {None}] /\ NoCopies \in [Jobs -> Snapshot \cup {None}]
  BY DEF Known, TypeOK, NoCopies
<1>2. CASE Boot(n)
  <2>1. errors' \in 0..MaxErrors
    BY <1>1, <1>2 DEF Boot, TypeOK
  <2> QED
    BY <1>1, <1>2, <2>1, SeedWithKnown DEF Boot
<1>3. CASE BootError(n)
  BY <1>1, <1>3, FailsCounted, SeedWithKnown DEF BootError
<1> QED
  BY <1>2, <1>3

(* SeedError: the loop starts without its copies.                           *)
LEMMA SeedErrorKnown ==
  ASSUME Known, NEW n \in Nodes, SeedError(n)
  PROVE  Known'
<1>1. TypeOK /\ Shape(n) /\ pc[n] = "seed"
  BY DEF Known, SeedError
<1>2. /\ copies' = [copies EXCEPT ![n] = NoCopies] /\ pc' = [pc EXCEPT ![n] = "wait"]
      /\ UNCHANGED <<storeVars, otherVars, stamp, job, events, result, reply, held, chan, proc, tool, runs, calls>>
  BY DEF SeedError, Goto
<1>3. errors' \in 0..MaxErrors
  BY <1>1, FailsCounted DEF SeedError, StoreFails
<1>4. /\ copies' \in [Nodes -> [Jobs -> Snapshot \cup {None}]]
      /\ pc' \in [Nodes -> Pcs] /\ pc'[n] = "wait" /\ Others(n)
  BY <1>1, <1>2 DEF TypeOK, Pcs, Others, NoCopies
<1>5. TypeOK'
  BY <1>1, <1>2, <1>3, <1>4 DEF TypeOK, otherVars, storeVars
<1>6. LoopHas(n)'
  BY <1>1, <1>2, <1>4 DEF Shape, LoopHas, Started
<1>7. ChannelHas(n)' /\ ProcHas(n)'
  BY <1>1, <1>2, ChannelStays
<1> QED
  BY <1>4, <1>5, <1>6, <1>7, OthersShape DEF Known, Shape

(* Lead: the lease of the leader.                                           *)
LEMMA LeadKnown ==
  ASSUME Known, NEW n \in Nodes, Lead(n)
  PROVE  Known'
<1>1. TypeOK /\ Shape(n) /\ pc[n] = "wait"
  BY DEF Known, Lead
<1>2. /\ pc' = [pc EXCEPT ![n] = "list"]
      /\ UNCHANGED <<snap, jobLease, otherVars, stamp, copies, job, events, result, reply,
                     held, chan, proc, tool, runs, errors, calls>>
  BY DEF Lead, Goto
<1>3. leader' \in LeaseRow \cup {None}
  BY <1>1, SeedTypes DEF Lead, TypeOK
<1>4. pc' \in [Nodes -> Pcs] /\ pc'[n] = "list" /\ Others(n)
  BY <1>1, <1>2 DEF TypeOK, Pcs, Others
<1>5. TypeOK'
  BY <1>1, <1>2, <1>3, <1>4 DEF TypeOK, otherVars
<1>6. LoopHas(n)'
  BY <1>1, <1>2, <1>4 DEF Shape, LoopHas, Started
<1>7. ChannelHas(n)' /\ ProcHas(n)'
  BY <1>1, <1>2, ChannelStays
<1> QED
  BY <1>4, <1>5, <1>6, <1>7, OthersShape DEF Known, Shape

(* ListDue: copies of what is due.                                          *)
LEMMA ListDueKnown ==
  ASSUME Known, NEW n \in Nodes, ListDue(n)
  PROVE  Known'
<1> DEFINE due == {j \in Mine[n] : snap[j] # None /\ IsDue(j, snap[j], clock)}
           read == [j \in Jobs |-> IF j \in due THEN snap[j] ELSE None]
<1>1. TypeOK /\ Shape(n) /\ pc[n] = "list"
  BY DEF Known, ListDue
<1>2. read \in [Jobs -> Snapshot \cup {None}]
  BY <1>1 DEF TypeOK
<1>3. /\ stamp' = [stamp EXCEPT ![n] = clock] /\ copies' = [copies EXCEPT ![n] = read]
      /\ pc' = [pc EXCEPT ![n] = NextPoll(due, <<>>)]
      /\ UNCHANGED <<storeVars, otherVars, job, events, result, reply, held, chan, proc, tool, runs, errors, calls>>
  BY DEF ListDue, Goto
<1>4. NextPoll(due, <<>>) \in {"claim", "wait"}
  BY DEF NextPoll
<1> HIDE DEF due, read
<1>5. /\ copies' \in [Nodes -> [Jobs -> Snapshot \cup {None}]] /\ stamp' \in [Nodes -> Times]
      /\ pc' \in [Nodes -> Pcs] /\ pc'[n] \in {"claim", "wait"} /\ Others(n)
  BY <1>1, <1>2, <1>3, <1>4, SeedTypes DEF TypeOK, Pcs, Others
<1>6. TypeOK'
  BY <1>1, <1>3, <1>5 DEF TypeOK, otherVars, storeVars
<1>7. LoopHas(n)'
  BY <1>1, <1>3, <1>5 DEF Shape, LoopHas, Started
<1>8. ChannelHas(n)' /\ ProcHas(n)'
  BY <1>1, <1>3, ChannelStays
<1> QED
  BY <1>5, <1>6, <1>7, <1>8, OthersShape DEF Known, Shape

(* Claim: a lease row for one of the copies, which is then in hand.         *)
LEMMA ClaimKnown ==
  ASSUME Known, NEW n \in Nodes, Claim(n)
  PROVE  Known'
<1>1. TypeOK /\ Shape(n) /\ pc[n] = "claim"
  BY DEF Known, Claim
<1>2. PICK j \in Oldest(n) :
         /\ jobLease' = [jobLease EXCEPT ![j] = [worker |-> WorkerId(n), until |-> clock + Lease]]
         /\ held' = [held EXCEPT ![n][j] = clock + Lease]
         /\ job' = [job EXCEPT ![n] = j]
  BY DEF Claim
<1>3. /\ pc' = [pc EXCEPT ![n] = "mark"]
      /\ UNCHANGED <<snap, leader, otherVars, stamp, copies, events, result, reply, chan,
                     proc, tool, runs, errors, calls>>
  BY DEF Claim, Goto
<1>4. j \in Jobs /\ copies[n][j] # None
  BY <1>1, CopyOf
<1>5. jobLease' \in [Jobs -> LeaseRow \cup {None}]
  <2>1. jobLease \in [Jobs -> LeaseRow \cup {None}]
    BY <1>1 DEF TypeOK
  <2> QED
    BY <1>1, <1>2, <2>1, SeedTypes
<1>6. held' \in [Nodes -> [Jobs -> Nat]]
  BY <1>1, <1>2, <1>4, SeedTypes DEF TypeOK
<1>7. /\ job' \in [Nodes -> Jobs \cup {None}] /\ job'[n] = j
      /\ pc' \in [Nodes -> Pcs] /\ pc'[n] = "mark" /\ Others(n)
  BY <1>1, <1>2, <1>3, <1>4 DEF TypeOK, Pcs, Others
<1>8. TypeOK'
  BY <1>1, <1>3, <1>5, <1>6, <1>7 DEF TypeOK, otherVars
<1>9. LoopHas(n)'
  BY <1>3, <1>4, <1>7 DEF LoopHas, Started
<1>10. ChannelHas(n)' /\ ProcHas(n)'
  BY <1>1, <1>3, ChannelStays
<1> QED
  BY <1>7, <1>8, <1>9, <1>10, OthersShape DEF Known, Shape

(* Skip: one copy less.                                                     *)
LEMMA SkipKnown ==
  ASSUME Known, NEW n \in Nodes, Skip(n)
  PROVE  Known'
<1>1. TypeOK /\ Shape(n) /\ pc[n] = "claim"
  BY DEF Known, Skip
<1>2. PICK j \in Oldest(n) :
         PutBack(n, j) /\ Goto(n, NextPoll(InHand(n) \ {j}, events[n]))
  BY DEF Skip
<1>3. UNCHANGED <<storeVars, otherVars, stamp, job, events, result, reply, held, chan,
                  proc, tool, runs, errors, calls>>
  BY DEF Skip
<1>4. j \in Jobs
  BY <1>1, CopyOf
<1>5. PICK where : where = NextPoll(InHand(n) \ {j}, events[n])
  OBVIOUS
<1>6. /\ where \in {"claim", "run", "wait"} /\ (where = "run" => events[n] # <<>>)
      /\ (where = "wait" => events[n] = <<>>)
  BY <1>5, NextPollWhere
<1>7. /\ copies' \in [Nodes -> [Jobs -> Snapshot \cup {None}]]
      /\ pc' \in [Nodes -> Pcs] /\ pc'[n] = where /\ Others(n)
  BY <1>1, <1>2, <1>3, <1>4, <1>5, <1>6 DEF TypeOK, Pcs, Others, PutBack, Goto
<1>8. TypeOK'
  BY <1>1, <1>3, <1>7 DEF TypeOK, otherVars, storeVars
<1>9. LoopHas(n)'
  BY <1>1, <1>3, <1>6, <1>7 DEF Shape, LoopHas, Started
<1>10. ChannelHas(n)' /\ ProcHas(n)'
  BY <1>1, <1>3, ChannelStays
<1> QED
  BY <1>7, <1>8, <1>9, <1>10, OthersShape DEF Known, Shape

(* Mark: the job in hand becomes an event.                                  *)
LEMMA MarkKnown ==
  ASSUME Known, NEW n \in Nodes, Mark(n)
  PROVE  Known'
<1>1. TypeOK /\ Shape(n) /\ pc[n] = "mark"
  BY DEF Known, Mark
<1>2. PICK j \in Jobs : j = job[n]
  BY <1>1 DEF Shape, LoopHas
<1>3. /\ snap' = [snap EXCEPT ![j] = [status |-> "Dispatched", lastRun |-> stamp[n], updated |-> stamp[n]]]
      /\ copies' = [copies EXCEPT ![n][j] = None]
      /\ events' = [events EXCEPT ![n] = Append(@, j)]
      /\ job' = [job EXCEPT ![n] = None]
      /\ pc' = [pc EXCEPT ![n] = NextPoll(InHand(n) \ {j}, events'[n])]
      /\ UNCHANGED <<jobLease, leader, otherVars, stamp, result, reply, held, chan, proc,
                     tool, runs, errors, calls>>
  BY <1>2 DEF Mark, Put, PutBack, Goto
<1>4. snap' \in [Jobs -> Snapshot \cup {None}]
  <2>1. [status |-> "Dispatched", lastRun |-> stamp[n], updated |-> stamp[n]] \in Snapshot
    BY <1>1, SeedTypes DEF Snapshot, Status
  <2> QED
    BY <1>1, <1>3, <2>1 DEF TypeOK
<1>5. /\ events' \in [Nodes -> Seq(Jobs)] /\ events'[n] # <<>>
  <2>1. events \in [Nodes -> Seq(Jobs)]
    BY <1>1 DEF TypeOK
  <2>2. Append(events[n], j) \in Seq(Jobs) /\ Append(events[n], j) # <<>>
    BY <2>1
  <2> QED
    BY <1>3, <2>1, <2>2
<1>6. PICK where : where = NextPoll(InHand(n) \ {j}, events'[n])
  OBVIOUS
<1>7. where \in {"claim", "run"}
  BY <1>5, <1>6, NextPollWhere
<1>8. /\ copies' \in [Nodes -> [Jobs -> Snapshot \cup {None}]]
      /\ job' \in [Nodes -> Jobs \cup {None}] /\ job'[n] = None
      /\ pc' \in [Nodes -> Pcs] /\ pc'[n] = where
  BY <1>1, <1>3, <1>6, <1>7 DEF TypeOK, Pcs
<1>9. Others(n)
  BY <1>1, <1>3 DEF TypeOK, Others
<1>10. TypeOK'
  BY <1>1, <1>3, <1>4, <1>5, <1>8 DEF TypeOK, otherVars
<1>11. LoopHas(n)'
  BY <1>5, <1>7, <1>8 DEF LoopHas, Started
<1>12. ChannelHas(n)' /\ ProcHas(n)'
  BY <1>1, <1>3, ChannelStays
<1> QED
  BY <1>9, <1>10, <1>11, <1>12, OthersShape DEF Known, Shape

(* PollError: nothing is in hand any more.                                  *)
LEMMA PollErrorKnown ==
  ASSUME Known, NEW n \in Nodes, PollError(n)
  PROVE  Known'
<1>1. TypeOK /\ Shape(n) /\ pc[n] \in {"list", "claim", "mark"}
  BY DEF Known, PollError
<1>2. /\ copies' = [copies EXCEPT ![n] = NoCopies] /\ job' = [job EXCEPT ![n] = None]
      /\ events' = [events EXCEPT ![n] = <<>>]
      /\ held' = [held EXCEPT ![n] = [j \in Jobs |-> 0]]
      /\ pc' = [pc EXCEPT ![n] = "wait"]
      /\ UNCHANGED <<storeVars, otherVars, stamp, result, reply, chan, proc, tool, runs, calls>>
  BY DEF PollError, Goto
<1>3. errors' \in 0..MaxErrors
  BY <1>1, FailsCounted DEF PollError, StoreFails
<1>4. /\ copies' \in [Nodes -> [Jobs -> Snapshot \cup {None}]]
      /\ job' \in [Nodes -> Jobs \cup {None}] /\ job'[n] = None
      /\ events' \in [Nodes -> Seq(Jobs)] /\ events'[n] = <<>>
      /\ held' \in [Nodes -> [Jobs -> Nat]]
      /\ pc' \in [Nodes -> Pcs] /\ pc'[n] = "wait"
  BY <1>1, <1>2 DEF TypeOK, Pcs, NoCopies
<1>5. Others(n)
  BY <1>1, <1>2 DEF TypeOK, Others
<1>6. TypeOK'
  BY <1>1, <1>2, <1>3, <1>4 DEF TypeOK, otherVars, storeVars
<1>7. LoopHas(n)'
  BY <1>4 DEF LoopHas, Started
<1>8. ChannelHas(n)' /\ ProcHas(n)'
  BY <1>1, <1>2, ChannelStays
<1> QED
  BY <1>5, <1>6, <1>7, <1>8, OthersShape DEF Known, Shape

(* The head of the events, and what is behind it.                           *)
LEMMA EventHead ==
  ASSUME TypeOK, NEW n \in Nodes, events[n] # <<>>
  PROVE  /\ Head(events[n]) \in Jobs /\ Head(events[n]) = events[n][1]
         /\ Tail(events[n]) \in Seq(Jobs)
         /\ Len(events[n]) \in Nat /\ Len(events[n]) >= 1
         /\ Len(Tail(events[n])) = Len(events[n]) - 1
         /\ \A i \in 1..(Len(events[n]) - 1) : Tail(events[n])[i] = events[n][i + 1]
<1>1. events[n] \in Seq(Jobs)
  BY DEF TypeOK
<1> QED
  BY <1>1

(* Execute: the head of the events is begun.                                *)
LEMMA ExecuteKnown ==
  ASSUME Known, NEW n \in Nodes, Execute(n)
  PROVE  Known'
<1>1. TypeOK /\ Shape(n) /\ pc[n] = "run" /\ events[n] # <<>>
  BY DEF Known, Execute, Shape, LoopHas
<1>2. PICK j \in Jobs : j = Head(events[n])
  BY <1>1, EventHead
<1>3. /\ runs' = [runs EXCEPT ![j] = IF @ < MaxRuns THEN @ + 1 ELSE @]
      /\ pc' = [pc EXCEPT ![n] = "exec"]
      /\ UNCHANGED <<storeVars, otherVars, stamp, copies, job, events, result, reply, held,
                     chan, proc, tool, errors, calls>>
  BY <1>2 DEF Execute, Goto
<1>4. runs' \in [Jobs -> 0..MaxRuns]
  BY <1>1, <1>3 DEF TypeOK, MaxRuns
<1>5. pc' \in [Nodes -> Pcs] /\ pc'[n] = "exec" /\ Others(n)
  BY <1>1, <1>3 DEF TypeOK, Pcs, Others
<1>6. TypeOK'
  BY <1>1, <1>3, <1>4, <1>5 DEF TypeOK, otherVars, storeVars
<1>7. LoopHas(n)'
  BY <1>1, <1>3, <1>5 DEF Shape, LoopHas, Started
<1>8. ChannelHas(n)' /\ ProcHas(n)'
  BY <1>1, <1>3, ChannelStays
<1> QED
  BY <1>5, <1>6, <1>7, <1>8, OthersShape DEF Known, Shape

(* Finish: it has a result.                                                 *)
LEMMA FinishKnown ==
  ASSUME Known, NEW n \in Nodes, Finish(n)
  PROVE  Known'
<1>1. TypeOK /\ Shape(n) /\ pc[n] = "exec"
  BY DEF Known, Finish
<1>2. PICK r \in Outcomes : result' = [result EXCEPT ![n] = r]
  BY DEF Finish
<1>3. /\ pc' = [pc EXCEPT ![n] = "report"]
      /\ UNCHANGED <<storeVars, otherVars, stamp, copies, job, events, reply, held, chan,
                     proc, tool, runs, errors, calls>>
  BY DEF Finish, Goto
<1>4. result' \in [Nodes -> Settled \cup {None}] /\ result'[n] \in Settled
  BY <1>1, <1>2, JobAssumption DEF TypeOK
<1>5. pc' \in [Nodes -> Pcs] /\ pc'[n] = "report" /\ Others(n)
  BY <1>1, <1>2, <1>3 DEF TypeOK, Pcs, Others
<1>6. TypeOK'
  BY <1>1, <1>3, <1>4, <1>5 DEF TypeOK, otherVars, storeVars
<1>7. LoopHas(n)'
  BY <1>1, <1>3, <1>4, <1>5 DEF Shape, LoopHas, Started
<1>8. ChannelHas(n)' /\ ProcHas(n)'
  BY <1>1, <1>3, ChannelStays
<1> QED
  BY <1>5, <1>6, <1>7, <1>8, OthersShape DEF Known, Shape

(* A command that is sent goes to the end of the channel.                   *)
LEMMA Sent ==
  ASSUME TypeOK, NEW n \in Nodes, NEW cmd \in Command, Send(n, cmd)
  PROVE  /\ chan' \in [Nodes -> Seq(Command)] /\ \A m \in Nodes : Len(chan'[m]) <= ChanCap
         /\ \A m \in Nodes : m # n => chan'[m] = chan[m]
         /\ Len(chan'[n]) = Len(chan[n]) + 1 /\ Len(chan[n]) \in Nat
         /\ chan'[n][Len(chan[n]) + 1] = cmd
         /\ \A i \in 1..Len(chan[n]) : chan'[n][i] = chan[n][i]
<1>1. /\ chan \in [Nodes -> Seq(Command)] /\ \A m \in Nodes : Len(chan[m]) <= ChanCap
      /\ Len(chan[n]) < ChanCap /\ chan' = [chan EXCEPT ![n] = Append(@, cmd)]
      /\ ChanCap \in Nat
  BY BoundAssumption DEF TypeOK, Send
<1>2. chan[n] \in Seq(Command)
  BY <1>1
<1>3. /\ Append(chan[n], cmd) \in Seq(Command) /\ Len(Append(chan[n], cmd)) = Len(chan[n]) + 1
      /\ Len(chan[n]) \in Nat /\ Append(chan[n], cmd)[Len(chan[n]) + 1] = cmd
      /\ \A i \in 1..Len(chan[n]) : Append(chan[n], cmd)[i] = chan[n][i]
  BY <1>2
<1>4. chan'[n] = Append(chan[n], cmd) /\ \A m \in Nodes : m # n => chan'[m] = chan[m]
  BY <1>1
<1>5. chan' \in [Nodes -> Seq(Command)]
  BY <1>1, <1>3
<1>6. Len(chan'[n]) <= ChanCap
  BY <1>1, <1>3, <1>4
<1>7. \A m \in Nodes : Len(chan'[m]) <= ChanCap
  BY <1>1, <1>4, <1>6
<1> QED
  BY <1>3, <1>4, <1>5, <1>7

(* What such a channel has.                                                 *)
LEMMA ChannelGrows ==
  ASSUME NEW n \in Nodes, Shape(n), NEW cmd,
         Len(chan'[n]) = Len(chan[n]) + 1, Len(chan[n]) \in Nat,
         chan'[n][Len(chan[n]) + 1] = cmd,
         \A i \in 1..Len(chan[n]) : chan'[n][i] = chan[n][i],
         events'[n] = events[n], pc'[n] \in {"ask", "reply"} \/ pc'[n] = pc[n],
         pc[n] = "reply" => pc'[n] = "reply",
         cmd.op = "List" => pc'[n] = "reply" /\ pc[n] # "reply" /\ cmd.job = Head(events[n]),
         cmd.op = "UpdateStatus" =>
           pc'[n] \in {"ask", "reply"} /\ pc[n] # "reply" /\ cmd.job = Head(events[n])
  PROVE  ChannelHas(n)'
<1>1. ChannelHas(n)
  BY DEF Shape
<1>2. ASSUME NEW i \in 1..Len(chan'[n]) PROVE i \in 1..Len(chan[n]) \/ i = Len(chan[n]) + 1
  OBVIOUS
<1>3. ASSUME NEW i \in 1..Len(chan'[n]) PROVE Commanded(n, chan[n][i])'
  <2>1. CASE i \in 1..Len(chan[n])
    BY <1>1, <2>1 DEF ChannelHas, Commanded
  <2>2. CASE i = Len(chan[n]) + 1
    BY <2>2 DEF Commanded
  <2> QED
    BY <1>2, <2>1, <2>2
<1>4. ASSUME NEW i \in 1..Len(chan'[n]), NEW k \in 1..Len(chan'[n]), i < k, chan'[n][i].op = "List"
      PROVE  chan'[n][k].op \notin {"List", "UpdateStatus"}
  <2>1. i \in 1..Len(chan[n]) /\ chan[n][i].op = "List"
    BY <1>2, <1>4
  <2>2. pc[n] = "reply"
    BY <1>1, <2>1 DEF ChannelHas, Commanded
  <2>3. CASE k \in 1..Len(chan[n])
    BY <1>1, <1>4, <2>1, <2>3 DEF ChannelHas
  <2>4. CASE k = Len(chan[n]) + 1
    BY <2>2, <2>4
  <2> QED
    BY <1>2, <2>3, <2>4
<1> QED
  BY <1>3, <1>4 DEF ChannelHas

(* Report: its status is at the end of the channel, and no question before  *)
(* it.                                                                      *)
LEMMA ReportKnown ==
  ASSUME Known, NEW n \in Nodes, Report(n)
  PROVE  Known'
<1>1. TypeOK /\ Shape(n) /\ pc[n] = "report" /\ events[n] # <<>> /\ result[n] \in Settled
  BY DEF Known, Report, Shape, LoopHas, Started
<1>2. PICK cmd : cmd = [op |-> "UpdateStatus", job |-> Head(events[n]), status |-> result[n], at |-> clock]
  OBVIOUS
<1>3. cmd \in Command /\ cmd.op = "UpdateStatus" /\ cmd.job = Head(events[n])
  BY <1>1, <1>2, EventHead, SeedTypes DEF Command
<1>4. /\ Send(n, cmd) /\ result' = [result EXCEPT ![n] = None] /\ pc' = [pc EXCEPT ![n] = "ask"]
      /\ UNCHANGED <<storeVars, otherVars, stamp, copies, job, events, reply, held, proc,
                     tool, runs, errors, calls>>
  BY <1>2 DEF Report, Goto
<1>5. /\ chan' \in [Nodes -> Seq(Command)] /\ \A m \in Nodes : Len(chan'[m]) <= ChanCap
      /\ \A m \in Nodes : m # n => chan'[m] = chan[m]
      /\ Len(chan'[n]) = Len(chan[n]) + 1 /\ Len(chan[n]) \in Nat
      /\ chan'[n][Len(chan[n]) + 1] = cmd
      /\ \A i \in 1..Len(chan[n]) : chan'[n][i] = chan[n][i]
  BY <1>1, <1>3, <1>4, Sent
<1>6. /\ result' \in [Nodes -> Settled \cup {None}]
      /\ pc' \in [Nodes -> Pcs] /\ pc'[n] = "ask" /\ Others(n)
  BY <1>1, <1>4, <1>5 DEF TypeOK, Pcs, Others
<1>7. TypeOK'
  BY <1>1, <1>4, <1>5, <1>6 DEF TypeOK, otherVars, storeVars
<1>8. LoopHas(n)'
  BY <1>1, <1>4, <1>6 DEF Shape, LoopHas, Started
<1>9. ProcHas(n)'
  BY <1>1, <1>4, <1>6 DEF Shape, ProcHas
<1>10. events'[n] = events[n]
  BY <1>4
<1>11. ChannelHas(n)'
  BY <1>1, <1>3, <1>5, <1>6, <1>10, ChannelGrows
<1> QED
  BY <1>6, <1>7, <1>8, <1>9, <1>11, OthersShape DEF Known, Shape

(* Ask: the question comes after the status.                                *)
LEMMA AskKnown ==
  ASSUME Known, NEW n \in Nodes, Ask(n)
  PROVE  Known'
<1>1. TypeOK /\ Shape(n) /\ pc[n] = "ask" /\ events[n] # <<>>
  BY DEF Known, Ask, Shape, LoopHas, Started
<1>2. PICK cmd : cmd = [op |-> "List", job |-> Head(events[n])]
  OBVIOUS
<1>3. cmd \in Command /\ cmd.op = "List" /\ cmd.job = Head(events[n])
  BY <1>1, <1>2, EventHead DEF Command
<1>4. /\ Send(n, cmd) /\ pc' = [pc EXCEPT ![n] = "reply"]
      /\ UNCHANGED <<storeVars, otherVars, stamp, copies, job, events, result, reply, held,
                     proc, tool, runs, errors, calls>>
  BY <1>2 DEF Ask, Goto
<1>5. /\ chan' \in [Nodes -> Seq(Command)] /\ \A m \in Nodes : Len(chan'[m]) <= ChanCap
      /\ \A m \in Nodes : m # n => chan'[m] = chan[m]
      /\ Len(chan'[n]) = Len(chan[n]) + 1 /\ Len(chan[n]) \in Nat
      /\ chan'[n][Len(chan[n]) + 1] = cmd
      /\ \A i \in 1..Len(chan[n]) : chan'[n][i] = chan[n][i]
  BY <1>1, <1>3, <1>4, Sent
<1>6. /\ pc' \in [Nodes -> Pcs] /\ pc'[n] = "reply" /\ Others(n)
  BY <1>1, <1>4, <1>5 DEF TypeOK, Pcs, Others
<1>7. TypeOK'
  BY <1>1, <1>4, <1>5, <1>6 DEF TypeOK, otherVars, storeVars
<1>8. LoopHas(n)'
  BY <1>1, <1>4, <1>6 DEF Shape, LoopHas, Started
<1>9. ProcHas(n)'
  BY <1>1, <1>4, <1>6 DEF Shape, ProcHas
<1>10. events'[n] = events[n]
  BY <1>4
<1>11. ChannelHas(n)'
  BY <1>1, <1>3, <1>5, <1>6, <1>10, ChannelGrows
<1> QED
  BY <1>6, <1>7, <1>8, <1>9, <1>11, OthersShape DEF Known, Shape

(* Persist and its failure: the answer is used up.                          *)
LEMMA PersistKnown ==
  ASSUME Known, NEW n \in Nodes, Persist(n) \/ PersistError(n)
  PROVE  Known'
<1>1. TypeOK /\ Shape(n) /\ pc[n] = "persist" /\ events[n] # <<>>
  BY DEF Known, Persist, PersistError, Shape, LoopHas, Started
<1>2. /\ reply' = [reply EXCEPT ![n] = None] /\ pc' = [pc EXCEPT ![n] = "release"]
      /\ UNCHANGED <<jobLease, leader, otherVars, stamp, copies, job, events, result, held,
                     chan, proc, tool, runs, calls>>
  BY DEF Persist, PersistError, Goto, storeVars
<1>3. errors' \in 0..MaxErrors
  BY <1>1, FailsCounted DEF Persist, PersistError, StoreFails, TypeOK
<1>4. snap' \in [Jobs -> Snapshot \cup {None}]
  <2>1. /\ snap \in [Jobs -> Snapshot \cup {None}] /\ Head(events[n]) \in Jobs
        /\ reply[n] \in Snapshot \cup {None}
    BY <1>1, EventHead DEF TypeOK
  <2>2. CASE snap' = snap
    BY <2>1, <2>2
  <2>3. CASE reply[n] # None /\ snap' = [snap EXCEPT ![Head(events[n])] = [reply[n] EXCEPT !.updated = clock]]
    <3>1. [reply[n] EXCEPT !.updated = clock] \in Snapshot
      BY <1>1, <2>1, <2>3, SeedTypes DEF Snapshot
    <3> QED
      BY <2>1, <2>3, <3>1
  <2> QED
    BY <2>2, <2>3 DEF Persist, PersistError, Put, storeVars
<1>5. /\ reply' \in [Nodes -> Snapshot \cup {None}]
      /\ pc' \in [Nodes -> Pcs] /\ pc'[n] = "release" /\ Others(n)
  BY <1>1, <1>2 DEF TypeOK, Pcs, Others
<1>6. TypeOK'
  BY <1>1, <1>2, <1>3, <1>4, <1>5 DEF TypeOK, otherVars
<1>7. LoopHas(n)'
  BY <1>1, <1>2, <1>5 DEF Shape, LoopHas, Started
<1>8. ChannelHas(n)' /\ ProcHas(n)'
  BY <1>1, <1>2, ChannelStays
<1> QED
  BY <1>5, <1>6, <1>7, <1>8, OthersShape DEF Known, Shape

(* Release and its failure: the next event, or the next poll.               *)
LEMMA ReleaseKnown ==
  ASSUME Known, NEW n \in Nodes, Release(n) \/ ReleaseError(n)
  PROVE  Known'
<1>1. TypeOK /\ Shape(n) /\ pc[n] = "release" /\ events[n] # <<>>
  BY DEF Known, Release, ReleaseError, Shape, LoopHas, Started
<1>2. PICK j \in Jobs : j = Head(events[n])
  BY <1>1, EventHead
<1>3. /\ events' = [events EXCEPT ![n] = Tail(@)] /\ held' = [held EXCEPT ![n][j] = 0]
      /\ pc' = [pc EXCEPT ![n] = NextPoll({}, Tail(events[n]))]
      /\ UNCHANGED <<snap, leader, otherVars, stamp, copies, job, result, reply, chan, proc,
                     tool, runs, calls>>
  BY <1>2 DEF Release, ReleaseError, NextEvent, Goto, storeVars
<1>4. errors' \in 0..MaxErrors
  BY <1>1, FailsCounted DEF Release, ReleaseError, StoreFails, TypeOK
<1>5. jobLease' \in [Jobs -> LeaseRow \cup {None}]
  <2>1. jobLease \in [Jobs -> LeaseRow \cup {None}]
    BY <1>1 DEF TypeOK
  <2>2. \/ jobLease' = jobLease
        \/ jobLease' = [jobLease EXCEPT ![j] = IF @ # None /\ @.worker = WorkerId(n) THEN None ELSE @]
    BY <1>2 DEF Release, ReleaseError, storeVars
  <2> QED
    BY <2>1, <2>2
<1>6. PICK where : where = NextPoll({}, Tail(events[n]))
  OBVIOUS
<1>7. /\ where \in {"run", "wait"} /\ (where = "run" => Tail(events[n]) # <<>>)
      /\ (where = "wait" => Tail(events[n]) = <<>>)
  BY <1>6 DEF NextPoll
<1>8. /\ events' \in [Nodes -> Seq(Jobs)] /\ events'[n] = Tail(events[n])
      /\ held' \in [Nodes -> [Jobs -> Nat]]
      /\ pc' \in [Nodes -> Pcs] /\ pc'[n] = where
  BY <1>1, <1>3, <1>6, <1>7, EventHead DEF TypeOK, Pcs
<1>9. Others(n)
  BY <1>1, <1>3 DEF TypeOK, Others
<1>10. TypeOK'
  BY <1>1, <1>3, <1>4, <1>5, <1>8 DEF TypeOK, otherVars
<1>11. LoopHas(n)'
  BY <1>1, <1>3, <1>7, <1>8 DEF Shape, LoopHas, Started
<1>12. ChannelHas(n)' /\ ProcHas(n)'
  BY <1>1, <1>3, ChannelStays
<1> QED
  BY <1>9, <1>10, <1>11, <1>12, OthersShape DEF Known, Shape

(* The processor takes the head of the channel.                             *)
LEMMA Received ==
  ASSUME TypeOK, NEW n \in Nodes, NEW op, Receive(n, op)
  PROVE  /\ pc[n] # "down" /\ proc[n] = None
         /\ Head(chan[n]) \in Command /\ Head(chan[n]).op = op
         /\ Len(chan[n]) \in Nat /\ 1 \in 1..Len(chan[n]) /\ Head(chan[n]) = chan[n][1]
         /\ chan' \in [Nodes -> Seq(Command)] /\ \A m \in Nodes : Len(chan'[m]) <= ChanCap
         /\ \A m \in Nodes : m # n => chan'[m] = chan[m]
         /\ \A i \in 1..Len(chan'[n]) : i + 1 \in 1..Len(chan[n]) /\ chan'[n][i] = chan[n][i + 1]
<1>1. /\ chan \in [Nodes -> Seq(Command)] /\ \A m \in Nodes : Len(chan[m]) <= ChanCap
      /\ pc[n] # "down" /\ proc[n] = None /\ chan[n] # <<>> /\ Head(chan[n]).op = op
      /\ chan' = [chan EXCEPT ![n] = Tail(@)] /\ ChanCap \in Nat
  BY BoundAssumption DEF TypeOK, Receive
<1>2. chan[n] \in Seq(Command)
  BY <1>1
<1>3. /\ Head(chan[n]) \in Command /\ Head(chan[n]) = chan[n][1] /\ Len(chan[n]) \in Nat
      /\ Len(chan[n]) >= 1
      /\ Tail(chan[n]) \in Seq(Command) /\ Len(Tail(chan[n])) = Len(chan[n]) - 1
      /\ \A i \in 1..(Len(chan[n]) - 1) : Tail(chan[n])[i] = chan[n][i + 1]
  BY <1>1, <1>2
<1>4. chan'[n] = Tail(chan[n]) /\ \A m \in Nodes : m # n => chan'[m] = chan[m]
  BY <1>1
<1>5. chan' \in [Nodes -> Seq(Command)]
  BY <1>1, <1>3
<1>6. Len(chan'[n]) <= ChanCap
  BY <1>1, <1>3, <1>4
<1>7. \A m \in Nodes : Len(chan'[m]) <= ChanCap
  BY <1>1, <1>4, <1>6
<1>8. ASSUME NEW i \in 1..Len(chan'[n])
      PROVE  i + 1 \in 1..Len(chan[n]) /\ chan'[n][i] = chan[n][i + 1]
  BY <1>3, <1>4
<1> QED
  BY <1>1, <1>3, <1>4, <1>5, <1>7, <1>8

(* What the rest of the channel has, and why its head was there.            *)
LEMMA ChannelShrinks ==
  ASSUME Known, NEW n \in Nodes, NEW op, Receive(n, op), events'[n] = events[n],
         op # "List" => pc'[n] = pc[n]
  PROVE  ChannelHas(n)' /\ Commanded(n, Head(chan[n]))
<1>1. TypeOK /\ ChannelHas(n)
  BY DEF Known, Shape
<1>2. /\ 1 \in 1..Len(chan[n]) /\ Len(chan[n]) \in Nat /\ Head(chan[n]) = chan[n][1]
      /\ chan[n][1].op = op
      /\ \A i \in 1..Len(chan'[n]) : i + 1 \in 1..Len(chan[n]) /\ chan'[n][i] = chan[n][i + 1]
  BY <1>1, Received
<1>3. Commanded(n, Head(chan[n]))
  BY <1>1, <1>2 DEF ChannelHas
<1>4. ASSUME NEW i \in 1..Len(chan'[n]) PROVE Commanded(n, chan[n][i])'
  <2>1. i + 1 \in 1..Len(chan[n]) /\ chan'[n][i] = chan[n][i + 1] /\ 1 < i + 1
    BY <1>2
  <2>2. Commanded(n, chan[n][i + 1])
    BY <1>1, <2>1 DEF ChannelHas
  <2>3. CASE op # "List"
    BY <2>1, <2>2, <2>3 DEF Commanded
  <2>4. CASE op = "List"
    <3>1. chan'[n][i].op \notin {"List", "UpdateStatus"}
      BY <1>1, <1>2, <2>1, <2>4 DEF ChannelHas
    <3> QED
      BY <3>1 DEF Commanded
  <2> QED
    BY <2>3, <2>4
<1>5. ASSUME NEW i \in 1..Len(chan'[n]), NEW k \in 1..Len(chan'[n]), i < k, chan'[n][i].op = "List"
      PROVE  chan'[n][k].op \notin {"List", "UpdateStatus"}
  <2>1. /\ i + 1 \in 1..Len(chan[n]) /\ chan'[n][i] = chan[n][i + 1]
        /\ k + 1 \in 1..Len(chan[n]) /\ chan'[n][k] = chan[n][k + 1] /\ i + 1 < k + 1
    BY <1>2, <1>5
  <2> QED
    BY <1>1, <1>5, <2>1 DEF ChannelHas
<1> QED
  BY <1>3, <1>4, <1>5 DEF ChannelHas

(* HandleAdd: a fresh snapshot.                                             *)
LEMMA HandleAddKnown ==
  ASSUME Known, NEW n \in Nodes, HandleAdd(n)
  PROVE  Known'
<1>1. TypeOK /\ Shape(n) /\ Receive(n, "Add")
  BY DEF Known, HandleAdd
<1>2. PICK j : j = Head(chan[n]).job
  OBVIOUS
<1>3. /\ snap' = [snap EXCEPT ![j] = Fresh(clock)]
      /\ UNCHANGED <<jobLease, leader, otherVars, loopVars, proc, tool, runs, errors, calls>>
  BY <1>2 DEF HandleAdd, Put
<1>4. /\ pc[n] # "down" /\ chan' \in [Nodes -> Seq(Command)]
      /\ \A m \in Nodes : Len(chan'[m]) <= ChanCap
      /\ \A m \in Nodes : m # n => chan'[m] = chan[m]
  BY <1>1, Received
<1>5. snap' \in [Jobs -> Snapshot \cup {None}] /\ Others(n)
  BY <1>1, <1>3, <1>4, SeedTypes DEF TypeOK, Others, loopVars
<1>6. TypeOK'
  BY <1>1, <1>3, <1>4, <1>5 DEF TypeOK, otherVars, loopVars
<1>7. LoopHas(n)' /\ ProcHas(n)'
  BY <1>1, <1>3, <1>4 DEF Shape, LoopHas, ProcHas, loopVars
<1>8. ChannelHas(n)'
  BY <1>1, <1>3, ChannelShrinks DEF loopVars
<1> QED
  BY <1>5, <1>6, <1>7, <1>8, OthersShape DEF Known, Shape

(* HandleRemove: the snapshot goes, the lease is still to be cleared.       *)
LEMMA HandleRemoveKnown ==
  ASSUME Known, NEW n \in Nodes, HandleRemove(n)
  PROVE  Known'
<1>1. TypeOK /\ Shape(n) /\ Receive(n, "Remove")
  BY DEF Known, HandleRemove
<1>2. PICK j : j = Head(chan[n]).job
  OBVIOUS
<1>3. /\ snap' = [snap EXCEPT ![j] = None]
      /\ proc' = [proc EXCEPT ![n] = [op |-> "clear", job |-> j]]
      /\ UNCHANGED <<jobLease, leader, otherVars, loopVars, tool, runs, errors, calls>>
  BY <1>2 DEF HandleRemove, Put
<1>4. /\ pc[n] # "down" /\ chan' \in [Nodes -> Seq(Command)] /\ Head(chan[n]) \in Command
      /\ \A m \in Nodes : Len(chan'[m]) <= ChanCap
      /\ \A m \in Nodes : m # n => chan'[m] = chan[m]
  BY <1>1, Received
<1>5. j \in Jobs
  BY <1>2, <1>4 DEF Command
<1>6. /\ snap' \in [Jobs -> Snapshot \cup {None}] /\ Others(n)
      /\ proc' \in [Nodes -> [op : {"write"}, job : Jobs, snap : Snapshot]
                              \cup [op : {"clear"}, job : Jobs] \cup {None}]
      /\ proc'[n] = [op |-> "clear", job |-> j]
  BY <1>1, <1>3, <1>4, <1>5 DEF TypeOK, Others, loopVars
<1>7. TypeOK'
  BY <1>1, <1>3, <1>4, <1>6 DEF TypeOK, otherVars, loopVars
<1>8. LoopHas(n)'
  BY <1>1, <1>3, <1>4 DEF Shape, LoopHas, loopVars
<1>9. ProcHas(n)'
  BY <1>6 DEF ProcHas
<1>10. ChannelHas(n)'
  BY <1>1, <1>3, ChannelShrinks DEF loopVars
<1> QED
  BY <1>6, <1>7, <1>8, <1>9, <1>10, OthersShape DEF Known, Shape

(* HandleUpdate: what the processor is to write is about the event the loop *)
(* is at.                                                                   *)
LEMMA HandleUpdateKnown ==
  ASSUME Known, NEW n \in Nodes, HandleUpdate(n)
  PROVE  Known'
<1>1. TypeOK /\ Shape(n) /\ Receive(n, "UpdateStatus")
  BY DEF Known, HandleUpdate
<1>2. PICK cmd : cmd = Head(chan[n])
  OBVIOUS
<1>3. UNCHANGED <<storeVars, otherVars, loopVars, tool, runs, errors, calls>>
  BY DEF HandleUpdate
<1>4. /\ pc[n] # "down" /\ chan' \in [Nodes -> Seq(Command)]
      /\ cmd \in Command /\ cmd.op = "UpdateStatus"
      /\ \A m \in Nodes : Len(chan'[m]) <= ChanCap
      /\ \A m \in Nodes : m # n => chan'[m] = chan[m]
  BY <1>1, <1>2, Received
<1>5. cmd.job \in Jobs /\ cmd.status \in Settled /\ cmd.at \in Times
  BY <1>4 DEF Command
<1>6. ChannelHas(n)' /\ Commanded(n, cmd)
  BY <1>1, <1>2, <1>3, ChannelShrinks DEF loopVars
<1>7. pc[n] \in {"ask", "reply"} /\ cmd.job = Head(events[n])
  BY <1>4, <1>6 DEF Commanded
<1>8. PICK s : s = snap[cmd.job]
  OBVIOUS
<1>9. s \in Snapshot \cup {None}
  BY <1>1, <1>5, <1>8 DEF TypeOK
<1>10. PICK p : p = IF s = None THEN None ELSE
                [op |-> "write", job |-> cmd.job,
                 snap |-> [s EXCEPT !.status = cmd.status, !.updated = cmd.at]]
  OBVIOUS
<1>11. proc' = [proc EXCEPT ![n] = p]
  BY <1>2, <1>8, <1>10 DEF HandleUpdate
<1>12. /\ p \in [op : {"write"}, job : Jobs, snap : Snapshot] \cup {None}
       /\ p # None => p.job = cmd.job /\ p.snap.status = cmd.status
  <2>1. CASE s = None
    BY <1>10, <2>1
  <2>2. CASE s # None
    <3>1. /\ [s EXCEPT !.status = cmd.status, !.updated = cmd.at] \in Snapshot
          /\ [s EXCEPT !.status = cmd.status, !.updated = cmd.at].status = cmd.status
      BY <1>5, <1>9, <2>2 DEF Snapshot, Status
    <3> QED
      BY <1>5, <1>10, <2>2, <3>1
  <2> QED
    BY <2>1, <2>2
<1>13. /\ proc' \in [Nodes -> [op : {"write"}, job : Jobs, snap : Snapshot]
                              \cup [op : {"clear"}, job : Jobs] \cup {None}]
       /\ proc'[n] = p /\ Others(n)
  BY <1>1, <1>3, <1>4, <1>11, <1>12 DEF TypeOK, Others, loopVars
<1>14. TypeOK'
  BY <1>1, <1>3, <1>4, <1>13 DEF TypeOK, otherVars, loopVars, storeVars
<1>15. LoopHas(n)'
  BY <1>1, <1>3, <1>4 DEF Shape, LoopHas, loopVars
<1>16. ProcHas(n)'
  BY <1>3, <1>5, <1>7, <1>12, <1>13 DEF ProcHas, loopVars
<1> QED
  BY <1>6, <1>13, <1>14, <1>15, <1>16, OthersShape DEF Known, Shape

(* The loop has its answer.                                                 *)
LEMMA Answered ==
  ASSUME Known, NEW n \in Nodes, NEW s \in Snapshot \cup {None}, Receive(n, "List"), Answer(n, s),
         proc' = proc \/ proc' = [proc EXCEPT ![n] = None],
         UNCHANGED <<storeVars, otherVars, tool, runs, calls>>, errors' \in 0..MaxErrors
  PROVE  Known'
<1>1. TypeOK /\ Shape(n)
  BY DEF Known
<1>2. /\ reply' = [reply EXCEPT ![n] = s] /\ pc' = [pc EXCEPT ![n] = "persist"]
      /\ UNCHANGED <<stamp, copies, job, events, result, held>>
  BY DEF Answer, Goto
<1>3. /\ pc[n] # "down" /\ proc[n] = None /\ chan' \in [Nodes -> Seq(Command)]
      /\ Head(chan[n]).op = "List"
      /\ \A m \in Nodes : Len(chan'[m]) <= ChanCap
      /\ \A m \in Nodes : m # n => chan'[m] = chan[m]
  BY <1>1, Received
<1>4. ChannelHas(n)' /\ Commanded(n, Head(chan[n]))
  BY <1>2, ChannelShrinks
<1>5. pc[n] = "reply"
  BY <1>3, <1>4 DEF Commanded
<1>6. /\ reply' \in [Nodes -> Snapshot \cup {None}]
      /\ pc' \in [Nodes -> Pcs] /\ pc'[n] = "persist"
      /\ proc' \in [Nodes -> [op : {"write"}, job : Jobs, snap : Snapshot]
                              \cup [op : {"clear"}, job : Jobs] \cup {None}]
      /\ proc'[n] = None /\ Others(n)
  BY <1>1, <1>2, <1>3 DEF TypeOK, Pcs, Others
<1>7. TypeOK'
  BY <1>1, <1>2, <1>3, <1>6 DEF TypeOK, otherVars, storeVars
<1>8. LoopHas(n)'
  BY <1>1, <1>2, <1>5, <1>6 DEF Shape, LoopHas, Started
<1>9. ProcHas(n)'
  BY <1>6 DEF ProcHas
<1> QED
  BY <1>4, <1>6, <1>7, <1>8, <1>9, OthersShape DEF Known, Shape

(* HandleList: the answer is what the store has.                            *)
LEMMA HandleListKnown ==
  ASSUME Known, NEW n \in Nodes, HandleList(n)
  PROVE  Known'
<1>1. TypeOK /\ Receive(n, "List")
  BY DEF Known, HandleList
<1>2. Head(chan[n]) \in Command
  BY <1>1, Received
<1>3. Head(chan[n]).job \in Jobs
  BY <1>2 DEF Command
<1>4. PICK s \in Snapshot \cup {None} : s = snap[Head(chan[n]).job]
  BY <1>1, <1>3 DEF TypeOK
<1>5. Answer(n, s) /\ UNCHANGED <<storeVars, otherVars, proc, tool, runs, errors, calls>>
  BY <1>4 DEF HandleList
<1>6. errors' \in 0..MaxErrors
  BY <1>1, <1>5 DEF TypeOK
<1> QED
  BY <1>1, <1>5, <1>6, Answered

(* HandleError: the command is gone all the same.                           *)
LEMMA HandleErrorKnown ==
  ASSUME Known, NEW n \in Nodes, HandleError(n)
  PROVE  Known'
<1>1. TypeOK /\ Shape(n)
  BY DEF Known
<1>2. PICK cmd : cmd = Head(chan[n])
  OBVIOUS
<1>3. PICK op \in {"Add", "Remove", "UpdateStatus", "List"} : Receive(n, op)
  BY DEF HandleError
<1>4. /\ proc' = [proc EXCEPT ![n] = IF cmd.op = "Remove"
                                     THEN [op |-> "clear", job |-> cmd.job] ELSE None]
      /\ UNCHANGED <<storeVars, otherVars, tool, runs, calls>>
      /\ cmd.op = "List" => Answer(n, None)
      /\ cmd.op # "List" => UNCHANGED loopVars
  BY <1>2 DEF HandleError
<1>5. errors' \in 0..MaxErrors
  BY <1>1, FailsCounted DEF HandleError, StoreFails
<1>6. /\ pc[n] # "down" /\ proc[n] = None /\ chan' \in [Nodes -> Seq(Command)]
      /\ cmd \in Command /\ cmd.op = op
      /\ \A m \in Nodes : Len(chan'[m]) <= ChanCap
      /\ \A m \in Nodes : m # n => chan'[m] = chan[m]
  BY <1>1, <1>2, <1>3, Received
<1>7. CASE op = "List"
  <2>1. proc' = [proc EXCEPT ![n] = None] /\ Answer(n, None) /\ Receive(n, "List")
    BY <1>3, <1>4, <1>6, <1>7
  <2> QED
    BY <1>4, <1>5, <2>1, Answered
<1>8. CASE op # "List"
  <2>1. UNCHANGED loopVars /\ cmd.job \in Jobs
    BY <1>4, <1>6, <1>8 DEF Command
  <2>2. /\ proc' \in [Nodes -> [op : {"write"}, job : Jobs, snap : Snapshot]
                                \cup [op : {"clear"}, job : Jobs] \cup {None}]
        /\ proc'[n] # None => proc'[n].op = "clear"
        /\ Others(n)
    BY <1>1, <1>4, <1>6, <2>1 DEF TypeOK, Others, loopVars
  <2>3. TypeOK'
    BY <1>1, <1>4, <1>5, <1>6, <2>1, <2>2 DEF TypeOK, otherVars, loopVars, storeVars
  <2>4. LoopHas(n)'
    BY <1>1, <1>4, <1>6, <2>1 DEF Shape, LoopHas, loopVars
  <2>5. ProcHas(n)'
    BY <2>2 DEF ProcHas
  <2>6. ChannelHas(n)'
    BY <1>3, <1>8, <2>1, ChannelShrinks DEF loopVars
  <2> QED
    BY <2>2, <2>3, <2>4, <2>5, <2>6, OthersShape DEF Known, Shape
<1> QED
  BY <1>7, <1>8

(* The processor is ready for the next command.                             *)
LEMMA ProcDone ==
  ASSUME Known, NEW n \in Nodes, proc' = [proc EXCEPT ![n] = None],
         snap' \in [Jobs -> Snapshot \cup {None}], jobLease' \in [Jobs -> LeaseRow \cup {None}],
         UNCHANGED <<leader, otherVars, loopVars, chan, tool, runs, calls>>,
         errors' \in 0..MaxErrors
  PROVE  Known'
<1>1. TypeOK /\ Shape(n)
  BY DEF Known
<1>2. /\ proc' \in [Nodes -> [op : {"write"}, job : Jobs, snap : Snapshot]
                              \cup [op : {"clear"}, job : Jobs] \cup {None}]
      /\ proc'[n] = None /\ Others(n)
  BY <1>1 DEF TypeOK, Others, loopVars
<1>3. TypeOK'
  BY <1>1, <1>2 DEF TypeOK, otherVars, loopVars
<1>4. LoopHas(n)' /\ ProcHas(n)'
  BY <1>1, <1>2 DEF Shape, LoopHas, ProcHas, loopVars
<1>5. ChannelHas(n)'
  BY <1>1 DEF Shape, ChannelHas, Commanded, loopVars
<1> QED
  BY <1>2, <1>3, <1>4, <1>5, OthersShape DEF Known, Shape

(* ProcWrite, ProcClear and ProcError.                                      *)
LEMMA ProcStepsKnown ==
  ASSUME Known, NEW n \in Nodes, ProcWrite(n) \/ ProcClear(n) \/ ProcError(n)
  PROVE  Known'
<1>1. /\ TypeOK /\ snap \in [Jobs -> Snapshot \cup {None}]
      /\ jobLease \in [Jobs -> LeaseRow \cup {None}] /\ errors \in 0..MaxErrors
      /\ proc[n] \in [op : {"write"}, job : Jobs, snap : Snapshot]
                       \cup [op : {"clear"}, job : Jobs] \cup {None}
  BY DEF Known, TypeOK
<1>2. CASE ProcWrite(n)
  <2>1. proc[n].job \in Jobs /\ proc[n].snap \in Snapshot
    BY <1>1, <1>2 DEF ProcWrite
  <2>2. snap' \in [Jobs -> Snapshot \cup {None}]
    BY <1>1, <1>2, <2>1 DEF ProcWrite, Put
  <2> QED
    BY <1>1, <1>2, <2>2, ProcDone DEF ProcWrite
<1>3. CASE ProcClear(n)
  <2>1. proc[n].job \in Jobs
    BY <1>1, <1>3 DEF ProcClear
  <2>2. jobLease' \in [Jobs -> LeaseRow \cup {None}]
    BY <1>1, <1>3, <2>1 DEF ProcClear
  <2> QED
    BY <1>1, <1>3, <2>2, ProcDone DEF ProcClear
<1>4. CASE ProcError(n)
  <2>1. errors' \in 0..MaxErrors /\ snap' = snap /\ jobLease' = jobLease
    BY <1>1, <1>4, FailsCounted DEF ProcError, StoreFails, storeVars
  <2> QED
    BY <1>1, <1>4, <2>1, ProcDone DEF ProcError, storeVars
<1> QED
  BY <1>2, <1>3, <1>4

(* ToolSend: a command from outside the loop goes to the end of the         *)
(* channel.                                                                 *)
LEMMA ToolSendKnown ==
  ASSUME Known, NEW n \in Nodes, ToolSend(n)
  PROVE  Known'
<1>1. TypeOK /\ Shape(n) /\ pc[n] # "down"
  BY DEF Known, ToolSend
<1>2. PICK o \in Orders :
        /\ Send(n, [op |-> IF o[1] = "add" THEN "Add" ELSE "Remove", job |-> o[2]])
        /\ tool' = [tool EXCEPT ![n] = [op |-> o[1], job |-> o[2], edit |-> FALSE]]
  BY DEF ToolSend
<1>3. o[1] \in {"add", "remove"} /\ o[2] \in Jobs
  BY <1>2, JobAssumption
<1>4. PICK cmd : cmd = [op |-> IF o[1] = "add" THEN "Add" ELSE "Remove", job |-> o[2]]
  OBVIOUS
<1>5. cmd \in Command /\ cmd.op \in {"Add", "Remove"}
  BY <1>3, <1>4 DEF Command
<1>6. UNCHANGED <<storeVars, otherVars, loopVars, proc, runs, errors>>
  BY DEF ToolSend
<1>7. calls' \in 0..MaxCalls
  <2>1. calls \in 0..MaxCalls /\ calls < MaxCalls /\ calls' = calls + 1 /\ MaxCalls \in Nat
    BY <1>1, BoundAssumption DEF ToolSend, TypeOK
  <2> QED
    BY <2>1
<1>8. /\ chan' \in [Nodes -> Seq(Command)] /\ \A m \in Nodes : Len(chan'[m]) <= ChanCap
      /\ \A m \in Nodes : m # n => chan'[m] = chan[m]
      /\ Len(chan'[n]) = Len(chan[n]) + 1 /\ Len(chan[n]) \in Nat
      /\ chan'[n][Len(chan[n]) + 1] = cmd
      /\ \A i \in 1..Len(chan[n]) : chan'[n][i] = chan[n][i]
  <2>1. Send(n, cmd)
    BY <1>2, <1>4
  <2> QED
    BY <1>1, <1>5, <2>1, Sent
<1>9. tool' \in [Nodes -> [op : {"add", "remove"}, job : Jobs, edit : BOOLEAN] \cup {None}]
  BY <1>1, <1>2, <1>3 DEF TypeOK
<1>10. Others(n)
  BY <1>1, <1>2, <1>6, <1>8 DEF TypeOK, Others, loopVars
<1>11. TypeOK'
  BY <1>1, <1>6, <1>7, <1>8, <1>9 DEF TypeOK, otherVars, loopVars, storeVars
<1>12. LoopHas(n)' /\ ProcHas(n)'
  BY <1>1, <1>6 DEF Shape, LoopHas, ProcHas, loopVars
<1>13. events'[n] = events[n] /\ pc'[n] = pc[n]
  BY <1>6 DEF loopVars
<1>14. ChannelHas(n)'
  BY <1>1, <1>5, <1>8, <1>13, ChannelGrows
<1> QED
  BY <1>10, <1>11, <1>12, <1>14, OthersShape DEF Known, Shape

(* ToolWrite and ToolEdit.                                                  *)
LEMMA ToolStepsKnown ==
  ASSUME Known, NEW n \in Nodes, ToolWrite(n) \/ ToolEdit(n)
  PROVE  Known'
<1>1. TypeOK /\ Shape(n)
  BY DEF Known
<1>2. PICK t \in [op : {"add", "remove"}, job : Jobs, edit : BOOLEAN] : t = tool[n]
  BY <1>1 DEF TypeOK, ToolWrite, ToolEdit
<1>3. UNCHANGED <<jobLease, leader, clock, life, seeded, loopVars, chan, proc, runs, calls>>
  BY DEF ToolWrite, ToolEdit, storeVars, otherVars
<1>4. t.job \in Jobs
  BY <1>2
<1>5. snap' \in [Jobs -> Snapshot \cup {None}]
  <2>1. snap \in [Jobs -> Snapshot \cup {None}] /\ Fresh(clock) \in Snapshot
    BY <1>1, SeedTypes DEF TypeOK
  <2>2. \/ snap' = snap
        \/ snap' = [snap EXCEPT ![t.job] = IF t.op = "add" THEN Fresh(clock) ELSE None]
    BY <1>2 DEF ToolWrite, ToolEdit, Put, storeVars
  <2> QED
    BY <1>4, <2>1, <2>2
<1>6. errors' \in 0..MaxErrors
  BY <1>1, FailsCounted DEF ToolWrite, ToolEdit, StoreFails, TypeOK
<1>7. config' \in [Nodes -> SUBSET Jobs]
  <2>1. config \in [Nodes -> SUBSET Jobs]
    BY <1>1 DEF TypeOK
  <2>2. \/ config' = config
        \/ config' = [config EXCEPT ![n] = IF t.op = "add" THEN @ \cup {t.job} ELSE @ \ {t.job}]
    BY <1>2 DEF ToolWrite, ToolEdit, otherVars
  <2> QED
    BY <1>4, <2>1, <2>2
<1>8. /\ tool' \in [Nodes -> [op : {"add", "remove"}, job : Jobs, edit : BOOLEAN] \cup {None}]
      /\ \A m \in Nodes : m # n => tool'[m] = tool[m]
  <2>1. tool \in [Nodes -> [op : {"add", "remove"}, job : Jobs, edit : BOOLEAN] \cup {None}]
    BY <1>1 DEF TypeOK
  <2>2. tool' = [tool EXCEPT ![n] = [t EXCEPT !.edit = TRUE]] \/ tool' = [tool EXCEPT ![n] = None]
    BY <1>2, <2>1 DEF ToolWrite, ToolEdit
  <2>3. [t EXCEPT !.edit = TRUE] \in [op : {"add", "remove"}, job : Jobs, edit : BOOLEAN]
    OBVIOUS
  <2> QED
    BY <2>1, <2>2, <2>3
<1>9. pc[n] # "down"
  BY <1>1, <1>2 DEF Shape, LoopHas, ToolWrite, ToolEdit
<1>10. Others(n)
  BY <1>3, <1>8 DEF Others, loopVars
<1>11. TypeOK'
  BY <1>1, <1>3, <1>5, <1>6, <1>7, <1>8 DEF TypeOK, loopVars
<1>12. LoopHas(n)' /\ ProcHas(n)'
  BY <1>1, <1>3, <1>9 DEF Shape, LoopHas, ProcHas, loopVars
<1>13. ChannelHas(n)'
  BY <1>1, <1>3 DEF Shape, ChannelHas, Commanded, loopVars
<1> QED
  BY <1>10, <1>11, <1>12, <1>13, OthersShape DEF Known, Shape

(* Crash: a node that is down has nothing.                                  *)
LEMMA CrashKnown ==
  ASSUME Known, NEW n \in Nodes, Crash(n)
  PROVE  Known'
<1>1. TypeOK
  BY DEF Known
<1>2. /\ pc' = [pc EXCEPT ![n] = "down"] /\ copies' = [copies EXCEPT ![n] = NoCopies]
      /\ job' = [job EXCEPT ![n] = None] /\ events' = [events EXCEPT ![n] = <<>>]
      /\ result' = [result EXCEPT ![n] = None] /\ reply' = [reply EXCEPT ![n] = None]
      /\ held' = [held EXCEPT ![n] = [j \in Jobs |-> 0]]
      /\ chan' = [chan EXCEPT ![n] = <<>>] /\ proc' = [proc EXCEPT ![n] = None]
      /\ tool' = [tool EXCEPT ![n] = None]
      /\ UNCHANGED <<storeVars, otherVars, stamp, runs, errors, calls>>
  BY DEF Crash, Goto
<1>3. /\ pc' \in [Nodes -> Pcs] /\ copies' \in [Nodes -> [Jobs -> Snapshot \cup {None}]]
      /\ job' \in [Nodes -> Jobs \cup {None}] /\ events' \in [Nodes -> Seq(Jobs)]
      /\ result' \in [Nodes -> Settled \cup {None}] /\ reply' \in [Nodes -> Snapshot \cup {None}]
      /\ held' \in [Nodes -> [Jobs -> Nat]]
  BY <1>1, <1>2 DEF TypeOK, Pcs, NoCopies
<1>4. /\ chan' \in [Nodes -> Seq(Command)] /\ \A m \in Nodes : Len(chan'[m]) <= ChanCap
      /\ proc' \in [Nodes -> [op : {"write"}, job : Jobs, snap : Snapshot]
                              \cup [op : {"clear"}, job : Jobs] \cup {None}]
      /\ tool' \in [Nodes -> [op : {"add", "remove"}, job : Jobs, edit : BOOLEAN] \cup {None}]
  BY <1>1, <1>2, BoundAssumption DEF TypeOK
<1>5. Others(n)
  BY <1>1, <1>2 DEF TypeOK, Others
<1>6. TypeOK'
  BY <1>1, <1>2, <1>3, <1>4 DEF TypeOK, otherVars, storeVars
<1>7. Shape(n)'
  <2>1. /\ pc'[n] = "down" /\ job'[n] = None /\ events'[n] = <<>>
        /\ chan'[n] = <<>> /\ proc'[n] = None /\ tool'[n] = None
        /\ held'[n] = [j \in Jobs |-> 0]
    BY <1>1, <1>2 DEF TypeOK
  <2>2. LoopHas(n)'
    BY <2>1 DEF LoopHas, Started
  <2>3. ChannelHas(n)' /\ ProcHas(n)'
    BY <2>1 DEF ChannelHas, ProcHas
  <2> QED
    BY <2>2, <2>3 DEF Shape
<1> QED
  BY <1>5, <1>6, <1>7, OthersShape DEF Known

(* The clock goes on, or nothing happens.                                   *)
LEMMA StutterKnown ==
  ASSUME Known, Tick \/ UNCHANGED vars
  PROVE  Known'
<1>1. TypeOK
  BY DEF Known
<1>2. UNCHANGED <<storeVars, config, life, loopVars, chan, proc, tool, runs, seeded, errors, calls>>
  BY DEF Tick, vars
<1>3. clock' \in Times
  <2>1. clock \in Times /\ MaxTime \in Nat
    BY <1>1, BoundAssumption DEF TypeOK
  <2>2. clock' = clock \/ (clock < MaxTime /\ clock' = clock + 1)
    BY DEF Tick, vars
  <2> QED
    BY <2>1, <2>2 DEF Times
<1>4. TypeOK'
  BY <1>1, <1>2, <1>3 DEF TypeOK, storeVars, loopVars
<1>5. ASSUME NEW n \in Nodes PROVE Shape(n)'
  <2>1. Shape(n)
    BY DEF Known
  <2>2. LoopHas(n)' /\ ProcHas(n)'
    BY <1>2, <2>1 DEF Shape, LoopHas, ProcHas, loopVars
  <2>3. ChannelHas(n)'
    BY <1>2, <2>1 DEF Shape, ChannelHas, Commanded, loopVars
  <2> QED
    BY <2>2, <2>3 DEF Shape
<1> QED
  BY <1>4, <1>5 DEF Known

(* Every step keeps the types and the shapes.                               *)
LEMMA KnownInductive == Known /\ [Next]_vars => Known'
<1> SUFFICES ASSUME Known, [Next]_vars PROVE Known'
  OBVIOUS
<1>1. CASE Tick \/ UNCHANGED vars
  BY <1>1, StutterKnown
<1>2. ASSUME NEW n \in Nodes, Boot(n) \/ Poll(n) \/ Process(n) \/ Fault(n) \/ Tool(n) \/ Crash(n)
      PROVE  Known'
  <2>1. CASE Boot(n)
    BY <2>1, BootsKnown
  <2>2. CASE Poll(n)
    BY <2>2, SeedWriteKnown, LeadKnown, ListDueKnown, ClaimKnown, SkipKnown, MarkKnown, ExecuteKnown,
       FinishKnown, ReportKnown, AskKnown, PersistKnown, ReleaseKnown DEF Poll
  <2>3. CASE Process(n)
    BY <2>3, HandleAddKnown, HandleRemoveKnown, HandleUpdateKnown, HandleListKnown, ProcStepsKnown
       DEF Process
  <2>4. CASE Fault(n)
    BY <2>4, BootsKnown, SeedErrorKnown, PollErrorKnown, PersistKnown, ReleaseKnown,
       HandleErrorKnown, ProcStepsKnown DEF Fault
  <2>5. CASE Tool(n)
    BY <2>5, ToolSendKnown, ToolStepsKnown DEF Tool
  <2>6. CASE Crash(n)
    BY <2>6, CrashKnown
  <2> QED
    BY <1>2, <2>1, <2>2, <2>3, <2>4, <2>5, <2>6
<1> QED
  BY <1>1, <1>2 DEF Next

(* The types and the shapes hold in every reachable state.                  *)
LEMMA AlwaysKnown == Spec => []Known
<1> QED
  BY InitKnown, KnownInductive, PTL DEF Spec

(* Every variable has its type in every reachable state, for any number of *)
(* nodes and jobs, any channel capacity and any bounds.                     *)
THEOREM SchedulerTypes == Spec => []TypeOK
<1>1. Known => TypeOK
  BY DEF Known
<1> QED
  BY <1>1, AlwaysKnown, PTL

-----------------------------------------------------------------------------
(* Leases and claims.                                                       *)

(* Most steps of a node touch no lease, no claim and no event.              *)
Quiet(n) ==
  /\ UNCHANGED <<clock, jobLease, life, job, events, held>>
  /\ errors' = errors \/ errors' > 0
  /\ pc' = pc \/ (pc[n] # "down" /\ pc' = [pc EXCEPT ![n] = pc'[n]])

QuietLoop(n) ==
  SeedWrite(n) \/ Lead(n) \/ ListDue(n) \/ Skip(n) \/ Execute(n) \/ Finish(n) \/ Report(n)
    \/ Ask(n) \/ Persist(n) \/ SeedError(n) \/ PersistError(n)

QuietTask(n) ==
  HandleAdd(n) \/ HandleRemove(n) \/ HandleUpdate(n) \/ HandleList(n) \/ HandleError(n)
    \/ ProcWrite(n) \/ ProcError(n) \/ Tool(n)

(* A loop that goes somewhere leaves the other loops where they are.        *)
LEMMA GotoOnly ==
  ASSUME TypeOK, NEW n \in Nodes, NEW p, Goto(n, p), pc[n] # "down"
  PROVE  pc[n] # "down" /\ pc' = [pc EXCEPT ![n] = pc'[n]]
BY DEF TypeOK, Goto

(* What the loop does between its claims and its releases.                  *)
LEMMA LoopIsQuiet ==
  ASSUME TypeOK, NEW n \in Nodes, QuietLoop(n)
  PROVE  Quiet(n)
<1>1. UNCHANGED <<clock, jobLease, life, job, events, held>>
  BY DEF QuietLoop, SeedWrite, Lead, ListDue, Skip, Execute, Finish, Report, Ask, Persist, SeedError,
         PersistError, otherVars, storeVars
<1>2. errors' = errors \/ errors' > 0
  <2>1. CASE SeedError(n) \/ PersistError(n)
    BY <2>1, FailsCounted DEF SeedError, PersistError, StoreFails
  <2>2. CASE ~ (SeedError(n) \/ PersistError(n))
    BY <2>2 DEF QuietLoop, SeedWrite, Lead, ListDue, Skip, Execute, Finish, Report, Ask, Persist
  <2> QED
    BY <2>1, <2>2
<1>3. pc[n] # "down" /\ \E p : Goto(n, p)
  BY DEF QuietLoop, SeedWrite, Lead, ListDue, Skip, Execute, Finish, Report, Ask, Persist, SeedError,
         PersistError
<1> QED
  BY <1>1, <1>2, <1>3, GotoOnly DEF Quiet

(* What the processor and the tool do, except for clearing a lease.         *)
LEMMA TaskIsQuiet ==
  ASSUME TypeOK, NEW n \in Nodes, QuietTask(n)
  PROVE  Quiet(n)
<1>1. UNCHANGED <<clock, jobLease, life, job, events, held>>
  BY DEF QuietTask, HandleAdd, HandleRemove, HandleUpdate, HandleList, HandleError, ProcWrite, ProcError,
         Tool, ToolSend, ToolWrite, ToolEdit, Answer, otherVars, storeVars, loopVars
<1>2. errors' = errors \/ errors' > 0
  <2>1. errors' = errors \/ StoreFails
    BY DEF QuietTask, HandleAdd, HandleRemove, HandleUpdate, HandleList, HandleError, ProcWrite,
           ProcError, Tool, ToolSend, ToolWrite, ToolEdit
  <2> QED
    BY <2>1, FailsCounted DEF StoreFails
<1>3. pc' = pc \/ (pc[n] # "down" /\ Goto(n, "persist"))
  BY DEF QuietTask, HandleAdd, HandleRemove, HandleUpdate, HandleList, HandleError, ProcWrite, ProcError,
         Tool, ToolSend, ToolWrite, ToolEdit, Receive, Answer, loopVars
<1> QED
  BY <1>1, <1>2, <1>3, GotoOnly DEF Quiet

(* What a lease row has.                                                    *)
LEMMA LeaseHolder ==
  ASSUME TypeOK, NEW n \in Nodes, NEW j \in Jobs
  PROVE  /\ jobLease[j] # None => jobLease[j] \in LeaseRow /\ jobLease[j].worker \in Worker
                                   /\ jobLease[j].until \in Nat
         /\ WorkerId(n) = <<n, life[n]>> /\ life[n] \in Lives /\ life[n] \in Nat
BY DEF TypeOK, LeaseRow, WorkerId, Lives

(* A step that takes no lease and boots nobody keeps the invariant if it    *)
(* gives back the leases of the claims it drops.                            *)
LEMMA LeaseKept ==
  ASSUME Known, LeaseInv, life' = life,
         \A j \in Jobs : jobLease'[j] = jobLease[j] \/ jobLease'[j] = None,
         errors' = 0 => errors = 0,
         \A m \in Nodes : errors' = 0 /\ pc'[m] # "down" =>
           /\ pc[m] # "down"
           /\ \A j \in Jobs : Claimed(m, j) =>
                Claimed(m, j)' \/ jobLease'[j] = None \/ jobLease'[j].worker # WorkerId(m)
  PROVE  LeaseInv'
<1>1. ASSUME NEW m \in Nodes, NEW j \in Jobs PROVE LivedLease(m, j)'
  BY <1>1 DEF LeaseInv, LivedLease
<1>2. ASSUME NEW m \in Nodes, NEW j \in Jobs, errors' = 0 PROVE OwnLease(m, j)'
  <2>1. OwnLease(m, j)
    BY <1>2 DEF LeaseInv
  <2> QED
    BY <1>2, <2>1 DEF OwnLease, WorkerId
<1> QED
  BY <1>1, <1>2 DEF LeaseInv

(* The quiet steps keep the leases accounted for.                           *)
LEMMA QuietLease ==
  ASSUME Known, LeaseInv, NEW n \in Nodes, Quiet(n)
  PROVE  LeaseInv'
<1>1. TypeOK
  BY DEF Known
<1>2. \A m \in Nodes : pc'[m] # "down" => pc[m] # "down"
  BY <1>1 DEF TypeOK, Quiet
<1>3. \A m \in Nodes : \A j \in Jobs : Claimed(m, j) => Claimed(m, j)'
  BY DEF Claimed, Quiet
<1>4. errors' = 0 => errors = 0
  BY DEF Quiet
<1> QED
  BY <1>2, <1>3, <1>4, LeaseKept DEF Quiet

(* A new instance has no lease: nobody had one under its name.              *)
LEMMA BootLease ==
  ASSUME Known, LeaseInv, NEW n \in Nodes, NEW read, SeedWith(n, read), errors' = 0 => errors = 0
  PROVE  LeaseInv'
<1>1. TypeOK /\ pc[n] = "down" /\ life[n] \in Nat
  <2>1. TypeOK /\ pc[n] = "down"
    BY DEF Known, SeedWith
  <2> QED
    BY <2>1 DEF TypeOK, Lives
<1>2. /\ life' = [life EXCEPT ![n] = @ + 1] /\ pc' = [pc EXCEPT ![n] = pc'[n]]
      /\ jobLease' = jobLease /\ job' = job /\ events' = events
  BY <1>1 DEF SeedWith, Goto, storeVars, TypeOK
<1>3. /\ life'[n] = life[n] + 1
      /\ \A m \in Nodes : m # n => life'[m] = life[m] /\ pc'[m] = pc[m]
  BY <1>1, <1>2 DEF TypeOK
<1>4. ASSUME NEW m \in Nodes, NEW j \in Jobs PROVE LivedLease(m, j)'
  <2>1. LivedLease(m, j) /\ life[m] \in Nat /\ life'[m] >= life[m]
    BY <1>1, <1>3, LeaseHolder DEF LeaseInv
  <2>2. ASSUME NEW l \in Lives, l <= life[m] PROVE l <= life'[m]
    BY <1>1, <1>3, <2>1, <2>2 DEF Lives
  <2> QED
    BY <1>2, <2>1, <2>2 DEF LivedLease
<1>5. ASSUME NEW m \in Nodes, NEW j \in Jobs, errors' = 0 PROVE OwnLease(m, j)'
  <2>1. CASE m # n
    BY <1>2, <1>3, <1>5, <2>1 DEF LeaseInv, OwnLease, Claimed, WorkerId
  <2>2. CASE m = n
    <3>1. LivedLease(n, j) /\ life'[n] = life[n] + 1 /\ life'[n] > life[n]
      BY <1>1, <1>3 DEF LeaseInv
    <3>2. jobLease[j] # None => jobLease[j].worker # <<n, life'[n]>>
      <4> SUFFICES ASSUME jobLease[j] # None, jobLease[j].worker = <<n, life'[n]>> PROVE FALSE
        OBVIOUS
      <4>1. life'[n] \in Lives
        BY <1>1, LeaseHolder DEF Worker
      <4> QED
        BY <1>1, <3>1, <4>1 DEF LivedLease, Lives
    <3> QED
      BY <1>2, <2>2, <3>2 DEF OwnLease, WorkerId
  <2> QED
    BY <2>1, <2>2
<1> QED
  BY <1>4, <1>5 DEF LeaseInv

(* Claim: the new row is that of the job in hand.                           *)
LEMMA ClaimLease ==
  ASSUME Known, LeaseInv, NEW n \in Nodes, Claim(n)
  PROVE  LeaseInv'
<1>1. TypeOK /\ LoopHas(n) /\ pc[n] = "claim"
  BY DEF Known, Shape, Claim
<1>2. PICK j \in Oldest(n) :
        /\ jobLease' = [jobLease EXCEPT ![j] = [worker |-> WorkerId(n), until |-> clock + Lease]]
        /\ job' = [job EXCEPT ![n] = j]
  BY DEF Claim
<1>3. j \in Jobs
  BY <1>1, <1>2, CopyOf
<1>4. life' = life /\ events' = events /\ errors' = errors /\ pc' = [pc EXCEPT ![n] = "mark"]
  BY DEF Claim, Goto, otherVars
<1>5. /\ jobLease'[j].worker = <<n, life[n]>> /\ \A i \in Jobs : i # j => jobLease'[i] = jobLease[i]
      /\ job'[n] = j /\ \A m \in Nodes : m # n => job'[m] = job[m] /\ pc'[m] = pc[m]
      /\ job[n] = None
  BY <1>1, <1>2, <1>3, <1>4 DEF TypeOK, WorkerId, LoopHas
<1>6. ASSUME NEW m \in Nodes, NEW i \in Jobs PROVE LivedLease(m, i)'
  <2>1. LivedLease(m, i) /\ life[n] \in Nat
    BY <1>1, LeaseHolder DEF LeaseInv
  <2> QED
    BY <1>4, <1>5, <2>1 DEF LivedLease, Lives
<1>7. ASSUME NEW m \in Nodes, NEW i \in Jobs, errors' = 0 PROVE OwnLease(m, i)'
  <2>1. OwnLease(m, i)
    BY <1>4, <1>7 DEF LeaseInv
  <2>2. CASE i = j
    BY <1>4, <1>5, <2>2 DEF OwnLease, Claimed, WorkerId
  <2>3. CASE i # j
    <3>1. pc'[m] # "down" => pc[m] # "down"
      BY <1>1, <1>5
    <3>2. Claimed(m, i) => Claimed(m, i)'
      BY <1>4, <1>5, NoneAssumption DEF Claimed
    <3> QED
      BY <1>4, <1>5, <2>1, <2>3, <3>1, <3>2 DEF OwnLease, WorkerId
  <2> QED
    BY <2>2, <2>3
<1> QED
  BY <1>6, <1>7 DEF LeaseInv

(* Mark: from the job in hand to the last of the events.                    *)
LEMMA MarkLease ==
  ASSUME Known, LeaseInv, NEW n \in Nodes, Mark(n)
  PROVE  LeaseInv'
<1>1. TypeOK /\ LoopHas(n) /\ pc[n] = "mark"
  BY DEF Known, Shape, Mark
<1>2. /\ life' = life /\ jobLease' = jobLease /\ errors' = errors
      /\ events' = [events EXCEPT ![n] = Append(@, job[n])] /\ job' = [job EXCEPT ![n] = None]
      /\ pc' = [pc EXCEPT ![n] = pc'[n]]
  BY <1>1 DEF Mark, Goto, otherVars, TypeOK
<1>3. /\ events'[n] = Append(events[n], job[n]) /\ events[n] \in Seq(Jobs) /\ job[n] \in Jobs
      /\ \A m \in Nodes : m # n => events'[m] = events[m] /\ job'[m] = job[m] /\ pc'[m] = pc[m]
  BY <1>1, <1>2 DEF TypeOK, LoopHas
<1>4. /\ Len(events'[n]) = Len(events[n]) + 1 /\ Len(events[n]) \in Nat
      /\ events'[n][Len(events[n]) + 1] = job[n]
      /\ \A i \in 1..Len(events[n]) : events'[n][i] = events[n][i]
  BY <1>3
<1>5. \A m \in Nodes : \A j \in Jobs : Claimed(m, j) => Claimed(m, j)'
  <2> SUFFICES ASSUME NEW m \in Nodes, NEW j \in Jobs, Claimed(m, j) PROVE Claimed(m, j)'
    OBVIOUS
  <2>1. CASE m # n
    BY <1>3, <2>1 DEF Claimed
  <2>2. CASE m = n /\ j = job[n]
    <3>1. Len(events[n]) + 1 \in 1..Len(events'[n])
      BY <1>4
    <3> QED
      BY <1>4, <2>2, <3>1 DEF Claimed
  <2>3. CASE m = n /\ j # job[n]
    <3>1. PICK i \in 1..Len(events[n]) : events[n][i] = j
      BY <2>3 DEF Claimed
    <3>2. i \in 1..Len(events'[n])
      BY <1>4, <3>1
    <3> QED
      BY <1>4, <2>3, <3>1, <3>2 DEF Claimed
  <2> QED
    BY <2>1, <2>2, <2>3
<1>6. \A m \in Nodes : pc'[m] # "down" => pc[m] # "down"
  BY <1>1, <1>3
<1> QED
  BY <1>2, <1>5, <1>6, LeaseKept

(* Release: the event goes with its row, unless the row is that of another  *)
(* worker.                                                                  *)
LEMMA ReleaseLease ==
  ASSUME Known, LeaseInv, NEW n \in Nodes, Release(n)
  PROVE  LeaseInv'
<1>1. TypeOK /\ Shape(n) /\ pc[n] = "release" /\ events[n] # <<>>
  BY DEF Known, Release, Shape, LoopHas, Started
<1>2. PICK h \in Jobs : h = Head(events[n])
  BY <1>1, EventHead
<1>3. /\ jobLease' = [jobLease EXCEPT ![h] = IF @ # None /\ @.worker = WorkerId(n) THEN None ELSE @]
      /\ events' = [events EXCEPT ![n] = Tail(@)] /\ job' = job /\ life' = life /\ errors' = errors
      /\ pc' = [pc EXCEPT ![n] = pc'[n]]
  BY <1>1, <1>2 DEF Release, NextEvent, Goto, otherVars, TypeOK
<1>4. /\ \A m \in Nodes : m # n => events'[m] = events[m] /\ pc'[m] = pc[m]
      /\ events'[n] = Tail(events[n])
      /\ \A j \in Jobs : j # h => jobLease'[j] = jobLease[j]
      /\ jobLease'[h] = IF jobLease[h] # None /\ jobLease[h].worker = WorkerId(n) THEN None ELSE jobLease[h]
  BY <1>1, <1>3 DEF TypeOK
<1>5. ASSUME NEW m \in Nodes, NEW j \in Jobs, Claimed(m, j)
      PROVE  Claimed(m, j)' \/ jobLease'[j] = None \/ jobLease'[j].worker # WorkerId(m)
  <2>1. CASE m # n
    BY <1>3, <1>4, <1>5, <2>1 DEF Claimed
  <2>2. CASE m = n /\ j = h
    BY <1>4, <2>2
  <2>3. CASE m = n /\ j # h
    <3>1. CASE j = job[n]
      BY <1>3, <2>3, <3>1 DEF Claimed
    <3>2. CASE j # job[n]
      <4>1. PICK i \in 1..Len(events[n]) : events[n][i] = j
        BY <1>5, <2>3, <3>2 DEF Claimed
      <4>2. /\ Len(events[n]) \in Nat /\ events[n][1] = h
            /\ Len(Tail(events[n])) = Len(events[n]) - 1
            /\ \A k \in 1..(Len(events[n]) - 1) : Tail(events[n])[k] = events[n][k + 1]
        BY <1>1, <1>2, EventHead
      <4>3. i # 1
        BY <2>3, <4>1, <4>2
      <4>4. i - 1 \in 1..(Len(events[n]) - 1) /\ (i - 1) + 1 = i
        BY <4>1, <4>2, <4>3
      <4>5. Tail(events[n])[i - 1] = j /\ i - 1 \in 1..Len(Tail(events[n]))
        BY <4>1, <4>2, <4>4
      <4> QED
        BY <1>4, <2>3, <4>5 DEF Claimed
    <3> QED
      BY <3>1, <3>2
  <2> QED
    BY <2>1, <2>2, <2>3
<1>6. \A m \in Nodes : pc'[m] # "down" => pc[m] # "down"
  BY <1>1, <1>4
<1>7. \A j \in Jobs : jobLease'[j] = jobLease[j] \/ jobLease'[j] = None
  BY <1>4
<1> QED
  BY <1>3, <1>5, <1>6, <1>7, LeaseKept

(* PollError, ReleaseError, ProcClear and Crash: the store failed, or the   *)
(* row or the node is gone.                                                 *)
LEMMA DropLease ==
  ASSUME Known, LeaseInv, NEW n \in Nodes,
         PollError(n) \/ ReleaseError(n) \/ ProcClear(n) \/ Crash(n)
  PROVE  LeaseInv'
<1>1. TypeOK
  BY DEF Known
<1>2. CASE PollError(n) \/ ReleaseError(n)
  <2>1. errors' > 0 /\ life' = life /\ jobLease' = jobLease
    BY <1>1, <1>2, FailsCounted DEF PollError, ReleaseError, StoreFails, storeVars, otherVars
  <2> QED
    BY <2>1, LeaseKept
<1>3. CASE ProcClear(n)
  <2>1. /\ \A j \in Jobs : jobLease'[j] = jobLease[j] \/ jobLease'[j] = None
        /\ life' = life /\ errors' = errors /\ pc' = pc /\ job' = job /\ events' = events
    BY <1>1, <1>3 DEF ProcClear, otherVars, loopVars, TypeOK
  <2>2. \A m \in Nodes : \A j \in Jobs : Claimed(m, j) => Claimed(m, j)'
    BY <2>1 DEF Claimed
  <2> QED
    BY <2>1, <2>2, LeaseKept
<1>4. CASE Crash(n)
  <2>1. /\ jobLease' = jobLease /\ life' = life /\ errors' = errors
        /\ pc'[n] = "down"
        /\ \A m \in Nodes : m # n => pc'[m] = pc[m] /\ job'[m] = job[m] /\ events'[m] = events[m]
    BY <1>1, <1>4 DEF Crash, Goto, storeVars, otherVars, TypeOK
  <2>2. \A m \in Nodes : \A j \in Jobs : m # n /\ Claimed(m, j) => Claimed(m, j)'
    BY <2>1 DEF Claimed
  <2> QED
    BY <2>1, <2>2, LeaseKept
<1> QED
  BY <1>2, <1>3, <1>4

(* Every step keeps the leases accounted for.                               *)
LEMMA LeaseInductive == Known /\ LeaseInv /\ [Next]_vars => LeaseInv'
<1> SUFFICES ASSUME Known, LeaseInv, [Next]_vars PROVE LeaseInv'
  OBVIOUS
<1>1. TypeOK
  BY DEF Known
<1>2. CASE Tick \/ UNCHANGED vars
  <2>1. UNCHANGED <<jobLease, life, errors, pc, job, events>>
    BY <1>2 DEF Tick, vars, storeVars, loopVars
  <2>2. \A m \in Nodes : \A j \in Jobs : Claimed(m, j) => Claimed(m, j)'
    BY <2>1 DEF Claimed
  <2> QED
    BY <2>1, <2>2, LeaseKept
<1>3. ASSUME NEW n \in Nodes, Boot(n) \/ Poll(n) \/ Process(n) \/ Fault(n) \/ Tool(n) \/ Crash(n)
      PROVE  LeaseInv'
  <2>1. CASE QuietLoop(n) \/ QuietTask(n)
    BY <1>1, <2>1, LoopIsQuiet, TaskIsQuiet, QuietLease
  <2>2. CASE Boot(n)
    BY <2>2, BootLease DEF Boot
  <2>3. CASE BootError(n)
    BY <1>1, <2>3, BootLease, FailsCounted DEF BootError
  <2>4. CASE Claim(n) \/ Mark(n) \/ Release(n)
    BY <2>4, ClaimLease, MarkLease, ReleaseLease
  <2>5. CASE PollError(n) \/ ReleaseError(n) \/ ProcClear(n) \/ Crash(n)
    BY <2>5, DropLease
  <2> QED
    BY <1>3, <2>1, <2>2, <2>3, <2>4, <2>5 DEF Poll, Process, Fault, QuietLoop, QuietTask
<1> QED
  BY <1>2, <1>3 DEF Next

(* They are in every reachable state.                                       *)
LEMMA AlwaysLease == Spec => []LeaseInv
<1>1. Init => LeaseInv
  BY DEF Init, LeaseInv, LivedLease, OwnLease
<1> QED
  BY <1>1, LeaseInductive, AlwaysKnown, PTL DEF Spec

(* A loop between two polls has no lease in the table, unless the store     *)
(* failed, on any number of nodes, although jobs are removed and taken over *)
(* and nodes restart under the same name.                                   *)
THEOREM NoLeasesLeft == Spec => []NoLeakedJobLease
<1>1. Known /\ LeaseInv => NoLeakedJobLease
  <2> SUFFICES ASSUME Known, LeaseInv, NEW n \in Nodes, NEW j \in Jobs,
                      errors = 0, pc[n] = "wait", jobLease[j] # None
               PROVE  jobLease[j].worker # WorkerId(n)
    BY DEF NoLeakedJobLease
  <2>1. OwnLease(n, j) /\ events[n] = <<>> /\ job[n] = None
    BY DEF Known, Shape, LoopHas, LeaseInv
  <2>2. ~ Claimed(n, j)
    BY <2>1, NoneAssumption DEF Claimed
  <2> QED
    BY <2>1, <2>2 DEF OwnLease
<1> QED
  BY <1>1, AlwaysKnown, AlwaysLease, PTL

(* What a step leaves pending was pending before, or comes from the loop,   *)
(* or from an order to manage_cron.                                         *)
Ordered(o) == IF o[1] = "add" THEN "Add" ELSE "Remove"

PendingFrom(n) ==
  /\ \A i \in 1..Len(chan'[n]) :
       \/ \E k \in 1..Len(chan[n]) : chan'[n][i] = chan[n][k]
       \/ chan'[n][i].op \notin {"Add", "Remove"}
       \/ \E o \in Orders : chan'[n][i].op = Ordered(o) /\ chan'[n][i].job = o[2]
  /\ tool'[n] # None =>
       \/ tool[n] # None /\ tool'[n].op = tool[n].op /\ tool'[n].job = tool[n].job
       \/ \E o \in Orders : tool'[n].op = o[1] /\ tool'[n].job = o[2]
  /\ proc'[n] # None /\ proc'[n].op = "clear" =>
       \/ proc'[n] = proc[n]
       \/ \E k \in 1..Len(chan[n]) : chan[n][k].op = "Remove" /\ proc'[n].job = chan[n][k].job

(* A node that sends and takes nothing.                                     *)
LEMMA PendingStays ==
  ASSUME NEW n, chan'[n] = chan[n], proc'[n] = proc[n], tool'[n] = tool[n]
  PROVE  PendingFrom(n)
BY DEF PendingFrom

(* A command is sent.                                                       *)
LEMMA PendingSent ==
  ASSUME TypeOK, NEW n \in Nodes, NEW cmd \in Command, Send(n, cmd), proc' = proc,
         \/ cmd.op \notin {"Add", "Remove"} /\ tool' = tool
         \/ \E o \in Orders : /\ cmd.op = Ordered(o) /\ cmd.job = o[2]
                              /\ tool' = [tool EXCEPT ![n] = [op |-> o[1], job |-> o[2], edit |-> FALSE]]
  PROVE  \A m \in Nodes : PendingFrom(m)
<1>1. /\ \A m \in Nodes : m # n => chan'[m] = chan[m]
      /\ Len(chan'[n]) = Len(chan[n]) + 1 /\ Len(chan[n]) \in Nat
      /\ chan'[n][Len(chan[n]) + 1] = cmd
      /\ \A i \in 1..Len(chan[n]) : chan'[n][i] = chan[n][i]
  BY Sent
<1>2. ASSUME NEW i \in 1..Len(chan'[n])
      PROVE  \/ \E k \in 1..Len(chan[n]) : chan'[n][i] = chan[n][k]
             \/ chan'[n][i].op \notin {"Add", "Remove"}
             \/ \E o \in Orders : chan'[n][i].op = Ordered(o) /\ chan'[n][i].job = o[2]
  <2>1. i \in 1..Len(chan[n]) \/ i = Len(chan[n]) + 1
    BY <1>1
  <2> QED
    BY <1>1, <2>1
<1>3. /\ \A m \in Nodes : m # n => tool'[m] = tool[m]
      /\ tool'[n] = tool[n] \/ \E o \in Orders : tool'[n] = [op |-> o[1], job |-> o[2], edit |-> FALSE]
  BY DEF TypeOK
<1>4. tool'[n] # None =>
        \/ tool[n] # None /\ tool'[n].op = tool[n].op /\ tool'[n].job = tool[n].job
        \/ \E o \in Orders : tool'[n].op = o[1] /\ tool'[n].job = o[2]
  <2>1. CASE tool'[n] = tool[n]
    BY <2>1
  <2>2. CASE \E o \in Orders : tool'[n] = [op |-> o[1], job |-> o[2], edit |-> FALSE]
    BY <2>2
  <2> QED
    BY <1>3, <2>1, <2>2
<1>5. PendingFrom(n)
  BY <1>2, <1>4 DEF PendingFrom
<1> QED
  BY <1>1, <1>3, <1>5, PendingStays

(* A command is taken.                                                      *)
LEMMA PendingReceived ==
  ASSUME TypeOK, NEW n \in Nodes, NEW op, Receive(n, op), tool' = tool,
         proc'[n] # None /\ proc'[n].op = "clear" =>
           op = "Remove" /\ proc'[n].job = Head(chan[n]).job,
         \A m \in Nodes : m # n => proc'[m] = proc[m]
  PROVE  \A m \in Nodes : PendingFrom(m)
<1>1. /\ 1 \in 1..Len(chan[n]) /\ Head(chan[n]) = chan[n][1] /\ Head(chan[n]).op = op
      /\ \A m \in Nodes : m # n => chan'[m] = chan[m]
      /\ \A i \in 1..Len(chan'[n]) : i + 1 \in 1..Len(chan[n]) /\ chan'[n][i] = chan[n][i + 1]
  BY Received
<1>2. PendingFrom(n)
  BY <1>1 DEF PendingFrom
<1> QED
  BY <1>1, <1>2, PendingStays

(* The loop sends reports and questions only.                               *)
LEMMA LoopPending ==
  ASSUME Known, NEW n \in Nodes, QuietLoop(n)
  PROVE  \A m \in Nodes : PendingFrom(m)
<1>1. TypeOK /\ Shape(n)
  BY DEF Known
<1>2. CASE Report(n)
  <2>1. PICK cmd : cmd = [op |-> "UpdateStatus", job |-> Head(events[n]), status |-> result[n], at |-> clock]
    OBVIOUS
  <2>2. events[n] # <<>> /\ result[n] \in Settled
    BY <1>1, <1>2 DEF Report, Shape, LoopHas, Started
  <2>3. cmd \in Command /\ cmd.op \notin {"Add", "Remove"}
    BY <1>1, <2>1, <2>2, EventHead, SeedTypes DEF Command
  <2>4. Send(n, cmd) /\ proc' = proc /\ tool' = tool
    BY <1>2, <2>1 DEF Report
  <2> QED
    BY <1>1, <2>3, <2>4, PendingSent
<1>3. CASE Ask(n)
  <2>1. PICK cmd : cmd = [op |-> "List", job |-> Head(events[n])]
    OBVIOUS
  <2>2. events[n] # <<>>
    BY <1>1, <1>3 DEF Ask, Shape, LoopHas, Started
  <2>3. cmd \in Command /\ cmd.op \notin {"Add", "Remove"}
    BY <1>1, <2>1, <2>2, EventHead DEF Command
  <2>4. Send(n, cmd) /\ proc' = proc /\ tool' = tool
    BY <1>3, <2>1 DEF Ask
  <2> QED
    BY <1>1, <2>3, <2>4, PendingSent
<1>4. CASE ~ (Report(n) \/ Ask(n))
  <2>1. UNCHANGED <<chan, proc, tool>>
    BY <1>4 DEF QuietLoop, SeedWrite, Lead, ListDue, Skip, Execute, Finish, Persist, SeedError,
                PersistError
  <2> QED
    BY <2>1, PendingStays
<1> QED
  BY <1>2, <1>3, <1>4

(* A handler leaves a clearing to do only after a removal.                  *)
LEMMA HandlerPending ==
  ASSUME Known, NEW n \in Nodes,
         HandleAdd(n) \/ HandleRemove(n) \/ HandleUpdate(n) \/ HandleList(n) \/ HandleError(n)
  PROVE  \A m \in Nodes : PendingFrom(m)
<1>1. TypeOK
  BY DEF Known
<1>2. CASE HandleAdd(n) \/ HandleRemove(n) \/ HandleUpdate(n) \/ HandleList(n)
  <2>1. PICK op : Receive(n, op) /\ (op = "Remove" <=> HandleRemove(n))
    BY <1>2 DEF HandleAdd, HandleRemove, HandleUpdate, HandleList, Receive
  <2>2. proc[n] = None /\ tool' = tool
    BY <1>1, <1>2, <2>1, Received DEF HandleAdd, HandleRemove, HandleUpdate, HandleList
  <2>3. \A m \in Nodes : m # n => proc'[m] = proc[m]
    BY <1>1, <1>2 DEF HandleAdd, HandleRemove, HandleUpdate, HandleList, TypeOK
  <2>4. ASSUME proc'[n] # None, proc'[n].op = "clear"
        PROVE  op = "Remove" /\ proc'[n].job = Head(chan[n]).job
    BY <1>1, <1>2, <2>1, <2>2, <2>4 DEF HandleAdd, HandleRemove, HandleUpdate, HandleList, TypeOK
  <2> QED
    BY <1>1, <2>1, <2>2, <2>3, <2>4, PendingReceived
<1>3. CASE HandleError(n)
  <2>1. PICK op \in {"Add", "Remove", "UpdateStatus", "List"} : Receive(n, op)
    BY <1>3 DEF HandleError
  <2>2. Head(chan[n]).op = op
    BY <1>1, <2>1, Received
  <2>3. /\ tool' = tool
        /\ proc' = [proc EXCEPT ![n] = IF Head(chan[n]).op = "Remove"
                                       THEN [op |-> "clear", job |-> Head(chan[n]).job] ELSE None]
    BY <1>3 DEF HandleError
  <2>4. /\ proc'[n] # None => op = "Remove" /\ proc'[n].job = Head(chan[n]).job
        /\ \A m \in Nodes : m # n => proc'[m] = proc[m]
    BY <1>1, <2>2, <2>3 DEF TypeOK
  <2> QED
    BY <1>1, <2>1, <2>3, <2>4, PendingReceived
<1> QED
  BY <1>2, <1>3

(* The processor writes; the tool does what it was ordered.                 *)
LEMMA TaskPending ==
  ASSUME Known, NEW n \in Nodes, ProcWrite(n) \/ ProcClear(n) \/ ProcError(n) \/ Tool(n)
  PROVE  \A m \in Nodes : PendingFrom(m)
<1>1. TypeOK
  BY DEF Known
<1>2. CASE ProcWrite(n) \/ ProcClear(n) \/ ProcError(n)
  <2>1. proc' = [proc EXCEPT ![n] = None] /\ chan' = chan /\ tool' = tool
    BY <1>2 DEF ProcWrite, ProcClear, ProcError
  <2>2. \A m \in Nodes : proc'[m] = proc[m] \/ proc'[m] = None
    BY <1>1, <2>1 DEF TypeOK
  <2> QED
    BY <2>1, <2>2 DEF PendingFrom
<1>3. CASE ToolSend(n)
  <2>1. PICK o \in Orders :
          /\ Send(n, [op |-> IF o[1] = "add" THEN "Add" ELSE "Remove", job |-> o[2]])
          /\ tool' = [tool EXCEPT ![n] = [op |-> o[1], job |-> o[2], edit |-> FALSE]]
    BY <1>3 DEF ToolSend
  <2>2. PICK cmd : cmd = [op |-> IF o[1] = "add" THEN "Add" ELSE "Remove", job |-> o[2]]
    OBVIOUS
  <2>3. o[1] \in {"add", "remove"} /\ o[2] \in Jobs
    BY <2>1, JobAssumption
  <2>4. cmd \in Command /\ Send(n, cmd) /\ cmd.op = Ordered(o) /\ cmd.job = o[2] /\ proc' = proc
    BY <1>3, <2>1, <2>2, <2>3 DEF Command, Ordered, ToolSend
  <2> QED
    BY <1>1, <2>1, <2>4, PendingSent
<1>4. CASE ToolWrite(n) \/ ToolEdit(n)
  <2>1. /\ tool' = [tool EXCEPT ![n].edit = TRUE] \/ tool' = [tool EXCEPT ![n] = None]
        /\ tool[n] # None /\ chan' = chan /\ proc' = proc
    BY <1>4 DEF ToolWrite, ToolEdit
  <2>2. PICK t \in [op : {"add", "remove"}, job : Jobs, edit : BOOLEAN] : t = tool[n]
    BY <1>1, <2>1 DEF TypeOK
  <2>3. /\ tool'[n] = [t EXCEPT !.edit = TRUE] \/ tool'[n] = None
        /\ \A m \in Nodes : m # n => tool'[m] = tool[m]
    <3>1. tool \in [Nodes -> [op : {"add", "remove"}, job : Jobs, edit : BOOLEAN] \cup {None}]
      BY <1>1 DEF TypeOK
    <3>2. tool' = [tool EXCEPT ![n] = [t EXCEPT !.edit = TRUE]] \/ tool' = [tool EXCEPT ![n] = None]
      BY <2>1, <2>2, <3>1
    <3> QED
      BY <3>1, <3>2
  <2>4. [t EXCEPT !.edit = TRUE].op = t.op /\ [t EXCEPT !.edit = TRUE].job = t.job
    BY <2>2
  <2>5. PendingFrom(n)
    BY <2>1, <2>2, <2>3, <2>4 DEF PendingFrom
  <2> QED
    BY <2>1, <2>3, <2>5, PendingStays
<1> QED
  BY <1>2, <1>3, <1>4 DEF Tool

(* Crash: nothing is pending.                                               *)
LEMMA CrashPending ==
  ASSUME Known, NEW n \in Nodes, Crash(n)
  PROVE  \A m \in Nodes : PendingFrom(m)
<1>1. /\ chan'[n] = <<>> /\ proc'[n] = None /\ tool'[n] = None
      /\ \A m \in Nodes : m # n => chan'[m] = chan[m] /\ proc'[m] = proc[m] /\ tool'[m] = tool[m]
  BY DEF Known, TypeOK, Crash
<1>2. PendingFrom(n)
  BY <1>1 DEF PendingFrom
<1> QED
  BY <1>1, <1>2, PendingStays

(* So it is at every step, on every node.                                   *)
LEMMA StepPending ==
  ASSUME Known, [Next]_vars
  PROVE  \A m \in Nodes : PendingFrom(m)
<1>1. CASE Tick \/ UNCHANGED vars
  BY <1>1, PendingStays DEF Tick, vars
<1>2. ASSUME NEW n \in Nodes, Boot(n) \/ Poll(n) \/ Process(n) \/ Fault(n) \/ Tool(n) \/ Crash(n)
      PROVE  \A m \in Nodes : PendingFrom(m)
  <2>1. CASE QuietLoop(n)
    BY <2>1, LoopPending
  <2>2. CASE HandleAdd(n) \/ HandleRemove(n) \/ HandleUpdate(n) \/ HandleList(n) \/ HandleError(n)
    BY <2>2, HandlerPending
  <2>3. CASE ProcWrite(n) \/ ProcClear(n) \/ ProcError(n) \/ Tool(n)
    BY <2>3, TaskPending
  <2>4. CASE Crash(n)
    BY <2>4, CrashPending
  <2>5. CASE \/ Boot(n) \/ BootError(n) \/ Claim(n) \/ Mark(n) \/ PollError(n)
             \/ Release(n) \/ ReleaseError(n)
    <3>1. UNCHANGED <<chan, proc, tool>>
      BY <2>5 DEF Boot, BootError, SeedWith, Claim, Mark, PollError, Release, ReleaseError
    <3> QED
      BY <3>1, PendingStays
  <2> QED
    BY <1>2, <2>1, <2>2, <2>3, <2>4, <2>5 DEF Poll, Process, Fault, QuietLoop
<1> QED
  BY <1>1, <1>2 DEF Next

(* Without an order to remove a job there is no removal of it.              *)
LEMMA RemovalNever ==
  ASSUME Known, NoRemoval, [Next]_vars
  PROVE  NoRemoval'
<1>1. \A o \in Orders : Ordered(o) = "Remove" \/ o[1] = "remove" => o[2] \notin Lasting
  <2> SUFFICES ASSUME NEW o \in Orders, Ordered(o) = "Remove" \/ o[1] = "remove"
               PROVE  o[2] \notin Lasting
    OBVIOUS
  <2>1. o[1] \in {"add", "remove"} /\ o = <<o[1], o[2]>>
    BY JobAssumption
  <2>2. o[1] = "remove"
    BY <2>1 DEF Ordered
  <2> QED
    BY <2>1, <2>2 DEF Lasting
<1>2. ASSUME NEW m \in Nodes PROVE NothingRemoved(m)'
  <2>1. NothingRemoved(m) /\ PendingFrom(m)
    BY StepPending DEF NoRemoval
  <2>2. \A i \in 1..Len(chan'[m]) : chan'[m][i].op = "Remove" => chan'[m][i].job \notin Lasting
    BY <1>1, <2>1 DEF NothingRemoved, PendingFrom
  <2>3. tool'[m] # None /\ tool'[m].op = "remove" => tool'[m].job \notin Lasting
    BY <1>1, <2>1 DEF NothingRemoved, PendingFrom
  <2>4. proc'[m] # None /\ proc'[m].op = "clear" => proc'[m].job \notin Lasting
    BY <2>1 DEF NothingRemoved, PendingFrom
  <2> QED
    BY <2>2, <2>3, <2>4 DEF NothingRemoved, Lasting
<1> QED
  BY <1>2 DEF NoRemoval

LEMMA LastingJobs == Lasting \subseteq Jobs
BY DEF Lasting

(* A claim whose row is where it was.                                       *)
LEMMA HeldKept ==
  ASSUME TypeOK, NEW m \in Nodes, NEW j \in Jobs, HeldLease(m, j),
         held'[m][j] = held[m][j] \/ held'[m][j] = 0,
         clock' \in Nat, clock' >= clock,
         held[m][j] > clock => life'[m] = life[m] /\ jobLease'[j] = jobLease[j]
  PROVE  HeldLease(m, j)'
<1>1. clock \in Nat /\ held[m][j] \in Nat
  BY DEF TypeOK, Times
<1>2. held'[m][j] > clock' => held'[m][j] = held[m][j] /\ held[m][j] > clock
  BY <1>1
<1> QED
  BY <1>2 DEF HeldLease, WorkerId

(* The quiet steps leave every claim its row.                               *)
LEMMA QuietHeld ==
  ASSUME Known, ClaimInv, NEW n \in Nodes, Quiet(n)
  PROVE  \A m \in Nodes : \A j \in Lasting : HeldLease(m, j)'
<1>1. TypeOK /\ clock \in Nat
  BY DEF Known, TypeOK, Times
<1>2. UNCHANGED <<clock, jobLease, life, held>>
  BY DEF Quiet
<1> SUFFICES ASSUME NEW m \in Nodes, NEW j \in Jobs, j \in Lasting PROVE HeldLease(m, j)'
  BY LastingJobs
<1>3. HeldLease(m, j)
  BY DEF ClaimInv
<1> QED
  BY <1>1, <1>2, <1>3, HeldKept

(* Claim: whoever had an unexpired claim on the job is the claimant.        *)
LEMMA ClaimHeld ==
  ASSUME Known, ClaimInv, NEW n \in Nodes, Claim(n)
  PROVE  \A m \in Nodes : \A j \in Lasting : HeldLease(m, j)'
<1>1. TypeOK /\ clock \in Nat /\ clock + Lease \in Nat
  BY SeedTypes DEF Known
<1>2. PICK j \in Oldest(n) :
        /\ CanAcquire(jobLease[j], WorkerId(n))
        /\ jobLease' = [jobLease EXCEPT ![j] = [worker |-> WorkerId(n), until |-> clock + Lease]]
        /\ held' = [held EXCEPT ![n][j] = clock + Lease]
  BY DEF Claim
<1>3. j \in Jobs
  BY <1>1, <1>2, CopyOf
<1>4. life' = life /\ clock' = clock /\ UNCHANGED <<chan, proc, tool>>
  BY DEF Claim, otherVars
<1>5. /\ jobLease'[j] = [worker |-> WorkerId(n), until |-> clock + Lease]
      /\ \A i \in Jobs : i # j => jobLease'[i] = jobLease[i]
      /\ held'[n][j] = clock + Lease
      /\ \A m \in Nodes, i \in Jobs : m # n \/ i # j => held'[m][i] = held[m][i]
  BY <1>1, <1>2, <1>3 DEF TypeOK
<1>6. ASSUME NEW m \in Nodes, NEW i \in Jobs, i \in Lasting PROVE HeldLease(m, i)'
  <2>1. HeldLease(m, i)
    BY <1>6 DEF ClaimInv
  <2>2. CASE m = n /\ i = j
    <3>1. jobLease'[j] # None /\ WorkerId(n)' = WorkerId(n)
      BY <1>1, <1>4, <1>5, SeedTypes, NoneAssumption DEF WorkerId
    <3> QED
      BY <1>1, <1>5, <2>2, <3>1 DEF HeldLease
  <2>3. CASE i # j
    BY <1>1, <1>4, <1>5, <2>1, <2>3, HeldKept
  <2>4. CASE m # n /\ i = j
    <3>1. ~ (held[m][j] > clock)
      <4> SUFFICES ASSUME held[m][j] > clock PROVE FALSE
        OBVIOUS
      <4>1. jobLease[j] # None /\ jobLease[j].worker = <<m, life[m]>> /\ jobLease[j].until >= held[m][j]
        BY <2>1, <2>4 DEF HeldLease, WorkerId
      <4>2. jobLease[j].until \in Nat /\ held[m][j] \in Nat
        BY <1>1, <1>3, <4>1, LeaseHolder DEF TypeOK
      <4>3. jobLease[j].worker = <<n, life[n]>> \/ jobLease[j].until <= clock
        BY <1>2, <4>1 DEF CanAcquire, WorkerId
      <4> QED
        BY <1>1, <2>4, <4>1, <4>2, <4>3
    <3> QED
      BY <1>1, <1>4, <1>5, <2>1, <2>4, <3>1, HeldKept
  <2> QED
    BY <2>2, <2>3, <2>4
<1> QED
  BY <1>6, LastingJobs

(* Boot, Mark, PollError, Release and ReleaseError: a claim may go, a row   *)
(* of another goes with none.                                               *)
LEMMA LoopHeld ==
  ASSUME Known, ClaimInv, NEW n \in Nodes,
         Boot(n) \/ BootError(n) \/ Mark(n) \/ PollError(n) \/ Release(n) \/ ReleaseError(n)
  PROVE  \A m \in Nodes : \A j \in Lasting : HeldLease(m, j)'
<1>1. TypeOK /\ Shape(n) /\ clock \in Nat
  BY DEF Known, TypeOK, Times
<1>2. clock' = clock /\ UNCHANGED <<chan, proc, tool>>
  BY DEF Boot, BootError, SeedWith, Mark, PollError, Release, ReleaseError, otherVars
<1>3. ASSUME NEW m \in Nodes, NEW j \in Jobs, j \in Lasting PROVE HeldLease(m, j)'
  <2>1. HeldLease(m, j)
    BY <1>3 DEF ClaimInv
  <2>2. CASE Boot(n) \/ BootError(n)
    <3>1. jobLease' = jobLease /\ held' = held /\ life' = [life EXCEPT ![n] = @ + 1] /\ pc[n] = "down"
      BY <2>2 DEF Boot, BootError, SeedWith, storeVars
    <3>2. m # n => life'[m] = life[m]
      BY <1>1, <3>1 DEF TypeOK
    <3>3. m = n => ~ (held[m][j] > clock)
      BY <1>1, <3>1 DEF Shape, LoopHas
    <3> QED
      BY <1>1, <1>2, <2>1, <3>1, <3>2, <3>3, HeldKept
  <2>3. CASE Mark(n)
    <3>1. jobLease' = jobLease /\ held' = held /\ life' = life
      BY <2>3 DEF Mark, otherVars
    <3> QED
      BY <1>1, <1>2, <2>1, <3>1, HeldKept
  <2>4. CASE PollError(n)
    <3>1. jobLease' = jobLease /\ life' = life /\ (held'[m][j] = held[m][j] \/ held'[m][j] = 0)
      BY <1>1, <2>4 DEF PollError, storeVars, otherVars, TypeOK
    <3> QED
      BY <1>1, <1>2, <2>1, <3>1, HeldKept
  <2>5. CASE Release(n) \/ ReleaseError(n)
    <3>1. PICK h \in Jobs : h = Head(events[n])
      BY <1>1, <2>5, EventHead DEF Release, ReleaseError, Shape, LoopHas, Started
    <3>2. /\ life' = life /\ held' = [held EXCEPT ![n][h] = 0]
          /\ \/ jobLease' = jobLease
             \/ jobLease' = [jobLease EXCEPT ![h] = IF @ # None /\ @.worker = WorkerId(n) THEN None ELSE @]
      BY <2>5, <3>1 DEF Release, ReleaseError, NextEvent, storeVars, otherVars
    <3>3. /\ held'[m][j] = IF m = n /\ j = h THEN 0 ELSE held[m][j]
          /\ jobLease'[j] = jobLease[j] \/ (j = h /\ jobLease[h] # None /\ jobLease[h].worker = WorkerId(n))
      BY <1>1, <3>1, <3>2 DEF TypeOK
    <3>4. CASE m = n /\ j = h
      <4>1. held'[m][j] = 0
        BY <3>3, <3>4
      <4> QED
        BY <1>1, <1>2, <4>1 DEF HeldLease
    <3>5. CASE ~ (m = n /\ j = h)
      <4>1. held[m][j] > clock => jobLease'[j] = jobLease[j]
        BY <2>1, <3>3, <3>5 DEF HeldLease, WorkerId
      <4> QED
        BY <1>1, <1>2, <2>1, <3>2, <3>3, <3>5, <4>1, HeldKept
    <3> QED
      BY <3>4, <3>5
  <2> QED
    BY <2>2, <2>3, <2>4, <2>5
<1> QED
  BY <1>3, LastingJobs

(* Crash: the claims of the node are forgotten.                             *)
LEMMA CrashHeld ==
  ASSUME Known, ClaimInv, NEW n \in Nodes, Crash(n)
  PROVE  \A m \in Nodes : \A j \in Lasting : HeldLease(m, j)'
<1>1. TypeOK /\ clock \in Nat
  BY DEF Known, TypeOK, Times
<1>2. /\ clock' = clock /\ life' = life /\ jobLease' = jobLease
      /\ held' = [held EXCEPT ![n] = [j \in Jobs |-> 0]]
      /\ chan' = [chan EXCEPT ![n] = <<>>] /\ proc' = [proc EXCEPT ![n] = None]
      /\ tool' = [tool EXCEPT ![n] = None]
  BY DEF Crash, storeVars, otherVars
<1>3. ASSUME NEW m \in Nodes, NEW j \in Jobs, j \in Lasting PROVE HeldLease(m, j)'
  <2>1. HeldLease(m, j) /\ (held'[m][j] = held[m][j] \/ held'[m][j] = 0)
    BY <1>1, <1>2, <1>3 DEF ClaimInv, TypeOK
  <2> QED
    BY <1>1, <1>2, <2>1, HeldKept
<1> QED
  BY <1>3, LastingJobs

(* Every step leaves every unexpired claim its row.                         *)
LEMMA ClaimInductive == Known /\ ClaimInv /\ [Next]_vars => ClaimInv'
<1> SUFFICES ASSUME Known, ClaimInv, [Next]_vars PROVE ClaimInv'
  OBVIOUS
<1>1. TypeOK /\ NoRemoval /\ clock \in Nat
  BY DEF Known, ClaimInv, TypeOK, Times
<1>2. CASE Tick \/ UNCHANGED vars
  <2>1. UNCHANGED <<jobLease, life, held>>
    BY <1>2 DEF Tick, vars, storeVars, loopVars
  <2>2. clock' \in Nat /\ clock' >= clock
    BY <1>1, <1>2 DEF Tick, vars
  <2>3. ASSUME NEW m \in Nodes, NEW j \in Jobs, j \in Lasting PROVE HeldLease(m, j)'
    BY <1>1, <2>1, <2>2, <2>3, HeldKept DEF ClaimInv
  <2> QED
    BY <1>1, <2>3, RemovalNever, LastingJobs DEF ClaimInv, Lasting
<1>3. ASSUME NEW n \in Nodes, Boot(n) \/ Poll(n) \/ Process(n) \/ Fault(n) \/ Tool(n) \/ Crash(n)
      PROVE  \A m \in Nodes : \A j \in Lasting : HeldLease(m, j)'
  <2>1. CASE QuietLoop(n) \/ QuietTask(n)
    BY <1>1, <2>1, LoopIsQuiet, TaskIsQuiet, QuietHeld
  <2>2. CASE Claim(n)
    BY <2>2, ClaimHeld
  <2>3. CASE Boot(n) \/ BootError(n) \/ Mark(n) \/ PollError(n) \/ Release(n) \/ ReleaseError(n)
    BY <2>3, LoopHeld
  <2>4. CASE Crash(n)
    BY <2>4, CrashHeld
  <2>5. CASE ProcClear(n)
    <3>1. proc[n].job \notin Lasting
      BY <1>1, <2>5 DEF ProcClear, NoRemoval, NothingRemoved
    <3>2. /\ UNCHANGED <<clock, life, held>>
          /\ jobLease' = [jobLease EXCEPT ![proc[n].job] = None]
      BY <2>5 DEF ProcClear, otherVars, loopVars
    <3>3. ASSUME NEW m \in Nodes, NEW j \in Jobs, j \in Lasting PROVE HeldLease(m, j)'
      <4>1. HeldLease(m, j) /\ jobLease'[j] = jobLease[j]
        BY <1>1, <3>1, <3>2, <3>3 DEF ClaimInv, TypeOK
      <4> QED
        BY <1>1, <3>2, <4>1, HeldKept
    <3> QED
      BY <3>3, LastingJobs
  <2> QED
    BY <1>3, <2>1, <2>2, <2>3, <2>4, <2>5 DEF Poll, Process, Fault, QuietLoop, QuietTask
<1>4. ASSUME NEW n \in Nodes, Boot(n) \/ Poll(n) \/ Process(n) \/ Fault(n) \/ Tool(n) \/ Crash(n)
      PROVE  ClaimInv'
  <2>1. \A m \in Nodes : \A j \in Lasting : HeldLease(m, j)'
    BY <1>3, <1>4
  <2> QED
    BY <1>1, <2>1, RemovalNever DEF ClaimInv, Lasting
<1> QED
  BY <1>2, <1>4 DEF Next

(* Two workers never both have an unexpired claim on a job, on any number   *)
(* of nodes and whatever fails or restarts, as long as manage_cron is not   *)
(* asked to remove that job.                                                *)
THEOREM ClaimsExclusive == Spec => []ClaimExclusive
<1>1. Init => ClaimInv
  BY LastingJobs DEF Init, ClaimInv, NoRemoval, NothingRemoved, HeldLease
<1>2. Known /\ ClaimInv => ClaimExclusive
  BY DEF ClaimInv, HeldLease, WorkerId, ClaimExclusive
<1> QED
  BY <1>1, <1>2, ClaimInductive, AlwaysKnown, PTL DEF Spec

-----------------------------------------------------------------------------
(* The life cycle of a Once job.                                            *)

(* A step that moves no Once job.                                           *)
OnceCalm == \A j \in Once : Phase(snap'[j]) = Phase(snap[j]) /\ runs'[j] = runs[j]

(* A step that moves one of them the way the life cycle goes.               *)
OnceMoves(j) ==
  /\ \A i \in Once : i # j => Phase(snap'[i]) = Phase(snap[i]) /\ runs'[i] = runs[i]
  /\ \/ /\ runs'[j] = runs[j]
        /\ \/ Phase(snap[j]) = "absent" /\ Phase(snap'[j]) = "scheduled"
           \/ Phase(snap[j]) = "scheduled" /\ Phase(snap'[j]) = "dispatched"
           \/ Phase(snap[j]) = "dispatched" /\ Phase(snap'[j]) = "settled" /\ runs[j] = 1
     \/ /\ Phase(snap[j]) = "dispatched" /\ Phase(snap'[j]) = "dispatched"
        /\ runs[j] = 0 /\ runs'[j] = 1

OnceMove == OnceCalm \/ \E j \in Once : OnceMoves(j)

(* A move keeps the count of the executions in step with the phase.         *)
LEMMA MoveRan ==
  ASSUME OnceMove, NEW j \in Once, OnceRan(j)
  PROVE  OnceRan(j)'
<1>1. CASE OnceCalm
  BY <1>1 DEF OnceCalm, OnceRan
<1>2. ASSUME NEW i \in Once, OnceMoves(i) PROVE OnceRan(j)'
  <2>1. CASE i = j
    BY <1>2, <2>1 DEF OnceMoves, OnceRan
  <2>2. CASE i # j
    BY <1>2, <2>2 DEF OnceMoves, OnceRan
  <2> QED
    BY <2>1, <2>2
<1> QED
  BY <1>1, <1>2 DEF OnceMove

(* A move of the scheduler is a step of the life cycle, or none.            *)
LEMMA MoveImplements ==
  ASSUME OnceMove
  PROVE  [Lifecycle!Next]_<<[j \in Once |-> Phase(snap[j])], [j \in Once |-> runs[j]]>>
<1>1. CASE OnceCalm
  <2>1. [j \in Once |-> Phase(snap'[j])] = [j \in Once |-> Phase(snap[j])]
    BY <1>1 DEF OnceCalm
  <2>2. [j \in Once |-> runs'[j]] = [j \in Once |-> runs[j]]
    BY <1>1 DEF OnceCalm
  <2> QED
    BY <2>1, <2>2
<1>2. ASSUME NEW j \in Once, OnceMoves(j) PROVE Lifecycle!Next
  <2>1. /\ \A i \in Once : i # j => Phase(snap'[i]) = Phase(snap[i])
        /\ \A i \in Once : i # j => runs'[i] = runs[i]
    BY <1>2 DEF OnceMoves
  <2>2. [i \in Once |-> Phase(snap'[i])]
          = [[i \in Once |-> Phase(snap[i])] EXCEPT ![j] = Phase(snap'[j])]
    BY <2>1
  <2>3. [i \in Once |-> runs'[i]] = [[i \in Once |-> runs[i]] EXCEPT ![j] = runs'[j]]
    BY <2>1
  <2>4. CASE runs'[j] = runs[j] /\ Phase(snap[j]) = "absent" /\ Phase(snap'[j]) = "scheduled"
    <3>1. [i \in Once |-> runs'[i]] = [i \in Once |-> runs[i]]
      BY <2>1, <2>4
    <3>2. Lifecycle!Schedule(j)
      BY <2>2, <2>4, <3>1 DEF Lifecycle!Schedule, Lifecycle!Move
    <3> QED
      BY <3>2 DEF Lifecycle!Next
  <2>5. CASE runs'[j] = runs[j] /\ Phase(snap[j]) = "scheduled" /\ Phase(snap'[j]) = "dispatched"
    <3>1. [i \in Once |-> runs'[i]] = [i \in Once |-> runs[i]]
      BY <2>1, <2>5
    <3>2. Lifecycle!Dispatch(j)
      BY <2>2, <2>5, <3>1 DEF Lifecycle!Dispatch, Lifecycle!Move
    <3> QED
      BY <3>2 DEF Lifecycle!Next
  <2>6. CASE /\ runs'[j] = runs[j] /\ Phase(snap[j]) = "dispatched" /\ Phase(snap'[j]) = "settled"
             /\ runs[j] = 1
    <3>1. [i \in Once |-> runs'[i]] = [i \in Once |-> runs[i]]
      BY <2>1, <2>6
    <3>2. Lifecycle!Settle(j)
      BY <2>2, <2>6, <3>1 DEF Lifecycle!Settle, Lifecycle!Move
    <3> QED
      BY <3>2 DEF Lifecycle!Next
  <2>7. CASE /\ Phase(snap[j]) = "dispatched" /\ Phase(snap'[j]) = "dispatched"
             /\ runs[j] = 0 /\ runs'[j] = 1
    <3>1. [i \in Once |-> Phase(snap'[i])] = [i \in Once |-> Phase(snap[i])]
      BY <2>1, <2>7
    <3>2. Lifecycle!Run(j)
      BY <2>3, <2>7, <3>1 DEF Lifecycle!Run
    <3> QED
      BY <3>2 DEF Lifecycle!Next
  <2> QED
    BY <1>2, <2>4, <2>5, <2>6, <2>7 DEF OnceMoves
<1> QED
  BY <1>1, <1>2 DEF OnceMove

(* The phase of a snapshot is that of its status, whenever it was written.  *)
LEMMA PhaseOf ==
  ASSUME NEW s \in Snapshot
  PROVE  /\ s # None /\ Phase(s) \in {"scheduled", "dispatched", "settled"}
         /\ s.status = "Scheduled" => Phase(s) = "scheduled"
         /\ s.status = "Dispatched" => Phase(s) = "dispatched"
         /\ s.status \in Settled => Phase(s) = "settled"
         /\ \A t \in Times : Phase([s EXCEPT !.updated = t]) = Phase(s)
         /\ Phase(None) = "absent"
<1>1. s # None /\ Phase(None) = "absent"
  BY NoneAssumption DEF Phase
<1>2. s.status \in Status
  BY DEF Snapshot
<1>3. /\ Phase(s) \in {"scheduled", "dispatched", "settled"}
      /\ s.status = "Scheduled" => Phase(s) = "scheduled"
      /\ s.status = "Dispatched" => Phase(s) = "dispatched"
      /\ s.status \in Settled => Phase(s) = "settled"
  BY <1>1, <1>2 DEF Phase, Status, Settled
<1>4. ASSUME NEW t \in Times PROVE Phase([s EXCEPT !.updated = t]) = Phase(s)
  <2>1. [s EXCEPT !.updated = t] \in Snapshot /\ [s EXCEPT !.updated = t].status = s.status
    BY DEF Snapshot
  <2>2. [s EXCEPT !.updated = t] # None
    BY <2>1, NoneAssumption
  <2> QED
    BY <1>1, <2>1, <2>2 DEF Phase
<1> QED
  BY <1>1, <1>3, <1>4

(* A node whose events and answer are what they were.                       *)
LEMMA NodeKept ==
  ASSUME NEW n \in Nodes, OnceNode(n), OnceCalm, events'[n] = events[n],
         pc'[n] \in Started <=> pc[n] \in Started,
         pc'[n] \in {"seed", "claim", "mark"} =>
           /\ pc[n] = "seed" <=> pc'[n] = "seed"
           /\ pc[n] \in {"seed", "claim", "mark"}
           /\ \A j \in Once : copies'[n][j] # None => copies'[n][j] = copies[n][j],
         pc'[n] = "persist" =>
           \/ pc[n] = "persist" /\ reply'[n] = reply[n]
           \/ reply'[n] = None
           \/ Head(events[n]) \in Once => Phase(snap[Head(events[n])]) = Phase(reply'[n])
  PROVE  OnceNode(n)'
<1>1. ASSUME NEW j \in Once PROVE OnceCopied(n, j)'
  BY DEF OnceNode, OnceCopied, OnceCalm
<1>2. ASSUME NEW j \in Once, NEW i \in 1..Len(events[n]) PROVE OnceEvent(n, i, j)'
  <2>1. OnceEvent(n, i, j)
    BY DEF OnceNode
  <2> QED
    BY <2>1 DEF OnceEvent, OnceCalm
<1>3. OnceReplied(n)'
  BY DEF OnceNode, OnceReplied, OnceCalm
<1> QED
  BY <1>1, <1>2, <1>3 DEF OnceNode

(* A node with no event and no copy.                                        *)
LEMMA NodeIdle ==
  ASSUME NEW n \in Nodes, events'[n] = <<>>, pc'[n] \in {"down", "wait"}
  PROVE  OnceNode(n)'
BY DEF OnceNode, OnceCopied, OnceReplied

(* What the invariant says to a step of node n.                             *)
OnceKnown(n) ==
  /\ TypeOK /\ Shape(n) /\ OnceNode(n) /\ LeftAlone(n)
  /\ \A j \in Once : OnceRan(j)

(* SeedWrite: a job from the config is scheduled, one from the store stays  *)
(* what it was.                                                             *)
LEMMA SeedOnce ==
  ASSUME NEW n \in Nodes, OnceKnown(n), SeedWrite(n)
  PROVE  OnceMove /\ OnceNode(n)'
<1>1. TypeOK /\ OnceNode(n) /\ pc[n] = "seed" /\ events[n] = <<>>
  BY DEF OnceKnown, Shape, LoopHas, SeedWrite
<1>2. PICK j \in Oldest(n) :
        /\ snap' = [snap EXCEPT ![j] = [copies[n][j] EXCEPT !.updated = stamp[n]]]
        /\ copies' = [copies EXCEPT ![n][j] = None]
        /\ pc' = [pc EXCEPT ![n] = IF InHand(n) = {j} THEN "wait" ELSE "seed"]
  BY DEF SeedWrite, Put, PutBack, Goto
<1>3. j \in Jobs /\ copies[n][j] \in Snapshot /\ copies[n][j] # None /\ stamp[n] \in Times
  BY <1>1, <1>2, CopyOf, SeedTypes
<1>4. runs' = runs /\ events' = events
  BY DEF SeedWrite
<1>5. /\ Phase(snap'[j]) = Phase(copies[n][j])
      /\ \A i \in Jobs : i # j => snap'[i] = snap[i] /\ copies'[n][i] = copies[n][i]
      /\ copies'[n][j] = None /\ pc'[n] \in {"wait", "seed"}
  BY <1>1, <1>2, <1>3, PhaseOf DEF TypeOK
<1>6. Once \subseteq Jobs
  BY JobAssumption
<1>7. OnceMove
  <2>1. CASE j \notin Once
    BY <1>4, <1>5, <1>6, <2>1 DEF OnceMove, OnceCalm
  <2>2. CASE j \in Once
    <3>1. \/ Phase(snap[j]) = "absent" /\ Phase(copies[n][j]) = "scheduled"
          \/ Phase(snap[j]) = Phase(copies[n][j])
      BY <1>1, <1>3, <2>2 DEF OnceNode, OnceCopied
    <3>2. CASE Phase(snap[j]) = Phase(copies[n][j])
      BY <1>4, <1>5, <1>6, <3>2 DEF OnceMove, OnceCalm
    <3>3. CASE Phase(snap[j]) = "absent" /\ Phase(copies[n][j]) = "scheduled"
      <4>1. OnceMoves(j)
        BY <1>4, <1>5, <1>6, <3>3 DEF OnceMoves
      <4> QED
        BY <2>2, <4>1 DEF OnceMove
    <3> QED
      BY <3>1, <3>2, <3>3
  <2> QED
    BY <2>1, <2>2
<1>8. OnceNode(n)'
  <2>1. ASSUME NEW i \in Once PROVE OnceCopied(n, i)'
    BY <1>1, <1>5, <1>6, <2>1 DEF OnceNode, OnceCopied
  <2>2. OnceReplied(n)' /\ events'[n] = <<>>
    BY <1>1, <1>4, <1>5 DEF OnceReplied
  <2> QED
    BY <2>1, <2>2 DEF OnceNode
<1> QED
  BY <1>7, <1>8

(* Boot: the copies are what the store has, or it has nothing.              *)
LEMMA BootOnce ==
  ASSUME NEW n \in Nodes, OnceKnown(n), Boot(n)
  PROVE  OnceMove /\ OnceNode(n)'
<1> DEFINE boot == IF \E j \in Jobs : snap[j] # None THEN snap
                   ELSE [j \in Jobs |-> IF j \in config[n] THEN Fresh(clock) ELSE None]
<1>1. /\ TypeOK /\ events[n] = <<>> /\ Once \subseteq Jobs
      /\ copies \in [Nodes -> [Jobs -> Snapshot \cup {None}]]
  BY JobAssumption DEF OnceKnown, Shape, LoopHas, Boot, SeedWith, TypeOK
<1>2. /\ snap' = snap /\ runs' = runs /\ events' = events
      /\ copies' = [copies EXCEPT ![n] = boot]
      /\ pc' = [pc EXCEPT ![n] = IF boot = NoCopies THEN "wait" ELSE "seed"]
  BY DEF Boot, SeedWith, storeVars, Goto
<1>3. copies'[n] = boot /\ pc'[n] \in {"wait", "seed"}
  BY <1>1, <1>2 DEF TypeOK
<1>4. OnceMove
  BY <1>2 DEF OnceMove, OnceCalm
<1>5. ASSUME NEW j \in Once PROVE OnceCopied(n, j)'
  <2>1. CASE \E i \in Jobs : snap[i] # None
    BY <1>2, <1>3, <2>1 DEF OnceCopied
  <2>2. CASE ~ \E i \in Jobs : snap[i] # None
    <3>1. snap[j] = None /\ Fresh(clock) \in Snapshot /\ Fresh(clock).status = "Scheduled"
      BY <1>1, <2>2, SeedTypes DEF Fresh
    <3>2. boot[j] # None => boot[j] = Fresh(clock)
      BY <1>1, <2>2
    <3>3. Phase(Fresh(clock)) = "scheduled" /\ Phase(None) = "absent"
      BY <3>1, PhaseOf
    <3> QED
      BY <1>2, <1>3, <3>1, <3>2, <3>3 DEF OnceCopied
  <2> QED
    BY <2>1, <2>2
<1>6. OnceReplied(n)' /\ events'[n] = <<>>
  BY <1>1, <1>2, <1>3 DEF OnceReplied
<1> QED
  BY <1>4, <1>5, <1>6 DEF OnceNode

(* ListDue: a Once job is due only while it is scheduled.                   *)
LEMMA ListOnce ==
  ASSUME NEW n \in Nodes, OnceKnown(n), ListDue(n)
  PROVE  OnceMove /\ OnceNode(n)'
<1> DEFINE due == {j \in Mine[n] : snap[j] # None /\ IsDue(j, snap[j], clock)}
           read == [j \in Jobs |-> IF j \in due THEN snap[j] ELSE None]
<1>1. TypeOK /\ events[n] = <<>> /\ Once \subseteq Jobs
  BY JobAssumption DEF OnceKnown, Shape, LoopHas, ListDue
<1>2. /\ snap' = snap /\ runs' = runs /\ events' = events
      /\ copies' = [copies EXCEPT ![n] = read]
      /\ pc' = [pc EXCEPT ![n] = NextPoll(due, <<>>)]
  BY DEF ListDue, storeVars, Goto
<1>3. copies'[n] = read /\ pc'[n] \in {"claim", "run", "wait"}
  BY <1>1, <1>2, NextPollWhere DEF TypeOK
<1>4. OnceMove
  BY <1>2 DEF OnceMove, OnceCalm
<1>5. ASSUME NEW j \in Once PROVE OnceCopied(n, j)'
  <2>1. read[j] # None => j \in due
    BY <1>1
  <2>2. j \in due => snap[j] \in Snapshot /\ snap[j].status = "Scheduled"
    BY <1>1 DEF IsDue, TypeOK
  <2>3. j \in due => Phase(snap[j]) = "scheduled"
    BY <2>2, PhaseOf
  <2> HIDE DEF due, read
  <2> QED
    BY <1>2, <1>3, <2>1, <2>3 DEF OnceCopied
<1>6. OnceReplied(n)' /\ events'[n] = <<>>
  BY <1>1, <1>2, <1>3 DEF OnceReplied
<1> QED
  BY <1>4, <1>5, <1>6 DEF OnceNode

(* Mark: the job is dispatched, and had no event.                           *)
LEMMA MarkOnce ==
  ASSUME NEW n \in Nodes, OnceKnown(n), Mark(n)
  PROVE  OnceMove /\ OnceNode(n)'
<1>1. TypeOK /\ OnceNode(n) /\ pc[n] = "mark" /\ Once \subseteq Jobs
  BY JobAssumption DEF OnceKnown, Mark
<1>2. PICK j \in Jobs : j = job[n] /\ copies[n][j] # None
  BY <1>1 DEF OnceKnown, Shape, LoopHas
<1>3. PICK s : s = [status |-> "Dispatched", lastRun |-> stamp[n], updated |-> stamp[n]]
  OBVIOUS
<1>4. /\ snap' = [snap EXCEPT ![j] = s] /\ copies' = [copies EXCEPT ![n][j] = None]
      /\ events' = [events EXCEPT ![n] = Append(@, j)] /\ runs' = runs
      /\ pc' = [pc EXCEPT ![n] = NextPoll(InHand(n) \ {j}, events'[n])]
  BY <1>2, <1>3 DEF Mark, Put, PutBack, Goto
<1>5. Phase(s) = "dispatched"
  <2>1. s \in Snapshot /\ s.status = "Dispatched"
    BY <1>1, <1>3, SeedTypes DEF Snapshot, Status
  <2> QED
    BY <2>1, PhaseOf
<1>6. PICK where : where = NextPoll(InHand(n) \ {j}, events'[n])
  OBVIOUS
<1>7. pc'[n] \in {"claim", "run", "wait"}
  <2>1. where \in {"claim", "run", "wait"} /\ pc' = [pc EXCEPT ![n] = where]
    BY <1>4, <1>6, NextPollWhere
  <2> QED
    BY <1>1, <2>1 DEF TypeOK
<1>8. /\ snap'[j] = s /\ \A i \in Jobs : i # j => snap'[i] = snap[i] /\ copies'[n][i] = copies[n][i]
      /\ copies'[n][j] = None
  BY <1>1, <1>4 DEF TypeOK
<1>9. /\ Len(events'[n]) = Len(events[n]) + 1 /\ Len(events[n]) \in Nat
      /\ events'[n][Len(events[n]) + 1] = j
      /\ \A i \in 1..Len(events[n]) : events'[n][i] = events[n][i]
  <2>1. events[n] \in Seq(Jobs) /\ events'[n] = Append(events[n], j)
    BY <1>1, <1>4 DEF TypeOK
  <2> QED
    BY <2>1
<1>10. j \in Once => Phase(snap[j]) = "scheduled" /\ runs[j] = 0
  BY <1>1, <1>2 DEF OnceNode, OnceCopied, OnceKnown, OnceRan
<1>11. OnceMove
  <2>1. CASE j \notin Once
    BY <1>1, <1>4, <1>8, <2>1 DEF OnceMove, OnceCalm
  <2>2. CASE j \in Once
    <3>1. OnceMoves(j)
      BY <1>1, <1>4, <1>5, <1>8, <1>10, <2>2 DEF OnceMoves
    <3> QED
      BY <2>2, <3>1 DEF OnceMove
  <2> QED
    BY <2>1, <2>2
<1>12. ASSUME NEW k \in Once PROVE OnceCopied(n, k)'
  BY <1>1, <1>7, <1>8, <1>12 DEF OnceNode, OnceCopied
<1>13. ASSUME NEW k \in Once, NEW i \in 1..Len(events'[n]) PROVE OnceEvent(n, i, k)'
  <2> SUFFICES ASSUME events'[n][i] = k PROVE OnceEvent(n, i, k)'
    BY DEF OnceEvent
  <2>1. \A q \in 1..Len(events'[n]) : q \in 1..Len(events[n]) \/ q = Len(events[n]) + 1
    BY <1>9
  <2>2. pc'[n] \notin Started /\ pc[n] \notin Started
    BY <1>1, <1>7 DEF Started
  <2>3. \A q \in 1..Len(events[n]) : \A p \in Once : events[n][q] = p =>
          /\ Phase(snap[p]) \in {"dispatched", "settled"} /\ runs[p] = 0 /\ p # j
          /\ \A r \in 1..Len(events[n]) : events[n][r] = p => r = q
    BY <1>1, <1>10, <2>2 DEF OnceNode, OnceEvent
  <2>4. CASE i \in 1..Len(events[n])
    <3>1. /\ Phase(snap[k]) \in {"dispatched", "settled"} /\ runs[k] = 0 /\ k # j
          /\ \A r \in 1..Len(events[n]) : events[n][r] = k => r = i
      BY <1>9, <2>3, <2>4
    <3>2. \A r \in 1..Len(events'[n]) : events'[n][r] = k => r = i
      BY <1>9, <2>1, <3>1
    <3> QED
      BY <1>1, <1>4, <1>8, <2>2, <3>1, <3>2 DEF OnceEvent
  <2>5. CASE i = Len(events[n]) + 1
    <3>1. k = j
      BY <1>9, <2>5
    <3>2. \A r \in 1..Len(events'[n]) : events'[n][r] = k => r = i
      BY <1>9, <2>1, <2>3, <2>5, <3>1
    <3> QED
      BY <1>4, <1>5, <1>8, <1>10, <2>2, <3>1, <3>2 DEF OnceEvent
  <2> QED
    BY <2>1, <2>4, <2>5
<1>14. OnceReplied(n)'
  BY <1>7 DEF OnceReplied
<1> QED
  BY <1>11, <1>12, <1>13, <1>14 DEF OnceNode

(* Execute: the job had not run.                                            *)
LEMMA ExecuteOnce ==
  ASSUME NEW n \in Nodes, OnceKnown(n), Execute(n)
  PROVE  OnceMove /\ OnceNode(n)'
<1>1. TypeOK /\ OnceNode(n) /\ pc[n] = "run" /\ Once \subseteq Jobs /\ events[n] # <<>>
  BY JobAssumption DEF OnceKnown, Execute, Shape, LoopHas
<1>2. PICK h \in Jobs : h = Head(events[n]) /\ events[n][1] = h /\ 1 \in 1..Len(events[n])
  BY <1>1, EventHead
<1>3. /\ runs' = [runs EXCEPT ![h] = IF @ < MaxRuns THEN @ + 1 ELSE @]
      /\ snap' = snap /\ events' = events /\ pc' = [pc EXCEPT ![n] = "exec"]
  BY <1>2 DEF Execute, Goto, storeVars
<1>4. pc'[n] = "exec" /\ \A i \in Jobs : i # h => runs'[i] = runs[i]
  BY <1>1, <1>2, <1>3 DEF TypeOK
<1>5. ASSUME h \in Once
      PROVE  Phase(snap[h]) = "dispatched" /\ runs[h] = 0 /\ runs'[h] = 1
  <2>1. Phase(snap[h]) \in {"dispatched", "settled"} /\ runs[h] = 0
    BY <1>1, <1>2, <1>5 DEF OnceNode, OnceEvent, Started
  <2>2. Phase(snap[h]) # "settled"
    BY <1>5, <2>1 DEF OnceKnown, OnceRan
  <2>3. runs'[h] = 1
    BY <1>1, <1>3, <2>1 DEF TypeOK, MaxRuns
  <2> QED
    BY <2>1, <2>2, <2>3
<1>6. OnceMove
  <2>1. CASE h \notin Once
    BY <1>1, <1>3, <1>4, <2>1 DEF OnceMove, OnceCalm
  <2>2. CASE h \in Once
    <3>1. OnceMoves(h)
      BY <1>1, <1>3, <1>4, <1>5, <2>2 DEF OnceMoves
    <3> QED
      BY <2>2, <3>1 DEF OnceMove
  <2> QED
    BY <2>1, <2>2
<1>7. ASSUME NEW k \in Once, NEW i \in 1..Len(events[n]) PROVE OnceEvent(n, i, k)'
  <2> SUFFICES ASSUME events[n][i] = k PROVE OnceEvent(n, i, k)'
    BY <1>3 DEF OnceEvent
  <2>1. /\ Phase(snap[k]) \in {"dispatched", "settled"} /\ runs[k] = 0
        /\ \A r \in 1..Len(events[n]) : events[n][r] = k => r = i
    BY <1>1 DEF OnceNode, OnceEvent, Started
  <2>2. CASE i = 1
    BY <1>2, <1>3, <1>4, <1>5, <2>1, <2>2 DEF OnceEvent, Started
  <2>3. CASE i # 1
    <3>1. k # h
      BY <1>2, <2>1, <2>3
    <3> QED
      BY <1>1, <1>3, <1>4, <2>1, <2>3, <3>1 DEF OnceEvent
  <2> QED
    BY <2>2, <2>3
<1>8. ASSUME NEW k \in Once PROVE OnceCopied(n, k)'
  BY <1>4 DEF OnceCopied
<1>9. OnceReplied(n)'
  BY <1>4 DEF OnceReplied
<1> QED
  BY <1>3, <1>6, <1>7, <1>8, <1>9 DEF OnceNode

(* Release: no event behind the head was begun.                             *)
LEMMA ReleaseOnce ==
  ASSUME NEW n \in Nodes, OnceKnown(n), Release(n) \/ ReleaseError(n)
  PROVE  OnceMove /\ OnceNode(n)'
<1>1. TypeOK /\ OnceNode(n) /\ pc[n] = "release" /\ events[n] # <<>>
  BY DEF OnceKnown, Release, ReleaseError, Shape, LoopHas, Started
<1>2. /\ snap' = snap /\ runs' = runs /\ events' = [events EXCEPT ![n] = Tail(@)]
      /\ pc' = [pc EXCEPT ![n] = NextPoll({}, Tail(events[n]))]
  BY DEF Release, ReleaseError, NextEvent, Goto, storeVars
<1>3. PICK where : where = NextPoll({}, Tail(events[n]))
  OBVIOUS
<1>4. pc'[n] \in {"run", "wait"} /\ events'[n] = Tail(events[n])
  BY <1>1, <1>2, <1>3 DEF NextPoll, TypeOK
<1>5. /\ Len(events[n]) \in Nat /\ Len(events[n]) >= 1
      /\ Len(events'[n]) = Len(events[n]) - 1
      /\ \A i \in 1..(Len(events[n]) - 1) : events'[n][i] = events[n][i + 1]
  BY <1>1, <1>4, EventHead
<1>6. OnceMove
  BY <1>2 DEF OnceMove, OnceCalm
<1>7. ASSUME NEW k \in Once, NEW i \in 1..Len(events'[n]) PROVE OnceEvent(n, i, k)'
  <2> SUFFICES ASSUME events'[n][i] = k PROVE OnceEvent(n, i, k)'
    BY DEF OnceEvent
  <2>1. \A q \in 1..Len(events'[n]) : q + 1 \in 1..Len(events[n]) /\ events'[n][q] = events[n][q + 1]
    BY <1>5
  <2>2. i + 1 \in 1..Len(events[n]) /\ events[n][i + 1] = k /\ i + 1 # 1
    BY <2>1
  <2>3. /\ Phase(snap[k]) \in {"dispatched", "settled"} /\ runs[k] = 0
        /\ \A r \in 1..Len(events[n]) : events[n][r] = k => r = i + 1
    BY <1>1, <2>2 DEF OnceNode, OnceEvent
  <2>4. ASSUME NEW r \in 1..Len(events'[n]), events'[n][r] = k PROVE r = i
    <3>1. r + 1 = i + 1
      BY <2>1, <2>3, <2>4
    <3> QED
      BY <3>1
  <2>5. pc'[n] \notin Started
    BY <1>4 DEF Started
  <2> QED
    BY <1>2, <2>3, <2>4, <2>5 DEF OnceEvent
<1>8. ASSUME NEW k \in Once PROVE OnceCopied(n, k)'
  BY <1>4 DEF OnceCopied
<1>9. OnceReplied(n)'
  BY <1>4 DEF OnceReplied
<1> QED
  BY <1>6, <1>7, <1>8, <1>9 DEF OnceNode

(* ProcWrite: the job whose status is written has run.                      *)
LEMMA WriteOnce ==
  ASSUME NEW n \in Nodes, OnceKnown(n), ProcWrite(n)
  PROVE  OnceMove /\ OnceNode(n)'
<1>1. /\ TypeOK /\ OnceNode(n) /\ proc[n] # None /\ proc[n].op = "write" /\ Once \subseteq Jobs
      /\ pc[n] \in {"ask", "reply"} /\ events[n] # <<>>
      /\ proc[n].job = Head(events[n]) /\ proc[n].snap.status \in Settled
  BY JobAssumption DEF OnceKnown, ProcWrite, Shape, ProcHas, LoopHas, Started
<1>2. PICK h \in Jobs : h = Head(events[n]) /\ events[n][1] = h /\ 1 \in 1..Len(events[n])
  BY <1>1, EventHead
<1>3. proc[n].snap \in Snapshot
  BY <1>1 DEF TypeOK
<1>4. snap' = [snap EXCEPT ![h] = proc[n].snap] /\ runs' = runs /\ events' = events /\ pc' = pc
  BY <1>1, <1>2 DEF ProcWrite, Put, loopVars
<1>5. Phase(snap'[h]) = "settled" /\ \A i \in Jobs : i # h => snap'[i] = snap[i]
  BY <1>1, <1>3, <1>4, PhaseOf DEF TypeOK
<1>6. h \in Once => Phase(snap[h]) \in {"dispatched", "settled"} /\ runs[h] = 1
  BY <1>1, <1>2 DEF OnceNode, OnceEvent, Started
<1>7. OnceMove
  <2>1. CASE h \notin Once \/ Phase(snap[h]) = "settled"
    BY <1>1, <1>4, <1>5, <2>1 DEF OnceMove, OnceCalm
  <2>2. CASE h \in Once /\ Phase(snap[h]) = "dispatched"
    <3>1. OnceMoves(h)
      BY <1>1, <1>4, <1>5, <1>6, <2>2 DEF OnceMoves
    <3> QED
      BY <2>2, <3>1 DEF OnceMove
  <2> QED
    BY <1>6, <2>1, <2>2
<1>8. ASSUME NEW k \in Once, NEW i \in 1..Len(events[n]) PROVE OnceEvent(n, i, k)'
  <2>1. OnceEvent(n, i, k)
    BY <1>1 DEF OnceNode
  <2>2. CASE k = h
    BY <1>4, <1>5, <2>1, <2>2 DEF OnceEvent
  <2>3. CASE k # h
    BY <1>1, <1>4, <1>5, <2>1, <2>3 DEF OnceEvent
  <2> QED
    BY <2>2, <2>3
<1>9. ASSUME NEW k \in Once PROVE OnceCopied(n, k)'
  BY <1>1, <1>4 DEF OnceCopied
<1>10. OnceReplied(n)'
  BY <1>1, <1>4 DEF OnceReplied
<1> QED
  BY <1>4, <1>7, <1>8, <1>9, <1>10 DEF OnceNode

(* The other steps of the loop move no Once job; Persist writes the phase   *)
(* the store has.                                                           *)
LEMMA LoopCalm ==
  ASSUME NEW n \in Nodes, OnceKnown(n),
         \/ Lead(n) \/ Claim(n) \/ Skip(n) \/ Finish(n) \/ Report(n) \/ Ask(n)
         \/ Persist(n) \/ PersistError(n)
  PROVE  OnceMove /\ OnceNode(n)'
<1>1. TypeOK /\ OnceNode(n) /\ Once \subseteq Jobs
  BY JobAssumption DEF OnceKnown
<1>2. runs' = runs /\ events' = events
  BY DEF Lead, Claim, Skip, Finish, Report, Ask, Persist, PersistError
<1>3. OnceCalm
  <2>1. CASE snap' = snap
    BY <1>2, <2>1 DEF OnceCalm
  <2>2. CASE Persist(n) /\ snap' # snap
    <3>1. /\ pc[n] = "persist" /\ reply[n] # None
          /\ snap' = [snap EXCEPT ![Head(events[n])] = [reply[n] EXCEPT !.updated = clock]]
      BY <2>2 DEF Persist, Put
    <3>2. events[n] # <<>> /\ reply[n] \in Snapshot /\ clock \in Times
      BY <1>1, <3>1 DEF OnceKnown, Shape, LoopHas, Started, TypeOK
    <3>3. PICK h \in Jobs : h = Head(events[n])
      BY <1>1, <3>2, EventHead
    <3>4. /\ Phase(snap'[h]) = Phase(reply[n])
          /\ \A i \in Jobs : i # h => snap'[i] = snap[i]
      BY <1>1, <3>1, <3>2, <3>3, PhaseOf DEF TypeOK
    <3>5. h \in Once => Phase(snap[h]) = Phase(reply[n])
      BY <1>1, <3>1, <3>3 DEF OnceNode, OnceReplied
    <3> QED
      BY <1>1, <1>2, <3>4, <3>5 DEF OnceCalm
  <2> QED
    BY <2>1, <2>2 DEF Lead, Claim, Skip, Finish, Report, Ask, Persist, PersistError, storeVars
<1>4. CASE Lead(n) \/ Finish(n) \/ Report(n) \/ Ask(n) \/ Persist(n) \/ PersistError(n)
  <2>1. pc'[n] \notin {"seed", "claim", "mark", "persist"} /\ (pc'[n] \in Started <=> pc[n] \in Started)
    BY <1>1, <1>4 DEF Lead, Finish, Report, Ask, Persist, PersistError, Goto, Started, TypeOK
  <2> QED
    BY <1>1, <1>2, <1>3, <2>1, NodeKept DEF OnceMove
<1>5. CASE Claim(n)
  <2>1. pc[n] = "claim" /\ pc'[n] = "mark" /\ copies' = copies
    BY <1>1, <1>5 DEF Claim, Goto, TypeOK
  <2> QED
    BY <1>1, <1>2, <1>3, <2>1, NodeKept DEF OnceMove, Started
<1>6. CASE Skip(n)
  <2>1. PICK j \in Oldest(n) : PutBack(n, j) /\ Goto(n, NextPoll(InHand(n) \ {j}, events[n]))
    BY <1>6 DEF Skip
  <2>2. PICK where : where = NextPoll(InHand(n) \ {j}, events[n])
    OBVIOUS
  <2>3. where \in {"claim", "run", "wait"} /\ pc[n] = "claim"
    BY <1>6, <2>2, NextPollWhere DEF Skip
  <2>4. pc'[n] = where
    BY <1>1, <2>1, <2>2 DEF Goto, TypeOK
  <2>5. j \in Jobs /\ copies' = [copies EXCEPT ![n][j] = None]
    BY <1>1, <2>1, CopyOf DEF PutBack
  <2>6. \A i \in Once : copies'[n][i] # None => copies'[n][i] = copies[n][i]
    BY <1>1, <2>5 DEF TypeOK
  <2> QED
    BY <1>1, <1>2, <1>3, <2>3, <2>4, <2>6, NodeKept DEF OnceMove, Started
<1> QED
  BY <1>4, <1>5, <1>6

(* SeedError, PollError and Crash: the node has no event and no copy.       *)
LEMMA DropCalm ==
  ASSUME NEW n \in Nodes, OnceKnown(n), SeedError(n) \/ PollError(n) \/ Crash(n)
  PROVE  OnceMove /\ OnceNode(n)'
<1>1. TypeOK /\ (pc[n] = "seed" => events[n] = <<>>)
  BY DEF OnceKnown, Shape, LoopHas
<1>2. snap' = snap /\ runs' = runs
  BY DEF SeedError, PollError, Crash, storeVars
<1>3. OnceMove
  BY <1>2 DEF OnceMove, OnceCalm
<1>4. events'[n] = <<>> /\ pc'[n] \in {"down", "wait"}
  BY <1>1 DEF SeedError, PollError, Crash, Goto, TypeOK
<1> QED
  BY <1>3, <1>4, NodeIdle

(* The processor and the tool write no Once job but the one whose event is  *)
(* handled.                                                                 *)
LEMMA TaskCalm ==
  ASSUME NEW n \in Nodes, OnceKnown(n),
         \/ HandleAdd(n) \/ HandleRemove(n) \/ HandleUpdate(n) \/ HandleError(n)
         \/ ProcClear(n) \/ ProcError(n) \/ Tool(n)
  PROVE  OnceMove /\ OnceNode(n)'
<1>1. /\ TypeOK /\ OnceNode(n) /\ LeftAlone(n) /\ Once \subseteq Jobs
      /\ runs' = runs /\ events' = events
  BY JobAssumption DEF OnceKnown, HandleAdd, HandleRemove, HandleUpdate, HandleError,
     ProcClear, ProcError, Tool, ToolSend, ToolWrite, ToolEdit, Answer, loopVars
<1>2. OnceCalm
  <2>1. CASE snap' = snap
    BY <1>1, <2>1 DEF OnceCalm
  <2>2. CASE HandleAdd(n) \/ HandleRemove(n)
    <3>1. PICK op \in {"Add", "Remove"} : Receive(n, op)
      BY <2>2 DEF HandleAdd, HandleRemove
    <3>2. /\ 1 \in 1..Len(chan[n]) /\ Head(chan[n]) = chan[n][1] /\ chan[n][1].op = op
          /\ Head(chan[n]) \in Command
      BY <1>1, <3>1, Received
    <3>3. PICK j : j = Head(chan[n]).job
      OBVIOUS
    <3>4. j \in Jobs /\ j \notin Once
      BY <1>1, <3>1, <3>2, <3>3 DEF Command, LeftAlone
    <3>5. \E s : snap' = [snap EXCEPT ![j] = s]
      BY <2>2, <3>3 DEF HandleAdd, HandleRemove, Put
    <3>6. \A i \in Once : snap'[i] = snap[i]
      BY <1>1, <3>4, <3>5 DEF TypeOK
    <3> QED
      BY <1>1, <3>6 DEF OnceCalm
  <2>3. CASE ToolWrite(n)
    <3>1. tool[n].job \notin Once /\ (snap' = snap \/ \E s : snap' = [snap EXCEPT ![tool[n].job] = s])
      BY <1>1, <2>3 DEF ToolWrite, Put, LeftAlone
    <3>2. \A i \in Once : snap'[i] = snap[i]
      BY <1>1, <3>1 DEF TypeOK
    <3> QED
      BY <1>1, <3>2 DEF OnceCalm
  <2> QED
    BY <2>1, <2>2, <2>3 DEF HandleUpdate, HandleError, ProcClear, ProcError, Tool, ToolSend,
       ToolEdit, storeVars
<1>3. CASE HandleError(n) /\ Head(chan[n]).op = "List"
  <2>1. reply'[n] = None /\ pc'[n] = "persist"
    BY <1>1, <1>3 DEF HandleError, Answer, Goto, TypeOK
  <2>2. pc[n] = "reply"
    <3>1. Receive(n, "List")
      BY <1>3 DEF HandleError, Receive
    <3>2. 1 \in 1..Len(chan[n]) /\ chan[n][1].op = "List"
      BY <1>1, <3>1, Received
    <3> QED
      BY <3>2 DEF OnceKnown, Shape, ChannelHas, Commanded
  <2> QED
    BY <1>1, <1>2, <2>1, <2>2, NodeKept DEF OnceMove, Started
<1>4. CASE ~ (HandleError(n) /\ Head(chan[n]).op = "List")
  <2>1. pc' = pc /\ copies' = copies /\ reply' = reply
    BY <1>4 DEF HandleAdd, HandleRemove, HandleUpdate, HandleError,
       ProcClear, ProcError, Tool, ToolSend, ToolWrite, ToolEdit, loopVars
  <2> QED
    BY <1>1, <1>2, <2>1, NodeKept DEF OnceMove
<1> QED
  BY <1>3, <1>4

(* HandleList: the answer has the phase the store has.                      *)
LEMMA AnswerOnce ==
  ASSUME NEW n \in Nodes, OnceKnown(n), HandleList(n)
  PROVE  OnceMove /\ OnceNode(n)'
<1>1. TypeOK /\ OnceNode(n) /\ Receive(n, "List")
  BY DEF OnceKnown, HandleList
<1>2. 1 \in 1..Len(chan[n]) /\ Head(chan[n]) = chan[n][1] /\ chan[n][1].op = "List"
  BY <1>1, Received
<1>3. pc[n] = "reply" /\ Head(chan[n]).job = Head(events[n])
  BY <1>2 DEF OnceKnown, Shape, ChannelHas, Commanded
<1>4. PICK s : s = snap[Head(events[n])]
  OBVIOUS
<1>5. /\ reply' = [reply EXCEPT ![n] = s] /\ pc' = [pc EXCEPT ![n] = "persist"]
      /\ snap' = snap /\ runs' = runs /\ events' = events
  BY <1>3, <1>4 DEF HandleList, Answer, Goto, storeVars
<1>6. reply'[n] = s /\ pc'[n] = "persist"
  BY <1>1, <1>5 DEF TypeOK
<1>7. OnceCalm
  BY <1>5 DEF OnceCalm
<1> QED
  BY <1>1, <1>3, <1>4, <1>5, <1>6, <1>7, NodeKept DEF OnceMove, Started

(* The clock goes on, or nothing happens.                                   *)
LEMMA StutterOnce ==
  ASSUME NEW n \in Nodes, OnceKnown(n), Tick \/ UNCHANGED vars
  PROVE  OnceMove /\ OnceNode(n)'
<1>1. UNCHANGED <<snap, runs, events, pc, copies, reply>>
  BY DEF Tick, vars, storeVars, loopVars
<1>2. OnceCalm /\ OnceNode(n)
  BY <1>1 DEF OnceCalm, OnceKnown
<1> QED
  BY <1>1, <1>2, NodeKept DEF OnceMove

(* Every step of the node moves at most one Once job, and that the way it   *)
(* goes.                                                                    *)
LEMMA OnceStep ==
  ASSUME NEW n \in Nodes, OnceKnown(n), "boot" \notin Failing,
         Boot(n) \/ Poll(n) \/ Process(n) \/ Fault(n) \/ Tool(n) \/ Crash(n)
  PROVE  OnceMove /\ OnceNode(n)'
<1>1. ~ BootError(n)
  BY DEF BootError, CallFails
<1>2. CASE Boot(n) \/ SeedWrite(n) \/ ListDue(n)
  BY <1>2, BootOnce, SeedOnce, ListOnce
<1>3. CASE Mark(n) \/ Execute(n) \/ Release(n) \/ ReleaseError(n) \/ ProcWrite(n) \/ HandleList(n)
  BY <1>3, MarkOnce, ExecuteOnce, ReleaseOnce, WriteOnce, AnswerOnce
<1>4. CASE \/ Lead(n) \/ Claim(n) \/ Skip(n) \/ Finish(n) \/ Report(n) \/ Ask(n)
           \/ Persist(n) \/ PersistError(n)
  BY <1>4, LoopCalm
<1>5. CASE SeedError(n) \/ PollError(n) \/ Crash(n)
  BY <1>5, DropCalm
<1>6. CASE \/ HandleAdd(n) \/ HandleRemove(n) \/ HandleUpdate(n) \/ HandleError(n)
           \/ ProcClear(n) \/ ProcError(n) \/ Tool(n)
  BY <1>6, TaskCalm
<1> QED
  BY <1>1, <1>2, <1>3, <1>4, <1>5, <1>6 DEF Poll, Process, Fault

(* No command and no call of the tool is about a Once job.                  *)
LEMMA AloneStep ==
  ASSUME \A o \in Orders : o[2] \notin Once, NEW n \in Nodes, LeftAlone(n), PendingFrom(n)
  PROVE  LeftAlone(n)'
<1>1. ASSUME NEW i \in 1..Len(chan'[n]), chan'[n][i].op \in {"Add", "Remove"}
      PROVE  chan'[n][i].job \notin Once
  BY <1>1 DEF LeftAlone, PendingFrom
<1>2. tool'[n] # None => tool'[n].job \notin Once
  BY DEF LeftAlone, PendingFrom
<1> QED
  BY <1>1, <1>2 DEF LeftAlone

(* Every step keeps the invariant and is a move.                            *)
LEMMA OnceInductive ==
  ASSUME \A m, n \in Nodes : m = n, \A o \in Orders : o[2] \notin Once, "boot" \notin Failing
  PROVE  Known /\ OnceInv /\ [Next]_vars => OnceInv' /\ OnceMove
<1> SUFFICES ASSUME Known, OnceInv, [Next]_vars PROVE OnceInv' /\ OnceMove
  OBVIOUS
<1>1. ASSUME NEW n \in Nodes PROVE OnceKnown(n)
  BY DEF Known, OnceInv, OnceKnown
<1>2. OnceMove /\ \A n \in Nodes : OnceNode(n)'
  <2>1. CASE Tick \/ UNCHANGED vars
    <3>1. OnceMove
      BY <2>1 DEF OnceMove, OnceCalm, Tick, vars, storeVars
    <3> QED
      BY <1>1, <2>1, <3>1, StutterOnce
  <2>2. ASSUME NEW n \in Nodes, Boot(n) \/ Poll(n) \/ Process(n) \/ Fault(n) \/ Tool(n) \/ Crash(n)
        PROVE  OnceMove /\ \A m \in Nodes : OnceNode(m)'
    <3>1. OnceMove /\ OnceNode(n)'
      BY <1>1, <2>2, OnceStep
    <3>2. \A m \in Nodes : m = n
      BY <2>2
    <3> QED
      BY <3>1, <3>2
  <2> QED
    BY <2>1, <2>2 DEF Next
<1>3. \A n \in Nodes : LeftAlone(n)'
  BY StepPending, AloneStep DEF OnceInv
<1>4. \A j \in Once : OnceRan(j)'
  BY <1>2, MoveRan DEF OnceInv
<1> QED
  BY <1>2, <1>3, <1>4 DEF OnceInv

(* No Once job is there, and none ran.                                      *)
LEMMA InitOnce == Init => OnceInv /\ Lifecycle!Init
<1> SUFFICES ASSUME Init PROVE OnceInv /\ Lifecycle!Init
  OBVIOUS
<1>1. Once \subseteq Jobs
  BY JobAssumption
<1>2. ASSUME NEW n \in Nodes PROVE LeftAlone(n) /\ OnceNode(n)
  <2>1. /\ pc[n] = "down" /\ chan[n] = <<>> /\ tool[n] = None /\ events[n] = <<>>
    BY DEF Init
  <2>2. LeftAlone(n) /\ OnceReplied(n)
    BY <2>1 DEF LeftAlone, OnceReplied
  <2>3. \A j \in Once : OnceCopied(n, j) /\ \A i \in 1..Len(events[n]) : OnceEvent(n, i, j)
    BY <2>1 DEF OnceCopied
  <2> QED
    BY <2>2, <2>3 DEF OnceNode
<1>3. \A j \in Once : Phase(snap[j]) = "absent" /\ runs[j] = 0
  BY <1>1 DEF Init, Phase
<1>4. \A j \in Once : OnceRan(j)
  BY <1>3 DEF OnceRan
<1>5. Lifecycle!Init
  BY <1>3 DEF Lifecycle!Init
<1> QED
  BY <1>2, <1>4, <1>5 DEF OnceInv

(* One node runs a Once job at most once, and the job goes from scheduled   *)
(* to dispatched to settled and never back, although the loop, the          *)
(* processor and the tool write whole snapshots they read before, the store *)
(* fails at any call but the read at boot, and the node restarts; the tool  *)
(* is not asked about the job.                                              *)
THEOREM OneNodeLifecycle ==
  ASSUME \A m, n \in Nodes : m = n, \A o \in Orders : o[2] \notin Once, "boot" \notin Failing
  PROVE  Spec => FollowsLifecycle
<1>1. Known /\ OnceInv /\ [Next]_vars
        => [Lifecycle!Next]_<<[j \in Once |-> Phase(snap[j])], [j \in Once |-> runs[j]]>>
  BY OnceInductive, MoveImplements
<1>2. Known /\ OnceInv /\ [Next]_vars => OnceInv'
  BY OnceInductive
<1> QED
  BY <1>1, <1>2, InitOnce, AlwaysKnown, PTL DEF Spec, FollowsLifecycle, Lifecycle!Spec

-----------------------------------------------------------------------------
(* A job that reads Dispatched is in hand.                                  *)

(* What the invariant says to a step of node n.                             *)
HandKnown(n) == TypeOK /\ Shape(n) /\ HandNode(n)

(* The head of the events is a job.                                         *)
LEMMA HeadAtWork ==
  ASSUME NEW n \in Nodes, HandKnown(n), pc[n] \in Started
  PROVE  /\ Head(events[n]) \in Jobs /\ Head(events[n]) = events[n][1]
         /\ events[n] # <<>>
BY EventHead DEF HandKnown, Shape, LoopHas

(* No job becomes Dispatched, and the event goes on as it did.              *)
LEMMA HandKept ==
  ASSUME NEW n \in Nodes, HandKnown(n), events'[n] = events[n],
         \A j \in Jobs : Dispatched(j)' => Dispatched(j),
         pc'[n] \in {"ask", "reply"} =>
           /\ pc[n] \in Started
           /\ Reported(n)' \/ ~ Dispatched(Head(events[n]))'
         ,
         pc'[n] \in {"persist", "release"} =>
           /\ pc[n] \in {"persist", "release"}
           /\ pc'[n] = "persist" => pc[n] = "persist" /\ reply'[n] = reply[n],
         pc'[n] = "seed" => pc[n] = "seed" /\ copies'[n] = copies[n]
  PROVE  HandNode(n)'
<1>1. \A j \in Jobs : Dispatched(j)' => HasEvent(n, j)'
  BY DEF HandKnown, HandNode, HasEvent
<1>2. pc'[n] \in {"ask", "reply"} /\ Dispatched(Head(events[n]))' => Reported(n)'
  OBVIOUS
<1>3. pc'[n] \in {"persist", "release"} => ~ Dispatched(Head(events[n]))'
  <2> SUFFICES ASSUME pc'[n] \in {"persist", "release"} PROVE ~ Dispatched(Head(events[n]))'
    OBVIOUS
  <2>1. PICK h \in Jobs : h = Head(events[n])
    BY HeadAtWork DEF Started
  <2>2. ~ Dispatched(h)
    BY <2>1 DEF HandKnown, HandNode
  <2> QED
    BY <2>1, <2>2
<1>4. /\ pc'[n] = "persist" /\ reply'[n] # None => reply'[n].status # "Dispatched"
      /\ pc'[n] = "seed" =>
           \A j \in Jobs : copies'[n][j] # None => copies'[n][j].status # "Dispatched"
  BY DEF HandKnown, HandNode
<1> QED
  BY <1>1, <1>2, <1>3, <1>4 DEF HandNode

(* Boot: nothing is Dispatched yet.                                         *)
LEMMA BootHand ==
  ASSUME NEW n \in Nodes, HandKnown(n), Boot(n)
  PROVE  HandNode(n)'
<1> DEFINE boot == IF \E j \in Jobs : snap[j] # None THEN snap
                   ELSE [j \in Jobs |-> IF j \in config[n] THEN Fresh(clock) ELSE None]
<1>1. TypeOK /\ pc[n] = "down" /\ events[n] = <<>>
  BY DEF HandKnown, Shape, LoopHas, Boot, SeedWith
<1>2. /\ snap' = snap /\ events' = events /\ copies' = [copies EXCEPT ![n] = boot]
      /\ pc' = [pc EXCEPT ![n] = IF boot = NoCopies THEN "wait" ELSE "seed"]
  BY DEF Boot, SeedWith, storeVars, Goto
<1>3. copies'[n] = boot /\ pc'[n] \in {"wait", "seed"}
  BY <1>1, <1>2 DEF TypeOK
<1>4. \A j \in Jobs : ~ Dispatched(j)
  BY <1>1 DEF HandKnown, HandNode, HasEvent
<1>5. \A j \in Jobs : boot[j] # None => boot[j].status # "Dispatched"
  BY <1>4 DEF Dispatched, Fresh
<1> HIDE DEF boot
<1>6. \A j \in Jobs : ~ Dispatched(j)'
  BY <1>2, <1>4 DEF Dispatched
<1> QED
  BY <1>3, <1>5, <1>6 DEF HandNode

(* SeedWrite: what is written comes from the config.                        *)
LEMMA SeedHand ==
  ASSUME NEW n \in Nodes, HandKnown(n), SeedWrite(n)
  PROVE  HandNode(n)'
<1>1. TypeOK /\ HandNode(n) /\ pc[n] = "seed" /\ events[n] = <<>> /\ events' = events
  BY DEF HandKnown, Shape, LoopHas, SeedWrite
<1>2. PICK j \in Oldest(n) :
        /\ snap' = [snap EXCEPT ![j] = [copies[n][j] EXCEPT !.updated = stamp[n]]]
        /\ copies' = [copies EXCEPT ![n][j] = None]
        /\ pc' = [pc EXCEPT ![n] = IF InHand(n) = {j} THEN "wait" ELSE "seed"]
  BY DEF SeedWrite, Put, PutBack, Goto
<1>3. j \in Jobs /\ copies[n][j] \in Snapshot /\ copies[n][j] # None
  BY <1>1, <1>2, CopyOf
<1>4. PICK s : s = [copies[n][j] EXCEPT !.updated = stamp[n]]
  OBVIOUS
<1>5. s.status # "Dispatched"
  BY <1>1, <1>3, <1>4 DEF HandNode, Snapshot
<1>6. /\ snap'[j] = s /\ \A i \in Jobs : i # j => snap'[i] = snap[i]
      /\ copies'[n][j] = None /\ \A i \in Jobs : i # j => copies'[n][i] = copies[n][i]
      /\ pc'[n] \in {"wait", "seed"}
  BY <1>1, <1>2, <1>3, <1>4 DEF TypeOK
<1>7. \A i \in Jobs : ~ Dispatched(i)
  BY <1>1 DEF HandNode, HasEvent
<1>8. \A i \in Jobs : ~ Dispatched(i)'
  BY <1>5, <1>6, <1>7 DEF Dispatched
<1>9. pc'[n] = "seed" =>
        \A i \in Jobs : copies'[n][i] # None => copies'[n][i].status # "Dispatched"
  BY <1>1, <1>6 DEF HandNode
<1> QED
  BY <1>6, <1>8, <1>9 DEF HandNode

(* Mark: the job gets its event with the status.                            *)
LEMMA MarkHand ==
  ASSUME NEW n \in Nodes, HandKnown(n), Mark(n)
  PROVE  HandNode(n)'
<1>1. TypeOK /\ HandNode(n) /\ pc[n] = "mark"
  BY DEF HandKnown, Mark
<1>2. PICK j \in Jobs : j = job[n]
  BY <1>1 DEF HandKnown, Shape, LoopHas
<1>3. /\ \E s : snap' = [snap EXCEPT ![j] = s]
      /\ events' = [events EXCEPT ![n] = Append(@, j)]
      /\ pc' = [pc EXCEPT ![n] = NextPoll(InHand(n) \ {j}, events'[n])]
  BY <1>2 DEF Mark, Put, Goto
<1>4. PICK where : where = NextPoll(InHand(n) \ {j}, events'[n])
  OBVIOUS
<1>5. pc'[n] \in {"claim", "run", "wait"}
  <2>1. where \in {"claim", "run", "wait"} /\ pc' = [pc EXCEPT ![n] = where]
    BY <1>3, <1>4, NextPollWhere
  <2> QED
    BY <1>1, <2>1 DEF TypeOK
<1>6. \A i \in Jobs : i # j => snap'[i] = snap[i]
  BY <1>1, <1>3 DEF TypeOK
<1>7. /\ Len(events'[n]) = Len(events[n]) + 1 /\ Len(events[n]) \in Nat
      /\ events'[n][Len(events[n]) + 1] = j
      /\ \A i \in 1..Len(events[n]) : events'[n][i] = events[n][i]
  <2>1. events[n] \in Seq(Jobs) /\ events'[n] = Append(events[n], j)
    BY <1>1, <1>3 DEF TypeOK
  <2> QED
    BY <2>1
<1>8. HasEvent(n, j)' /\ \A i \in Jobs : HasEvent(n, i) => HasEvent(n, i)'
  <2>1. \A k \in 1..Len(events[n]) : k \in 1..Len(events'[n])
    BY <1>7
  <2>2. Len(events[n]) + 1 \in 1..Len(events'[n])
    BY <1>7
  <2> QED
    BY <1>7, <2>1, <2>2 DEF HasEvent
<1>9. \A i \in Jobs : Dispatched(i)' => HasEvent(n, i)'
  BY <1>1, <1>6, <1>8 DEF HandNode, Dispatched
<1> QED
  BY <1>5, <1>9 DEF HandNode

(* Release: the job whose event goes is Dispatched no more.                 *)
LEMMA ReleaseHand ==
  ASSUME NEW n \in Nodes, HandKnown(n), Release(n)
  PROVE  HandNode(n)'
<1>1. TypeOK /\ HandNode(n) /\ pc[n] = "release" /\ events[n] # <<>>
  BY DEF HandKnown, Release, Shape, LoopHas, Started
<1>2. /\ snap' = snap /\ events' = [events EXCEPT ![n] = Tail(@)]
      /\ pc' = [pc EXCEPT ![n] = NextPoll({}, Tail(events[n]))]
  BY DEF Release, NextEvent, Goto
<1>3. PICK where : where = NextPoll({}, Tail(events[n]))
  OBVIOUS
<1>4. pc'[n] \in {"run", "wait"} /\ events'[n] = Tail(events[n])
  BY <1>1, <1>2, <1>3 DEF NextPoll, TypeOK
<1>5. /\ Len(events[n]) \in Nat /\ Len(events[n]) >= 1 /\ Head(events[n]) = events[n][1]
      /\ Len(events'[n]) = Len(events[n]) - 1
      /\ \A i \in 1..(Len(events[n]) - 1) : events'[n][i] = events[n][i + 1]
  BY <1>1, <1>4, EventHead
<1>6. ASSUME NEW j \in Jobs, Dispatched(j)' PROVE HasEvent(n, j)'
  <2>1. Dispatched(j)
    BY <1>2, <1>6 DEF Dispatched
  <2>2. j # events[n][1]
    BY <1>1, <1>5, <2>1 DEF HandNode
  <2>3. PICK k \in 1..Len(events[n]) : events[n][k] = j
    BY <1>1, <2>1 DEF HandNode, HasEvent
  <2>4. k - 1 \in 1..Len(events'[n]) /\ events'[n][k - 1] = events[n][k]
    BY <1>5, <2>2, <2>3
  <2> QED
    BY <2>3, <2>4 DEF HasEvent
<1> QED
  BY <1>4, <1>6 DEF HandNode

(* Persist: what is written back is what the List answered.                 *)
LEMMA PersistHand ==
  ASSUME NEW n \in Nodes, HandKnown(n), Persist(n)
  PROVE  HandNode(n)'
<1>1. TypeOK /\ HandNode(n) /\ pc[n] = "persist" /\ pc' = [pc EXCEPT ![n] = "release"]
      /\ events' = events
  BY DEF HandKnown, Persist, Goto
<1>2. PICK h \in Jobs : h = Head(events[n])
  BY <1>1, HeadAtWork DEF Started
<1>3. pc'[n] = "release"
  BY <1>1 DEF TypeOK
<1>4. ~ Dispatched(h)' /\ \A i \in Jobs : i # h => (Dispatched(i)' <=> Dispatched(i))
  <2>1. CASE reply[n] = None
    <3>1. snap' = snap
      BY <2>1 DEF Persist
    <3> QED
      BY <1>1, <1>2, <3>1 DEF HandNode, Dispatched
  <2>2. CASE reply[n] # None
    <3>1. snap' = [snap EXCEPT ![h] = [reply[n] EXCEPT !.updated = clock]]
      BY <1>2, <2>2 DEF Persist, Put
    <3>2. reply[n] \in Snapshot /\ reply[n].status # "Dispatched"
      BY <1>1, <2>2 DEF HandNode, TypeOK
    <3>3. [reply[n] EXCEPT !.updated = clock].status # "Dispatched"
      BY <3>2 DEF Snapshot
    <3>4. snap'[h].status # "Dispatched" /\ \A i \in Jobs : i # h => snap'[i] = snap[i]
      BY <1>1, <3>1, <3>3 DEF TypeOK
    <3> QED
      BY <3>4 DEF Dispatched
  <2> QED
    BY <2>1, <2>2
<1>5. \A i \in Jobs : Dispatched(i)' => HasEvent(n, i)'
  BY <1>1, <1>4 DEF HandNode, HasEvent
<1> QED
  BY <1>1, <1>2, <1>3, <1>4, <1>5 DEF HandNode

(* Report: the status is on its way; Ask: it is still.                      *)
LEMMA SendHand ==
  ASSUME NEW n \in Nodes, HandKnown(n), NEW cmd \in Command, Send(n, cmd), proc' = proc
  PROVE  /\ Reported(n) => Reported(n)'
         /\ cmd.op = "UpdateStatus" => Reported(n)'
<1>1. /\ Len(chan'[n]) = Len(chan[n]) + 1 /\ Len(chan[n]) \in Nat
      /\ chan'[n][Len(chan[n]) + 1] = cmd
      /\ \A i \in 1..Len(chan[n]) : chan'[n][i] = chan[n][i]
  BY Sent DEF HandKnown
<1>2. /\ \A i \in 1..Len(chan[n]) : i \in 1..Len(chan'[n])
      /\ Len(chan[n]) + 1 \in 1..Len(chan'[n])
  BY <1>1
<1> QED
  BY <1>1, <1>2 DEF Reported

LEMMA LoopHand ==
  ASSUME NEW n \in Nodes, HandKnown(n),
         \/ Lead(n) \/ ListDue(n) \/ Claim(n) \/ Skip(n) \/ Execute(n) \/ Finish(n)
         \/ Report(n) \/ Ask(n)
  PROVE  HandNode(n)'
<1>1. TypeOK /\ Shape(n) /\ HandNode(n)
  BY DEF HandKnown
<1>2. snap' = snap /\ events' = events
  BY DEF Lead, ListDue, Claim, Skip, Execute, Finish, Report, Ask, storeVars
<1>3. \A j \in Jobs : Dispatched(j)' => Dispatched(j)
  BY <1>2 DEF Dispatched
<1>4. CASE Report(n)
  <2>1. PICK cmd : cmd = [op |-> "UpdateStatus", job |-> Head(events[n]), status |-> result[n], at |-> clock]
    OBVIOUS
  <2>2. events[n] # <<>> /\ result[n] \in Settled /\ pc[n] = "report"
    BY <1>1, <1>4 DEF Report, Shape, LoopHas, Started
  <2>3. cmd \in Command /\ cmd.op = "UpdateStatus"
    BY <1>1, <2>1, <2>2, EventHead, SeedTypes DEF Command
  <2>4. Send(n, cmd) /\ proc' = proc /\ pc'[n] = "ask"
    BY <1>1, <1>4, <2>1 DEF Report, Goto, TypeOK
  <2>5. Reported(n)'
    BY <2>3, <2>4, SendHand
  <2> QED
    BY <1>2, <1>3, <2>2, <2>4, <2>5, HandKept DEF Started
<1>5. CASE Ask(n)
  <2>1. PICK cmd : cmd = [op |-> "List", job |-> Head(events[n])]
    OBVIOUS
  <2>2. PICK h \in Jobs : h = Head(events[n])
    BY <1>5, HeadAtWork DEF Ask, Started
  <2>3. cmd \in Command
    BY <2>1, <2>2 DEF Command
  <2>4. Send(n, cmd) /\ proc' = proc /\ pc[n] = "ask" /\ pc'[n] = "reply"
    BY <1>1, <1>5, <2>1 DEF Ask, Goto, TypeOK
  <2>5. Dispatched(h)' => Reported(n)'
    BY <1>1, <1>3, <2>2, <2>3, <2>4, SendHand DEF HandNode
  <2>6. Reported(n)' \/ ~ Dispatched(Head(events[n]))'
    BY <1>2, <2>2, <2>5 DEF Dispatched
  <2> QED
    BY <1>2, <1>3, <2>4, <2>6, HandKept DEF Started
<1>6. CASE Lead(n) \/ ListDue(n) \/ Claim(n) \/ Skip(n) \/ Execute(n) \/ Finish(n)
  <2>1. \E p \in {"list", "claim", "mark", "run", "wait", "exec", "report"} : Goto(n, p)
    BY <1>6, NextPollWhere DEF Lead, ListDue, Claim, Skip, Execute, Finish
  <2>2. pc'[n] \in {"list", "claim", "mark", "run", "wait", "exec", "report"}
    BY <1>1, <2>1 DEF Goto, TypeOK
  <2> QED
    BY <1>2, <1>3, <2>2, HandKept
<1> QED
  BY <1>4, <1>5, <1>6

(* A command is taken while nothing is written: a report behind it stays.   *)
LEMMA ReceiveHand ==
  ASSUME NEW n \in Nodes, HandKnown(n), NEW op, Receive(n, op), op # "UpdateStatus"
  PROVE  /\ 1 \in 1..Len(chan[n]) /\ chan[n][1] = Head(chan[n]) /\ chan[n][1].op = op
         /\ Reported(n) => \E i \in 1..Len(chan'[n]) : chan'[n][i].op = "UpdateStatus"
<1>1. /\ proc[n] = None /\ Head(chan[n]).op = op /\ Head(chan[n]) = chan[n][1]
      /\ Len(chan[n]) \in Nat /\ 1 \in 1..Len(chan[n])
      /\ chan' = [chan EXCEPT ![n] = Tail(@)] /\ chan[n] \in Seq(Command)
      /\ chan \in [Nodes -> Seq(Command)]
  BY Received DEF HandKnown, Receive, TypeOK
<1>2. Len(chan'[n]) = Len(chan[n]) - 1 /\ \A i \in 1..Len(chan'[n]) : chan'[n][i] = chan[n][i + 1]
  BY <1>1
<1>3. ASSUME Reported(n) PROVE \E i \in 1..Len(chan'[n]) : chan'[n][i].op = "UpdateStatus"
  <2>1. PICK k \in 1..Len(chan[n]) : chan[n][k].op = "UpdateStatus"
    BY <1>1, <1>3 DEF Reported
  <2>2. k - 1 \in 1..Len(chan'[n]) /\ chan'[n][k - 1] = chan[n][k]
    BY <1>1, <1>2, <2>1
  <2> QED
    BY <2>1, <2>2
<1> QED
  BY <1>1, <1>3

(* HandleAdd and HandleRemove: the job becomes Scheduled, or goes.          *)
LEMMA EditHand ==
  ASSUME NEW n \in Nodes, HandKnown(n), HandleAdd(n) \/ HandleRemove(n)
  PROVE  HandNode(n)'
<1>1. TypeOK /\ HandNode(n)
  BY DEF HandKnown
<1>2. PICK op \in {"Add", "Remove"} : Receive(n, op)
  BY DEF HandleAdd, HandleRemove
<1>3. /\ 1 \in 1..Len(chan[n]) /\ chan[n][1] = Head(chan[n]) /\ chan[n][1].op = op
      /\ Reported(n) => Reported(n)'
  BY <1>2, ReceiveHand DEF Reported
<1>4. PICK j \in Jobs : j = Head(chan[n]).job
  <2>1. Head(chan[n]) \in Command /\ Head(chan[n]).op = op
    BY <1>1, <1>2, Received
  <2> QED
    BY <1>2, <2>1 DEF Command
<1>5. PICK s : snap' = [snap EXCEPT ![j] = s] /\ (s # None => s.status # "Dispatched")
  BY <1>4 DEF HandleAdd, HandleRemove, Put, Fresh
<1>6. \A i \in Jobs : Dispatched(i)' => Dispatched(i)
  BY <1>1, <1>5 DEF TypeOK, Dispatched
<1>7. pc' = pc /\ events' = events /\ reply' = reply /\ copies' = copies
  BY DEF HandleAdd, HandleRemove, loopVars
<1>8. pc[n] \in {"ask", "reply"} => Reported(n)' \/ ~ Dispatched(Head(events[n]))'
  <2> SUFFICES ASSUME pc[n] \in {"ask", "reply"}, Dispatched(Head(events[n]))' PROVE Reported(n)'
    OBVIOUS
  <2>1. PICK h \in Jobs : h = Head(events[n])
    BY HeadAtWork DEF Started
  <2>2. Dispatched(h)' => Dispatched(h)
    BY <1>6
  <2>3. Dispatched(h)'
    BY <1>7, <2>1 DEF Dispatched
  <2> QED
    BY <1>1, <1>3, <2>1, <2>2, <2>3 DEF HandNode
<1> QED
  BY <1>6, <1>7, <1>8, HandKept DEF Started

(* HandleUpdate: the report goes from the channel to the processor's hand.  *)
LEMMA UpdateHand ==
  ASSUME NEW n \in Nodes, HandKnown(n), HandleUpdate(n)
  PROVE  HandNode(n)'
<1>1. TypeOK /\ Shape(n) /\ HandNode(n) /\ Receive(n, "UpdateStatus")
  BY DEF HandKnown, HandleUpdate
<1>2. 1 \in 1..Len(chan[n]) /\ Head(chan[n]) = chan[n][1] /\ chan[n][1].op = "UpdateStatus"
  BY <1>1, Received
<1>3. pc[n] \in {"ask", "reply"} /\ Head(chan[n]).job = Head(events[n])
  BY <1>1, <1>2 DEF Shape, ChannelHas, Commanded
<1>4. PICK h \in Jobs : h = Head(events[n])
  BY <1>3, HeadAtWork DEF Started
<1>5. UNCHANGED <<snap, pc, events, reply, copies>>
  BY DEF HandleUpdate, storeVars, loopVars
<1>6. ASSUME snap[h] # None PROVE Reported(n)'
  <2>1. PICK cmd : cmd = Head(chan[n])
    OBVIOUS
  <2>2. cmd.status \in Settled /\ cmd.at \in Times /\ cmd.job = h
    <3>1. cmd \in Command /\ cmd.op = "UpdateStatus"
      BY <1>1, <2>1, Received
    <3> QED
      BY <1>3, <1>4, <2>1, <3>1 DEF Command
  <2>3. PICK s : s = [snap[h] EXCEPT !.status = cmd.status, !.updated = cmd.at]
    OBVIOUS
  <2>4. s \in Snapshot
    <3>1. snap[h] \in Snapshot
      BY <1>1, <1>6 DEF TypeOK
    <3> QED
      BY <2>2, <2>3, <3>1 DEF Snapshot, Status
  <2>5. PICK p : p = [op |-> "write", job |-> h, snap |-> s]
    OBVIOUS
  <2>6. proc' = [proc EXCEPT ![n] = p]
    BY <1>6, <2>1, <2>2, <2>3, <2>5 DEF HandleUpdate
  <2>7. proc'[n] = p /\ p.op = "write" /\ p \in [op : {"write"}, job : Jobs, snap : Snapshot]
    BY <1>1, <2>4, <2>5, <2>6 DEF TypeOK
  <2> QED
    BY <2>7, NoneAssumption DEF Reported
<1>7. Reported(n)' \/ ~ Dispatched(Head(events[n]))'
  BY <1>4, <1>5, <1>6 DEF Dispatched
<1>8. \A j \in Jobs : Dispatched(j)' => Dispatched(j)
  BY <1>5 DEF Dispatched
<1> QED
  BY <1>3, <1>5, <1>7, <1>8, HandKept DEF Started

(* HandleList: no report is outstanding, so the answer is not Dispatched.   *)
LEMMA ListHand ==
  ASSUME NEW n \in Nodes, HandKnown(n), HandleList(n)
  PROVE  HandNode(n)'
<1>1. TypeOK /\ Shape(n) /\ HandNode(n) /\ Receive(n, "List")
  BY DEF HandKnown, HandleList
<1>2. /\ 1 \in 1..Len(chan[n]) /\ Head(chan[n]) = chan[n][1] /\ chan[n][1].op = "List"
      /\ proc[n] = None /\ Len(chan[n]) \in Nat
  BY <1>1, Received
<1>3. pc[n] = "reply" /\ Head(chan[n]).job = Head(events[n])
  BY <1>1, <1>2 DEF Shape, ChannelHas, Commanded
<1>4. PICK h \in Jobs : h = Head(events[n])
  BY <1>3, HeadAtWork DEF Started
<1>5. ~ Reported(n)
  <2>1. \A i \in 1..Len(chan[n]) : i = 1 \/ 1 < i
    BY <1>2
  <2> QED
    BY <1>1, <1>2, <2>1 DEF Reported, Shape, ChannelHas
<1>6. ~ Dispatched(h)
  BY <1>1, <1>3, <1>4, <1>5 DEF HandNode
<1>7. PICK s : s = snap[h]
  OBVIOUS
<1>8. /\ reply' = [reply EXCEPT ![n] = s] /\ pc' = [pc EXCEPT ![n] = "persist"]
      /\ snap' = snap /\ events' = events
  BY <1>3, <1>4, <1>7 DEF HandleList, Answer, Goto, storeVars
<1>9. reply'[n] = s /\ pc'[n] = "persist"
  BY <1>1, <1>8 DEF TypeOK
<1>10. \A j \in Jobs : Dispatched(j)' => HasEvent(n, j)'
  BY <1>1, <1>8 DEF HandNode, Dispatched, HasEvent
<1>11. ~ Dispatched(Head(events[n]))'
  BY <1>4, <1>6, <1>8 DEF Dispatched
<1>12. reply'[n] # None => reply'[n].status # "Dispatched"
  BY <1>6, <1>7, <1>9 DEF Dispatched
<1> QED
  BY <1>9, <1>10, <1>11, <1>12 DEF HandNode

(* ProcWrite: the status of the job whose event is handled is settled.      *)
LEMMA WriteHand ==
  ASSUME NEW n \in Nodes, HandKnown(n), ProcWrite(n)
  PROVE  HandNode(n)'
<1>1. /\ TypeOK /\ proc[n] # None /\ proc[n].op = "write"
      /\ pc[n] \in {"ask", "reply"} /\ proc[n].job = Head(events[n])
      /\ proc[n].snap.status \in Settled
  BY DEF HandKnown, ProcWrite, Shape, ProcHas
<1>2. PICK h \in Jobs : h = Head(events[n])
  BY <1>1, HeadAtWork DEF Started
<1>3. snap' = [snap EXCEPT ![h] = proc[n].snap] /\ UNCHANGED loopVars
  BY <1>1, <1>2 DEF ProcWrite, Put
<1>4. /\ snap'[h].status # "Dispatched"
      /\ \A i \in Jobs : i # h => snap'[i] = snap[i]
  BY <1>1, <1>3 DEF TypeOK, Settled
<1>5. ~ Dispatched(Head(events[n]))' /\ \A i \in Jobs : Dispatched(i)' => Dispatched(i)
  BY <1>2, <1>3, <1>4 DEF Dispatched, loopVars
<1> QED
  BY <1>1, <1>3, <1>5, HandKept DEF loopVars, Started

(* ProcClear and the tool: a report that is outstanding stays so.           *)
LEMMA ToolHand ==
  ASSUME NEW n \in Nodes, HandKnown(n), ProcClear(n) \/ Tool(n)
  PROVE  HandNode(n)'
<1>1. TypeOK /\ HandNode(n) /\ UNCHANGED loopVars
  BY DEF HandKnown, ProcClear, Tool, ToolSend, ToolWrite, ToolEdit
<1>2. Reported(n) => Reported(n)'
  <2>1. CASE ProcClear(n)
    BY <1>1, <2>1 DEF ProcClear, Reported, TypeOK
  <2>2. CASE ToolSend(n)
    <3>1. PICK o \in Orders : Send(n, [op |-> IF o[1] = "add" THEN "Add" ELSE "Remove", job |-> o[2]])
      BY <2>2 DEF ToolSend
    <3>2. PICK cmd : cmd = [op |-> IF o[1] = "add" THEN "Add" ELSE "Remove", job |-> o[2]]
      OBVIOUS
    <3>3. cmd \in Command
      BY <3>2, JobAssumption DEF Command
    <3> QED
      BY <2>2, <3>1, <3>2, <3>3, SendHand DEF ToolSend
  <2>3. CASE ToolWrite(n) \/ ToolEdit(n)
    BY <2>3 DEF ToolWrite, ToolEdit, Reported
  <2> QED
    BY <2>1, <2>2, <2>3 DEF Tool
<1>3. \A i \in Jobs : Dispatched(i)' => Dispatched(i)
  <2>1. CASE ToolWrite(n)
    <3>1. \/ snap' = snap
          \/ snap' = [snap EXCEPT ![tool[n].job] = Fresh(clock)]
          \/ snap' = [snap EXCEPT ![tool[n].job] = None]
      BY <2>1 DEF ToolWrite, Put
    <3>2. \A i \in Jobs : snap'[i] = snap[i] \/ snap'[i] = Fresh(clock) \/ snap'[i] = None
      BY <1>1, <3>1 DEF TypeOK
    <3> QED
      BY <3>2 DEF Dispatched, Fresh
  <2>2. CASE ~ ToolWrite(n)
    BY <2>2 DEF ProcClear, Tool, ToolSend, ToolEdit, storeVars, Dispatched
  <2> QED
    BY <2>1, <2>2
<1>4. pc[n] \in {"ask", "reply"} => Reported(n)' \/ ~ Dispatched(Head(events[n]))'
  <2> SUFFICES ASSUME pc[n] \in {"ask", "reply"}, Dispatched(Head(events[n]))' PROVE Reported(n)'
    OBVIOUS
  <2>1. PICK h \in Jobs : h = Head(events[n])
    BY HeadAtWork DEF Started
  <2>2. Dispatched(h)
    BY <1>1, <1>3, <2>1 DEF Dispatched, loopVars
  <2> QED
    BY <1>1, <1>2, <2>1, <2>2 DEF HandNode
<1> QED
  BY <1>1, <1>3, <1>4, HandKept DEF loopVars, Started

(* Every step of the node that no fault and no crash is.                    *)
LEMMA HandStep ==
  ASSUME NEW n \in Nodes, HandKnown(n), Boot(n) \/ Poll(n) \/ Process(n) \/ Tool(n)
  PROVE  HandNode(n)'
BY BootHand, SeedHand, MarkHand, ReleaseHand, PersistHand, LoopHand, EditHand, UpdateHand,
   ListHand, WriteHand, ToolHand DEF Poll, Process

(* Nothing, or the clock.                                                   *)
LEMMA HandStutter ==
  ASSUME NEW n \in Nodes, HandKnown(n), Tick \/ UNCHANGED vars
  PROVE  HandNode(n)'
<1>1. UNCHANGED <<snap, pc, events, reply, copies, chan, proc>>
  BY DEF Tick, vars, storeVars, loopVars
<1> QED
  BY <1>1 DEF HandKnown, HandNode, HasEvent, Dispatched, Reported

(* A node that is up has booted, and a first life stays one.                *)
LEMMA LifeStep ==
  ASSUME Known, [Next]_vars, \A n \in Nodes : pc[n] # "down" => life[n] > 0
  PROVE  /\ \A n \in Nodes : pc'[n] # "down" => life'[n] > 0
         /\ FirstLife' => FirstLife /\ \A n \in Nodes : ~ Crash(n)
<1>1. TypeOK
  BY DEF Known
<1>2. CASE Tick \/ UNCHANGED vars
  <2>1. pc' = pc /\ life' = life
    BY <1>2 DEF Tick, vars, loopVars
  <2>2. \A n \in Nodes : ~ Crash(n)
    <3> SUFFICES ASSUME NEW n \in Nodes, Crash(n) PROVE FALSE
      OBVIOUS
    <3>1. pc[n] # "down" /\ pc'[n] = "down"
      BY <1>1 DEF Crash, Goto, TypeOK
    <3> QED
      BY <2>1, <3>1
  <2> QED
    BY <2>1, <2>2 DEF FirstLife
<1>3. ASSUME NEW n \in Nodes, Boot(n) \/ BootError(n)
      PROVE  /\ pc[n] = "down" /\ pc'[n] # "down" /\ life'[n] = life[n] + 1
             /\ \A m \in Nodes : m # n => pc'[m] = pc[m] /\ life'[m] = life[m]
  <2>1. PICK where : where \in {"wait", "seed"} /\ pc' = [pc EXCEPT ![n] = where]
    BY <1>3 DEF Boot, BootError, SeedWith, Goto
  <2>2. pc[n] = "down" /\ life' = [life EXCEPT ![n] = @ + 1]
    BY <1>3 DEF Boot, BootError, SeedWith
  <2> QED
    BY <1>1, <2>1, <2>2 DEF TypeOK
<1>4. ASSUME NEW n \in Nodes, Crash(n)
      PROVE  /\ life' = life /\ pc[n] # "down" /\ pc'[n] = "down"
             /\ \A m \in Nodes : m # n => pc'[m] = pc[m]
  BY <1>1, <1>4 DEF Crash, Goto, otherVars, TypeOK
<1>5. ASSUME NEW n \in Nodes, Poll(n) \/ Process(n) \/ Fault(n) \/ Tool(n), ~ BootError(n)
      PROVE  /\ life' = life /\ (pc'[n] = "down" <=> pc[n] = "down")
             /\ \A m \in Nodes : m # n => pc'[m] = pc[m]
  <2>1. LoopHas(n)
    BY DEF Known, Shape
  <2>2. life' = life
    BY <1>5 DEF Poll, Process, Fault, Tool, SeedWrite, Lead, ListDue, Claim, Skip, Mark,
       Execute, Finish, Report, Ask, Persist, Release, HandleAdd, HandleRemove, HandleUpdate,
       HandleList, ProcWrite, ProcClear, SeedError, PollError, PersistError, ReleaseError,
       HandleError, ProcError, ToolSend, ToolWrite, ToolEdit, otherVars
  <2>3. pc' = pc \/ (pc[n] # "down" /\ \E p \in Pcs \ {"down"} : Goto(n, p))
    <3>1. CASE HandleAdd(n) \/ HandleRemove(n) \/ HandleUpdate(n) \/ ProcWrite(n)
               \/ ProcClear(n) \/ ProcError(n) \/ Tool(n)
      <4>1. UNCHANGED loopVars
        BY <3>1 DEF HandleAdd, HandleRemove, HandleUpdate, ProcWrite, ProcClear, ProcError,
           Tool, ToolSend, ToolWrite, ToolEdit
      <4> QED
        BY <4>1 DEF loopVars
    <3>2. CASE HandleList(n) \/ HandleError(n)
      <4>1. pc[n] # "down" /\ (UNCHANGED loopVars \/ Goto(n, "persist"))
        BY <3>2 DEF HandleList, HandleError, Receive, Answer
      <4> QED
        BY <4>1 DEF loopVars, Pcs
    <3>3. CASE Poll(n)
      BY <3>3, NextPollWhere DEF Poll, SeedWrite, Lead, ListDue, Claim, Skip, Mark, Execute,
         Finish, Report, Ask, Persist, Release, NextEvent, Pcs
    <3>4. CASE SeedError(n) \/ PollError(n) \/ PersistError(n) \/ ReleaseError(n)
      BY <3>4, NextPollWhere DEF SeedError, PollError, PersistError, ReleaseError, NextEvent, Pcs
    <3> QED
      BY <1>5, <3>1, <3>2, <3>3, <3>4 DEF Process, Fault
  <2> QED
    BY <1>1, <2>2, <2>3 DEF Goto, TypeOK
<1>6. ASSUME NEW n \in Nodes, Crash(n), FirstLife' PROVE FALSE
  <2>1. life[n] > 0 /\ life[n] \in Nat
    BY <1>1, <1>4, <1>6 DEF TypeOK, Lives
  <2> QED
    BY <1>4, <1>6, <2>1 DEF FirstLife
<1>7. ASSUME NEW n \in Nodes, Boot(n) \/ Poll(n) \/ Process(n) \/ Fault(n) \/ Tool(n) \/ Crash(n)
      PROVE  /\ \A m \in Nodes : pc'[m] # "down" => life'[m] > 0
             /\ FirstLife' => FirstLife
  <2>1. \A m \in Nodes : life[m] \in Nat
    BY <1>1 DEF TypeOK, Lives
  <2>2. CASE Boot(n) \/ BootError(n)
    BY <1>3, <2>1, <2>2 DEF FirstLife
  <2>3. CASE Crash(n)
    BY <1>4, <1>6, <2>3
  <2>4. CASE (Poll(n) \/ Process(n) \/ Fault(n) \/ Tool(n)) /\ ~ BootError(n)
    BY <1>5, <2>4 DEF FirstLife
  <2> QED
    BY <1>7, <2>2, <2>3, <2>4
<1> QED
  BY <1>2, <1>6, <1>7 DEF Next

(* Every step keeps the job in hand, on one node.                           *)
LEMMA HandInductive ==
  ASSUME \A m, n \in Nodes : m = n
  PROVE  Known /\ HandInv /\ [Next]_vars => HandInv'
<1> SUFFICES ASSUME Known, HandInv, [Next]_vars PROVE HandInv'
  OBVIOUS
<1>1. /\ \A n \in Nodes : pc'[n] # "down" => life'[n] > 0
      /\ FirstLife' => FirstLife /\ \A n \in Nodes : ~ Crash(n)
  BY LifeStep DEF HandInv
<1>2. errors \in Nat /\ \A n \in Nodes : Fault(n) => errors' = errors + 1
  BY BoundAssumption DEF Known, TypeOK, Fault, BootError, SeedError, PollError, PersistError,
     ReleaseError, HandleError, ProcError, CallFails, StoreFails
<1>3. errors' = 0 => errors = 0
  <2>1. errors' = errors \/ errors' = errors + 1
    BY DEF Next, Boot, Poll, Process, Fault, Tool, Crash, Tick, vars, SeedWrite, Lead, ListDue,
       Claim, Skip, Mark, Execute, Finish, Report, Ask, Persist, Release, HandleAdd,
       HandleRemove, HandleUpdate, HandleList, ProcWrite, ProcClear, BootError, SeedError,
       PollError, PersistError, ReleaseError, HandleError, ProcError, ToolSend, ToolWrite,
       ToolEdit, StoreFails, CallFails
  <2> QED
    BY <1>2, <2>1
<1>4. ASSUME errors' = 0, FirstLife' PROVE \A n \in Nodes : HandNode(n)'
  <2>1. \A n \in Nodes : HandKnown(n)
    BY <1>1, <1>3, <1>4 DEF HandInv, Known, HandKnown
  <2>2. CASE Tick \/ UNCHANGED vars
    BY <2>1, <2>2, HandStutter
  <2>3. ASSUME NEW n \in Nodes, Boot(n) \/ Poll(n) \/ Process(n) \/ Fault(n) \/ Tool(n) \/ Crash(n)
        PROVE  HandNode(n)'
    BY <1>1, <1>2, <1>4, <2>1, <2>3, HandStep
  <2> QED
    BY <2>2, <2>3 DEF Next
<1> QED
  BY <1>1, <1>4 DEF HandInv

(* On one node without crashes and store errors a job that reads Dispatched *)
(* has its event in the hand of the loop, which goes on to settle it: the   *)
(* stale answer of a List never brings Dispatched back behind a report.     *)
THEOREM DispatchedIsHandled ==
  ASSUME NEW node, Nodes = {node}
  PROVE  Spec => []DispatchedInHand
<1>1. Init => HandInv
  BY DEF Init, HandInv, HandNode, Dispatched
<1>2. HandInv => DispatchedInHand
  <2> SUFFICES ASSUME HandInv, errors = 0, FirstLife, NEW j \in Jobs,
                      snap[j] # None, snap[j].status = "Dispatched"
               PROVE  \E n \in Nodes : \E i \in 1..Len(events[n]) : events[n][i] = j
    BY DEF DispatchedInHand
  <2> QED
    BY DEF HandInv, HandNode, HasEvent, Dispatched
<1>3. Known /\ HandInv /\ [Next]_vars => HandInv'
  BY HandInductive
<1> QED
  BY <1>1, <1>2, <1>3, AlwaysKnown, PTL DEF Spec
=============================================================================
