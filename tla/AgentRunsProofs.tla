-------------------------- MODULE AgentRunsProofs --------------------------
(***************************************************************************)
(* Proofs about AgentRuns, for any number of runs, workers and clients, any *)
(* roles of the clients and any number of store errors and crashes.         *)
(***************************************************************************)
EXTENDS AgentRuns, TLAPS

USE DEF Ended, Kinds, Sessions

(* The run a worker has in hand was claimed, and its handler is started     *)
(* from "start" only.                                                       *)
WorkOwned ==
  \A w \in Workers : work[w] # None =>
    /\ Status(work[w].run) \in {"Running"} \cup Ended
    /\ work[w].at \in {"check", "write", "tell"} => work[w].out \in Ended
    /\ work[w].at = "start" => started[work[w].run] = 0

(* Two workers never have the same run in hand.                             *)
WorkDistinct ==
  \A v, w \in Workers :
    v # w /\ work[v] # None /\ work[w] # None => work[v].run # work[w].run

(* The handler of a run that was not claimed was not started.               *)
NotBegun == \A r \in Runs : Status(r) \in {"Absent", "Queued"} => started[r] = 0

(* What an operation listed exists, and it turns to one of those runs.      *)
OpListed ==
  \A c \in Clients : op[c] # None =>
    /\ Exists(op[c].root)
    /\ op[c].todo \subseteq op[c].listed
    /\ \A r \in op[c].listed : Exists(r)
    /\ op[c].at \in {"write", "tell"} => op[c].now \in op[c].todo
    /\ op[c].at = "tell" => IsEnded(op[c].now)

(* What was listed and is done with has ended, and so has everything below  *)
(* it and below the run the operation is at.                                *)
LeavesFirst ==
  \A c \in Clients : op[c] # None =>
    /\ \A r \in op[c].listed : r \notin op[c].todo => IsEnded(r)
    /\ \A r, s \in op[c].listed :
         (r = op[c].now \/ r \notin op[c].todo) /\ run[s].parent = r =>
           s \notin op[c].todo

Inv ==
  /\ TypeOK
  /\ WorkOwned /\ WorkDistinct /\ NotBegun /\ RunOnce
  /\ OpListed /\ LeavesFirst

-----------------------------------------------------------------------------
(* Rows.                                                                    *)

RunsOK == run \in [Runs -> Record \cup {None}]

(* The shape of a row that exists.                                          *)
LEMMA RowShape ==
  ASSUME RunsOK, NEW r \in Runs, Exists(r)
  PROVE  /\ run[r] \in Record
         /\ Status(r) = run[r].status
         /\ Status(r) \in {"Queued", "Running"} \cup Ended
         /\ Status(r) # "Absent"
BY DEF RunsOK, Exists, Status, Record

(* A status that is written changes nothing else.                           *)
LEMMA StatusWritten ==
  ASSUME RunsOK, NEW r \in Runs, Exists(r),
         NEW s \in {"Queued", "Running"} \cup Ended, SetStatus(r, s)
  PROVE  /\ RunsOK'
         /\ \A q \in Runs : Exists(q)' <=> Exists(q)
         /\ \A q \in Runs : Exists(q) => run'[q].parent = run[q].parent
         /\ \A q \in Runs : Status(q)' = IF q = r THEN s ELSE Status(q)
<1> DEFINE row == [run[r] EXCEPT !.status = s]
<1>1. run[r] \in Record /\ run[r] # None
  BY RowShape DEF Exists
<1>2. run' = [run EXCEPT ![r] = row]
  BY DEF SetStatus
<1>3. row \in Record /\ row.status = s /\ row.parent = run[r].parent
  BY <1>1 DEF Record
<1>4. row # None
  BY <1>3, NoneAssumption
<1> HIDE DEF row
<1>5. run' \in [Runs -> Record \cup {None}] /\ run'[r] = row
  BY <1>2, <1>3 DEF RunsOK
<1>6. \A q \in Runs : q # r => run'[q] = run[q]
  BY <1>2 DEF RunsOK
<1> QED BY <1>1, <1>3, <1>4, <1>5, <1>6 DEF RunsOK, Exists, Status

(* A row that is inserted is queued and is new.                             *)
LEMMA RowInserted ==
  ASSUME RunsOK, NEW p \in Runs \cup {None}, NEW n \in Sessions, Insert(p, n)
  PROVE  /\ RunsOK'
         /\ \A q \in Runs : Exists(q) => run'[q] = run[q]
         /\ \A q \in Runs : Status(q)' # Status(q) => Status(q) = "Absent" /\ Status(q)' = "Queued"
<1> DEFINE fresh == {r \in Runs : ~ Exists(r)}
           f == CHOOSE x \in fresh : TRUE
           row == [status |-> "Queued", parent |-> p, session |-> n]
<1>1. f \in Runs /\ ~ Exists(f)
  BY DEF Insert
<1>2. run' = [run EXCEPT ![f] = row]
  BY DEF Insert
<1>3. row \in Record /\ row.status = "Queued"
  BY DEF Record
<1>4. row # None
  BY <1>3, NoneAssumption
<1> HIDE DEF f, row, fresh
<1>5. run' \in [Runs -> Record \cup {None}] /\ run'[f] = row
  BY <1>1, <1>2, <1>3 DEF RunsOK
<1>6. \A q \in Runs : q # f => run'[q] = run[q]
  BY <1>2 DEF RunsOK
<1> QED BY <1>1, <1>3, <1>4, <1>5, <1>6 DEF RunsOK, Exists, Status

(* The run that a worker has in hand.                                       *)
LEMMA InHand ==
  ASSUME TypeOK, WorkOwned, NEW w \in Workers, work[w] # None
  PROVE  /\ work[w] \in Job
         /\ work[w].run \in Runs
         /\ Exists(work[w].run)
<1>1. work[w] \in Job
  BY DEF TypeOK
<1>2. work[w].run \in Runs /\ Status(work[w].run) \in {"Running"} \cup Ended
  BY <1>1 DEF Job, WorkOwned
<1> QED BY <1>1, <1>2 DEF Status

(* The runs an operation is about.                                          *)
LEMMA InOp ==
  ASSUME TypeOK, OpListed, NEW c \in Clients, op[c] # None
  PROVE  /\ op[c] \in Op
         /\ op[c].root \in Runs /\ Exists(op[c].root)
         /\ op[c].todo \subseteq Runs /\ op[c].listed \subseteq Runs
         /\ op[c].at \in {"write", "tell"} => op[c].now \in Runs /\ Exists(op[c].now)
<1>1. op[c] \in Op
  BY DEF TypeOK
<1> QED BY <1>1 DEF Op, OpListed

-----------------------------------------------------------------------------
(* What a step does to the rows.                                            *)

(* Rows stay and keep their parent; a run that has ended stays ended, and   *)
(* one that was claimed is not queued again.                                *)
RowsKept ==
  \A r \in Runs :
    /\ Exists(r) => Exists(r)' /\ run'[r].parent = run[r].parent
    /\ IsEnded(r) => IsEnded(r)'
    /\ Status(r)' \in {"Absent", "Queued"} => Status(r) \in {"Absent", "Queued"}

LEMMA StatusKept ==
  ASSUME RunsOK, NEW r \in Runs, Exists(r), NEW s \in {"Running"} \cup Ended,
         IsEnded(r) => s \in Ended, SetStatus(r, s)
  PROVE  RunsOK' /\ RowsKept /\ Status(r)' = s
BY StatusWritten DEF RowsKept, IsEnded

LEMMA InsertKept ==
  ASSUME RunsOK, NEW p \in Runs \cup {None}, NEW n \in Sessions, Insert(p, n)
  PROVE  RunsOK' /\ RowsKept
BY RowInserted DEF RowsKept, IsEnded, Exists, Status

LEMMA NothingWritten ==
  ASSUME RunsOK, UNCHANGED run
  PROVE  RunsOK' /\ RowsKept
BY DEF RunsOK, RowsKept, Exists, Status, IsEnded

LEMMA RowStep ==
  ASSUME Inv, [Next]_vars
  PROVE  RunsOK' /\ RowsKept
<1> USE DEF Inv
<1>0. RunsOK
  BY DEF TypeOK, RunsOK
<1>1. CASE Spawn
  <2>1. PICK s \in {Chat} \cup {work[w].run : w \in {v \in Workers : At(v, "exec")}} :
          \E p \in {None} \cup {r \in Runs : Exists(r)} : Insert(p, s)
    BY <1>1 DEF Spawn
  <2>2. s \in Sessions
    BY <2>1, InHand DEF At
  <2> QED BY <1>0, <2>1, <2>2, InsertKept
<1>2. CASE \E w \in Workers : Work(w) \/ CheckError(w) \/ WorkError(w) \/ Crash(w)
  <2>0. PICK w \in Workers : Work(w) \/ CheckError(w) \/ WorkError(w) \/ Crash(w)
    BY <1>2
  <2>1. CASE Claim(w)
    <3>1. PICK r \in Runs : Status(r) = "Queued" /\ SetStatus(r, "Running")
      BY <2>1 DEF Claim
    <3> QED BY <1>0, <3>1, StatusKept DEF Status, IsEnded
  <2>2. CASE Store(w)
    <3>1. SetStatus(work[w].run, work[w].out) /\ work[w] # None /\ work[w].at = "write"
      BY <2>2 DEF Store, At
    <3> QED BY <1>0, <3>1, StatusKept, InHand DEF WorkOwned
  <2>3. CASE ~ Claim(w) /\ ~ Store(w)
    <3>1. UNCHANGED run
      BY <2>0, <2>3 DEF Work, Start, Return, Check, Tell, CheckError, WorkError, Crash
    <3> QED BY <1>0, <3>1, NothingWritten
  <2> QED BY <2>1, <2>2, <2>3
<1>3. CASE \E c \in Clients : Ask(c) \/ Serve(c) \/ OpError(c)
  <2>0. PICK c \in Clients : Ask(c) \/ Serve(c) \/ OpError(c)
    BY <1>3
  <2>1. CASE CancelWrite(c)
    <3>1. SetStatus(op[c].now, "Cancelled") /\ op[c] # None /\ op[c].at = "write"
      BY <2>1 DEF CancelWrite, OpAt
    <3> QED BY <1>0, <3>1, StatusKept, InOp
  <2>2. CASE Requeue(c)
    <3>1. Insert(run[op[c].root].parent, run[op[c].root].session) /\ op[c] # None
      BY <2>2 DEF Requeue, OpAt
    <3>2. run[op[c].root] \in Record
      BY <1>0, <3>1, InOp, RowShape
    <3>3. run[op[c].root].parent \in Runs \cup {None} /\ run[op[c].root].session \in Sessions
      BY <3>2 DEF Record
    <3> QED BY <1>0, <3>1, <3>3, InsertKept
  <2>3. CASE ~ CancelWrite(c) /\ ~ Requeue(c)
    <3>1. UNCHANGED run
      BY <2>0, <2>3 DEF Ask, Serve, CancelRead, CancelTell, Inform, OpError
    <3> QED BY <1>0, <3>1, NothingWritten
  <2> QED BY <2>1, <2>2, <2>3
<1>4. CASE UNCHANGED vars
  BY <1>0, <1>4, NothingWritten DEF vars
<1> QED BY <1>1, <1>2, <1>3, <1>4 DEF Next

-----------------------------------------------------------------------------
(* What a worker does.                                                      *)

(* The step of a worker gives up what it has in hand, takes a queued run, or*)
(* goes on with the run it has.                                             *)
Moved(w, j) ==
  /\ work' = [work EXCEPT ![w] = j]
  /\ \/ j = None
     \/ /\ j # None /\ work[w] = None /\ j.at = "start"
        /\ Status(j.run) = "Queued" /\ Status(j.run)' = "Running"
     \/ /\ j # None /\ work[w] # None /\ j.run = work[w].run /\ j.at # "start"
        /\ j.at \in {"check", "write", "tell"} => j.out \in Ended

(* It starts the handler of the run it has at "start".                      *)
Begun(w) ==
  \/ started' = started
  \/ /\ work[w] # None /\ work[w].at = "start"
     /\ started' = [started EXCEPT ![work[w].run] = @ + 1]
     /\ work'[w] = None \/ work'[w].at # "start"

(* A worker goes on with its run.                                           *)
LEMMA GoesOn ==
  ASSUME TypeOK, NEW w \in Workers, work[w] # None,
         NEW p \in {"exec", "check", "write", "tell"}, NEW o \in Ended \cup {None},
         p \in {"check", "write", "tell"} => o \in Ended,
         work' = [work EXCEPT ![w] = [@ EXCEPT !.at = p, !.out = o]]
  PROVE  \E j \in Job \cup {None} : Moved(w, j) /\ j # None /\ j.at = p
<1> DEFINE j == [work[w] EXCEPT !.at = p, !.out = o]
<1>1. work[w] \in Job
  BY DEF TypeOK
<1>2. j \in Job /\ j.at = p /\ j.out = o /\ j.run = work[w].run
  BY <1>1 DEF Job
<1>3. work' = [work EXCEPT ![w] = j]
  OBVIOUS
<1>4. j # None
  BY <1>2, NoneAssumption
<1> HIDE DEF j
<1> QED BY <1>2, <1>3, <1>4 DEF Moved

(* The same where the outcome stays.                                        *)
LEMMA GoesOnAs ==
  ASSUME TypeOK, WorkOwned, NEW w \in Workers, work[w] # None,
         NEW p \in {"exec", "check", "write", "tell"},
         p \in {"check", "write", "tell"} => work[w].at \in {"check", "write", "tell"},
         GoOn(w, p)
  PROVE  \E j \in Job \cup {None} : Moved(w, j) /\ j # None /\ j.at = p
<1>1. work[w] \in Job
  BY DEF TypeOK
<1>2. [work[w] EXCEPT !.at = p] = [work[w] EXCEPT !.at = p, !.out = work[w].out]
  BY <1>1 DEF Job
<1>3. work' = [work EXCEPT ![w] = [@ EXCEPT !.at = p, !.out = work[w].out]]
  BY <1>2 DEF GoOn
<1>4. work[w].out \in Ended \cup {None}
  BY <1>1 DEF Job
<1>5. p \in {"check", "write", "tell"} => work[w].out \in Ended
  BY DEF WorkOwned
<1> QED BY <1>3, <1>4, <1>5, GoesOn

LEMMA WorkerStep ==
  ASSUME Inv, NEW w \in Workers,
         Work(w) \/ CheckError(w) \/ WorkError(w) \/ Crash(w)
  PROVE  (\E j \in Job \cup {None} : Moved(w, j)) /\ Begun(w)
<1> USE DEF Inv
<1>0. RunsOK
  BY DEF TypeOK, RunsOK
<1>1. CASE Claim(w)
  <2>1. PICK r \in Runs :
          /\ Status(r) = "Queued" /\ SetStatus(r, "Running")
          /\ work' = [work EXCEPT ![w] = [at |-> "start", run |-> r, out |-> None]]
    BY <1>1 DEF Claim
  <2> DEFINE j == [at |-> "start", run |-> r, out |-> None]
  <2>2. j \in Job /\ j.at = "start" /\ j.run = r
    BY DEF Job
  <2>3. j # None
    BY <2>2, NoneAssumption
  <2>4. Status(r)' = "Running"
    BY <1>0, <2>1, StatusKept DEF Status, IsEnded
  <2>5. work[w] = None /\ work' = [work EXCEPT ![w] = j]
    BY <1>1, <2>1 DEF Claim
  <2> HIDE DEF j
  <2>6. Moved(w, j)
    BY <2>1, <2>2, <2>3, <2>4, <2>5 DEF Moved
  <2> QED BY <1>1, <2>2, <2>6 DEF Claim, Begun
<1>2. CASE Start(w)
  <2>0. work[w] # None /\ work[w].at = "start"
    BY <1>2 DEF Start, At
  <2>1. CASE GoOn(w, "exec") /\ started' = [started EXCEPT ![work[w].run] = @ + 1]
    <3>1. \E j \in Job \cup {None} : Moved(w, j) /\ j # None /\ j.at = "exec"
      BY <2>0, <2>1, GoesOnAs
    <3>2. work'[w].at # "start"
      BY <3>1 DEF Moved, TypeOK
    <3> QED BY <2>0, <2>1, <3>1, <3>2 DEF Begun
  <2>2. CASE /\ work' = [work EXCEPT ![w].at = "check", ![w].out = "TimedOut"]
             /\ UNCHANGED started
    <3>1. work' = [work EXCEPT ![w] = [@ EXCEPT !.at = "check", !.out = "TimedOut"]]
      BY <2>2
    <3> QED BY <2>0, <2>2, <3>1, GoesOn DEF Begun
  <2> QED BY <1>2, <2>1, <2>2 DEF Start
<1>3. CASE Return(w)
  <2>1. PICK out \in Outcomes :
          work' = [work EXCEPT ![w].at = "check", ![w].out = out]
    BY <1>3 DEF Return
  <2>2. work' = [work EXCEPT ![w] = [@ EXCEPT !.at = "check", !.out = out]]
    BY <2>1
  <2>3. out \in Ended
    BY RunAssumption
  <2> QED BY <1>3, <2>2, <2>3, GoesOn DEF Return, At, Begun
<1>4. CASE Check(w) \/ CheckError(w)
  <2>1. work[w] # None /\ work[w].at = "check" /\ started' = started
    BY <1>4 DEF Check, CheckError, At
  <2>2. work' = [work EXCEPT ![w] = None] \/ GoOn(w, "write")
    BY <1>4 DEF Check, CheckError
  <2> QED BY <2>1, <2>2, GoesOnAs DEF Moved, Begun
<1>5. CASE Store(w)
  <2>1. work[w] # None /\ work[w].at = "write" /\ started' = started /\ GoOn(w, "tell")
    BY <1>5 DEF Store, At
  <2> QED BY <2>1, GoesOnAs DEF Begun
<1>6. CASE Tell(w) \/ WorkError(w) \/ Crash(w)
  BY <1>6 DEF Tell, WorkError, Crash, Moved, Begun
<1> QED BY <1>1, <1>2, <1>3, <1>4, <1>5, <1>6 DEF Work

(* The facts about workers when one of them moves.                          *)
LEMMA WorkAfter ==
  ASSUME Inv, RunsOK', RowsKept, NEW w \in Workers, NEW j \in Job \cup {None},
         Moved(w, j), Begun(w)
  PROVE  /\ work' \in [Workers -> Job \cup {None}] /\ started' \in [Runs -> Nat]
         /\ WorkOwned' /\ WorkDistinct' /\ NotBegun' /\ RunOnce'
<1> USE DEF Inv
<1>0. work \in [Workers -> Job \cup {None}] /\ started \in [Runs -> Nat]
  BY DEF TypeOK
<1>1. work' \in [Workers -> Job \cup {None}] /\ work'[w] = j
  BY <1>0 DEF Moved
<1>2. \A v \in Workers : v # w => work'[v] = work[v]
  BY <1>0 DEF Moved
<1>3. \A v \in Workers : work[v] # None => work[v].run \in Runs
  BY InHand
<1>4. ASSUME work[w] # None, work[w].at = "start"
      PROVE  started[work[w].run] = 0
  BY <1>4 DEF WorkOwned
<1>5. started' \in [Runs -> Nat]
  BY <1>0, <1>3 DEF Begun
<1>6. ASSUME NEW r \in Runs, started'[r] # started[r]
      PROVE  /\ work[w] # None /\ work[w].at = "start" /\ r = work[w].run
             /\ started'[r] = 1 /\ (j = None \/ j.at # "start")
  BY <1>0, <1>1, <1>3, <1>4, <1>6 DEF Begun
<1>7. ASSUME NEW r \in Runs
      PROVE  Status(r)' \in {"Absent", "Queued", "Running"} \cup Ended
  BY DEF RunsOK, Status, Record, Exists
<1>8. WorkOwned'
  <2> SUFFICES ASSUME NEW v \in Workers, NEW r \in Runs, work'[v] # None, work'[v].run = r
               PROVE  /\ Status(r)' \in {"Running"} \cup Ended
                      /\ work'[v].at \in {"check", "write", "tell"} => work'[v].out \in Ended
                      /\ work'[v].at = "start" => started'[r] = 0
    BY <1>1 DEF WorkOwned, Job
  <2>1. CASE v # w
    <3>1. work'[v] = work[v]
      BY <1>2, <2>1
    <3>2. Status(r) \in {"Running"} \cup Ended
      BY <3>1 DEF WorkOwned
    <3>3. Status(r)' \in {"Running"} \cup Ended
      BY <1>7, <3>2 DEF RowsKept
    <3>4. work[w] # None => r # work[w].run
      BY <2>1, <3>1 DEF WorkDistinct
    <3>5. started'[r] = started[r]
      BY <1>6, <3>4
    <3> QED BY <3>1, <3>3, <3>5 DEF WorkOwned
  <2>2. CASE v = w /\ work[w] = None
    <3>1. j.at = "start" /\ Status(r) = "Queued" /\ Status(r)' = "Running"
      BY <1>1, <2>2 DEF Moved
    <3>2. started[r] = 0
      BY <3>1 DEF NotBegun
    <3> QED BY <1>1, <1>6, <2>2, <3>1, <3>2
  <2>3. CASE v = w /\ work[w] # None
    <3>1. r = work[w].run /\ j.at # "start"
      BY <1>1, <2>3 DEF Moved
    <3>2. Status(r) \in {"Running"} \cup Ended
      BY <2>3, <3>1 DEF WorkOwned
    <3>3. Status(r)' \in {"Running"} \cup Ended
      BY <1>7, <3>2 DEF RowsKept
    <3> QED BY <1>1, <2>3, <3>1, <3>3 DEF Moved
  <2> QED BY <2>1, <2>2, <2>3
<1>9. WorkDistinct'
  <2> SUFFICES ASSUME NEW v \in Workers, NEW u \in Workers, v # u,
                      work'[v] # None, work'[u] # None, work'[v].run = work'[u].run
               PROVE  FALSE
    BY DEF WorkDistinct
  <2>1. CASE v # w /\ u # w
    BY <2>1, <1>2 DEF WorkDistinct
  <2>2. ASSUME NEW x \in Workers, x # w, work[x] # None, j # None, j.run = work[x].run
        PROVE  FALSE
    <3>1. CASE work[w] # None
      BY <2>2, <3>1 DEF Moved, WorkDistinct
    <3>2. CASE work[w] = None
      BY <2>2, <3>2 DEF Moved, WorkOwned
    <3> QED BY <3>1, <3>2
  <2> QED BY <2>1, <2>2, <1>1, <1>2
<1>10. NotBegun'
  <2> SUFFICES ASSUME NEW r \in Runs, Status(r)' \in {"Absent", "Queued"}
               PROVE  started'[r] = 0
    BY DEF NotBegun
  <2>1. Status(r) \in {"Absent", "Queued"} /\ started[r] = 0
    BY DEF RowsKept, NotBegun
  <2>2. CASE started'[r] # started[r]
    BY <1>6, <2>1, <2>2 DEF WorkOwned
  <2> QED BY <2>1, <2>2
<1>11. RunOnce'
  BY <1>5, <1>6 DEF RunOnce
<1> QED BY <1>1, <1>5, <1>8, <1>9, <1>10, <1>11

-----------------------------------------------------------------------------
(* What an operation does.                                                  *)

(* The runs below an existing one that are found among existing runs exist. *)
LEMMA TreeExists ==
  ASSUME RunsOK, NEW root \in Runs, Exists(root)
  PROVE  /\ Tree(root) \subseteq Runs
         /\ \A r \in Tree(root) : Exists(r)
<1> DEFINE peers == {r \in Runs : Exists(r) /\ run[r].session = run[root].session}
           S == {r \in Runs : Exists(r)}
<1>1. S \in SUBSET Runs /\ root \in S
  OBVIOUS
<1>2. \A s \in peers : run[s].parent \in S => s \in S
  OBVIOUS
<1>3. Below(root, peers) \subseteq S
  BY <1>1, <1>2 DEF Below
<1> QED BY <1>3 DEF Tree

(* The operation is done with run r, below which nothing was left to do.    *)
Passed(o, p, r) ==
  /\ r \in o.todo /\ IsEnded(r)
  /\ \A s \in o.todo : run[s].parent # r
  /\ p.todo = o.todo \ {r} /\ p.now = None /\ p.at \in {"read", "insert"}

(* The step of an operation o makes it p.                                   *)
OpMoved(o, p) ==
  \/ /\ o = None
     /\ Exists(p.root) /\ p.todo = p.listed /\ p.now = None
     /\ \A r \in p.listed : Exists(r)
     /\ p.at \in {"read", "insert"}
  \/ /\ o # None /\ p.root = o.root /\ p.listed = o.listed
     /\ \/ /\ p.todo = o.todo /\ p.now \in o.todo /\ p.at = "write"
           /\ \A s \in o.todo : run[s].parent # p.now
        \/ /\ p.todo = o.todo /\ p.now = o.now
           /\ o.at = "write" /\ p.at = "tell" /\ IsEnded(p.now)'
        \/ \E r \in Runs : Passed(o, p, r)
        \/ /\ p.todo = o.todo /\ p.now = o.now /\ p.at = "inform"

(* The next run or the end of the cancellation.                             *)
LEMMA Proceeds ==
  ASSUME TypeOK, NEW c \in Clients, op[c] # None, NEW r \in op[c].todo, IsEnded(r),
         \A s \in op[c].todo : run[s].parent # r,
         Proceed(c, op[c].todo \ {r})
  PROVE  \E p \in Op \cup {None} :
           op' = [op EXCEPT ![c] = p] /\ (p # None => OpMoved(op[c], p))
<1>0. op[c] \in Op /\ r \in Runs
  BY DEF TypeOK, Op
<1>1. CASE op[c].todo \ {r} = {} /\ op[c].kind = "cancel"
  BY <1>1 DEF Proceed, Finish
<1>2. CASE ~ (op[c].todo \ {r} = {} /\ op[c].kind = "cancel")
  <2> DEFINE rest == op[c].todo \ {r}
             at == IF rest = {} THEN "insert" ELSE "read"
             p == [op[c] EXCEPT !.todo = rest, !.now = None, !.at = at]
  <2>1. op' = [op EXCEPT ![c] = p]
    BY <1>2 DEF Proceed
  <2>2. /\ p \in Op /\ p.todo = rest /\ p.now = None /\ p.at = at
        /\ p.root = op[c].root /\ p.listed = op[c].listed
    BY <1>0 DEF Op
  <2>3. at \in {"read", "insert"}
    OBVIOUS
  <2> HIDE DEF p, at
  <2>4. Passed(op[c], p, r)
    BY <2>2, <2>3 DEF Passed
  <2>5. OpMoved(op[c], p)
    BY <1>0, <2>2, <2>4 DEF OpMoved
  <2> QED BY <2>1, <2>2, <2>5
<1> QED BY <1>1, <1>2

LEMMA ClientStep ==
  ASSUME Inv, NEW c \in Clients, Ask(c) \/ Serve(c) \/ OpError(c)
  PROVE  \E p \in Op \cup {None} :
           op' = [op EXCEPT ![c] = p] /\ (p # None => OpMoved(op[c], p))
<1> USE DEF Inv
<1>0. RunsOK
  BY DEF TypeOK, RunsOK
<1>1. CASE Ask(c)
  <2>1. PICK r \in Runs, k \in KindsOf[c] :
          LET tree == IF k = "cancel" \/ (k = "takeover" /\ ~ IsEnded(r)) THEN Tree(r) ELSE {} IN
          /\ Exists(r)
          /\ op' = [op EXCEPT ![c] = [kind |-> k, root |-> r, todo |-> tree, listed |-> tree,
                                      now |-> None, at |-> IF tree = {} THEN "insert" ELSE "read"]]
    BY <1>1 DEF Ask
  <2> DEFINE tree == IF k = "cancel" \/ (k = "takeover" /\ ~ IsEnded(r)) THEN Tree(r) ELSE {}
             at == IF tree = {} THEN "insert" ELSE "read"
             p == [kind |-> k, root |-> r, todo |-> tree, listed |-> tree,
                   now |-> None, at |-> at]
  <2>2. tree \subseteq Runs /\ \A s \in tree : Exists(s)
    BY <1>0, <2>1, TreeExists
  <2>3. k \in Kinds /\ at \in {"read", "insert"}
    BY RunAssumption
  <2>4. op[c] = None /\ op' = [op EXCEPT ![c] = p] /\ Exists(r)
    BY <1>1, <2>1 DEF Ask
  <2> HIDE DEF tree, at
  <2>5. p \in Op /\ OpMoved(op[c], p)
    BY <2>2, <2>3, <2>4 DEF Op, OpMoved
  <2> QED BY <2>4, <2>5
<1>2. CASE CancelRead(c)
  <2>1. PICK r \in op[c].todo :
          /\ \A s \in op[c].todo : run[s].parent # r
          /\ IF IsEnded(r) THEN Proceed(c, op[c].todo \ {r})
             ELSE op' = [op EXCEPT ![c].now = r, ![c].at = "write"]
    BY <1>2 DEF CancelRead
  <2>2. op[c] # None /\ op[c] \in Op /\ r \in Runs
    BY <1>2, InOp DEF CancelRead, OpAt
  <2>3. CASE IsEnded(r)
    BY <2>1, <2>2, <2>3, Proceeds
  <2>4. CASE ~ IsEnded(r)
    <3> DEFINE p == [op[c] EXCEPT !.now = r, !.at = "write"]
    <3>1. op' = [op EXCEPT ![c] = p]
      BY <2>1, <2>4
    <3>2. /\ p \in Op /\ p.todo = op[c].todo /\ p.now = r /\ p.at = "write"
          /\ p.root = op[c].root /\ p.listed = op[c].listed
      BY <2>2 DEF Op
    <3> HIDE DEF p
    <3>3. OpMoved(op[c], p)
      BY <2>1, <2>2, <3>2 DEF OpMoved
    <3> QED BY <3>1, <3>2, <3>3
  <2> QED BY <2>3, <2>4
<1>3. CASE CancelWrite(c)
  <2>1. /\ op[c] # None /\ op[c].at = "write" /\ op[c] \in Op
        /\ op[c].now \in Runs /\ Exists(op[c].now)
    BY <1>3, InOp DEF CancelWrite, OpAt
  <2>2. [op[c] EXCEPT !.at = "tell"] \in Op
    BY <2>1 DEF Op
  <2>3. PICK p \in Op : p = [op[c] EXCEPT !.at = "tell"]
    BY <2>2
  <2>4. op' = [op EXCEPT ![c] = p]
    BY <1>3, <2>3 DEF CancelWrite
  <2>5. /\ p.todo = op[c].todo /\ p.now = op[c].now /\ p.at = "tell"
        /\ p.root = op[c].root /\ p.listed = op[c].listed
    BY <2>1, <2>3 DEF Op
  <2>6. SetStatus(p.now, "Cancelled") /\ p.now \in Runs /\ Exists(p.now)
    BY <1>3, <2>1, <2>5 DEF CancelWrite
  <2>7. IsEnded(p.now)'
    BY <1>0, <2>6, StatusWritten DEF IsEnded
  <2>8. OpMoved(op[c], p)
    BY <2>1, <2>5, <2>7 DEF OpMoved
  <2> QED BY <2>4, <2>8
<1>4. CASE CancelTell(c)
  <2>1. /\ op[c] # None /\ op[c].at = "tell" /\ op[c] \in Op
        /\ op[c].now \in op[c].todo /\ IsEnded(op[c].now)
    BY <1>4, InOp DEF CancelTell, OpAt, OpListed
  <2>2. \A s \in op[c].todo : run[s].parent # op[c].now
    BY <2>1 DEF LeavesFirst, OpListed
  <2>3. Proceed(c, op[c].todo \ {op[c].now})
    BY <1>4 DEF CancelTell
  <2> QED BY <2>1, <2>2, <2>3, Proceeds
<1>5. CASE Requeue(c)
  <2>1. op[c] # None /\ op[c] \in Op
    BY <1>5, InOp DEF Requeue, OpAt
  <2>2. CASE op[c].kind = "retry"
    BY <1>5, <2>2 DEF Requeue, Finish
  <2>3. CASE op[c].kind # "retry"
    <3> DEFINE p == [op[c] EXCEPT !.at = "inform"]
    <3>1. op' = [op EXCEPT ![c] = p]
      BY <1>5, <2>3 DEF Requeue
    <3>2. /\ p \in Op /\ p.todo = op[c].todo /\ p.now = op[c].now /\ p.at = "inform"
          /\ p.root = op[c].root /\ p.listed = op[c].listed
      BY <2>1 DEF Op
    <3> HIDE DEF p
    <3>3. OpMoved(op[c], p)
      BY <2>1, <3>2 DEF OpMoved
    <3> QED BY <3>1, <3>2, <3>3
  <2> QED BY <2>2, <2>3
<1>6. CASE Inform(c) \/ OpError(c)
  BY <1>6 DEF Inform, OpError, Finish
<1> QED BY <1>1, <1>2, <1>3, <1>4, <1>5, <1>6 DEF Serve

(* The facts about operations when each stays, ends or moves.               *)
LEMMA OpAfter ==
  ASSUME Inv, RunsOK', RowsKept, op' \in [Clients -> Op \cup {None}],
         \A c \in Clients : \A p \in Op \cup {None} :
           op'[c] = p => p = None \/ p = op[c] \/ OpMoved(op[c], p)
  PROVE  OpListed' /\ LeavesFirst'
<1> USE DEF Inv
<1> SUFFICES ASSUME NEW c \in Clients, NEW p \in Op, op'[c] = p, p # None
             PROVE  /\ Exists(p.root)'
                    /\ p.todo \subseteq p.listed
                    /\ \A r \in p.listed : Exists(r)'
                    /\ p.at \in {"write", "tell"} => p.now \in p.todo
                    /\ p.at = "tell" => IsEnded(p.now)'
                    /\ \A r \in p.listed : r \notin p.todo => IsEnded(r)'
                    /\ \A r, s \in p.listed :
                         (r = p.now \/ r \notin p.todo) /\ run'[s].parent = r =>
                           s \notin p.todo
  BY DEF OpListed, LeavesFirst
<1>1. /\ p.root \in Runs /\ p.todo \subseteq Runs /\ p.listed \subseteq Runs
      /\ p.now \in Runs \cup {None}
  BY DEF Op
<1>2. \A r \in Runs : Exists(r) => Exists(r)' /\ run'[r].parent = run[r].parent
  BY DEF RowsKept
<1>3. \A r \in Runs : IsEnded(r) => IsEnded(r)'
  BY DEF RowsKept
<1>4. CASE p = op[c]
  <2>1. /\ Exists(p.root) /\ p.todo \subseteq p.listed
        /\ \A r \in p.listed : Exists(r)
        /\ p.at \in {"write", "tell"} => p.now \in p.todo
        /\ p.at = "tell" => IsEnded(p.now)
    BY <1>4 DEF OpListed
  <2>2. /\ \A r \in p.listed : r \notin p.todo => IsEnded(r)
        /\ \A r, s \in p.listed :
             (r = p.now \/ r \notin p.todo) /\ run[s].parent = r => s \notin p.todo
    BY <1>4 DEF LeavesFirst
  <2> QED BY <1>1, <1>2, <1>3, <2>1, <2>2
<1>5. CASE p # op[c] /\ op[c] = None
  <2>1. /\ Exists(p.root) /\ p.todo = p.listed /\ p.now = None
        /\ \A r \in p.listed : Exists(r)
        /\ p.at \in {"read", "insert"}
    BY <1>5 DEF OpMoved
  <2>2. \A r \in p.listed : r # None
    BY <1>1, RunAssumption
  <2> QED BY <1>1, <1>2, <2>1, <2>2
<1>6. CASE p # op[c] /\ op[c] # None
  <2> DEFINE o == op[c]
  <2>0. /\ o \in Op /\ Exists(o.root) /\ o.todo \subseteq o.listed
        /\ \A r \in o.listed : Exists(r)
        /\ o.at \in {"write", "tell"} => o.now \in o.todo
    BY <1>6, InOp DEF OpListed
  <2>1. /\ \A r \in o.listed : r \notin o.todo => IsEnded(r)
        /\ \A r, s \in o.listed :
             (r = o.now \/ r \notin o.todo) /\ run[s].parent = r => s \notin o.todo
    BY <1>6 DEF LeavesFirst
  <2>2. p.root = o.root /\ p.listed = o.listed
    BY <1>6 DEF OpMoved
  <2>3. /\ Exists(p.root)' /\ \A r \in p.listed : Exists(r)'
    BY <1>1, <1>2, <2>0, <2>2
  <2>4. CASE /\ p.todo = o.todo /\ p.now \in o.todo /\ p.at = "write"
             /\ \A s \in o.todo : run[s].parent # p.now
    BY <1>1, <1>2, <1>3, <2>0, <2>1, <2>2, <2>3, <2>4
  <2>5. CASE /\ p.todo = o.todo /\ p.now = o.now
             /\ o.at = "write" /\ p.at = "tell" /\ IsEnded(p.now)'
    BY <1>1, <1>2, <1>3, <2>0, <2>1, <2>2, <2>3, <2>5
  <2>6. CASE \E r \in Runs : Passed(o, p, r)
    <3>1. PICK r \in Runs : Passed(o, p, r)
      BY <2>6
    <3>2. r # None /\ \A s \in p.listed : s # None
      BY <1>1, RunAssumption
    <3> QED BY <1>1, <1>2, <1>3, <2>0, <2>1, <2>2, <2>3, <3>1, <3>2 DEF Passed
  <2>7. CASE p.todo = o.todo /\ p.now = o.now /\ p.at = "inform"
    BY <1>1, <1>2, <1>3, <2>0, <2>1, <2>2, <2>3, <2>7
  <2> QED BY <1>6, <2>4, <2>5, <2>6, <2>7 DEF OpMoved
<1> QED BY <1>4, <1>5, <1>6

-----------------------------------------------------------------------------
(* The invariant is inductive.                                              *)

LEMMA MailTold ==
  ASSUME TypeOK, NEW r \in Runs, NEW what \in Ended \cup {"TakenOver"}, Told(r, what)
  PROVE  mail' \in [Runs -> SUBSET (Ended \cup {"TakenOver"})]
BY DEF TypeOK, Told

LEMMA MailStep ==
  ASSUME Inv, [Next]_vars
  PROVE  /\ mail' \in [Runs -> SUBSET (Ended \cup {"TakenOver"})]
         /\ faults' \in 0..MaxFaults
<1> USE DEF Inv
<1>0. /\ mail \in [Runs -> SUBSET (Ended \cup {"TakenOver"})]
      /\ faults \in 0..MaxFaults /\ MaxFaults \in Nat
  BY RunAssumption DEF TypeOK
<1>1. faults' \in 0..MaxFaults
  <2>1. faults' = faults \/ Fault
    BY DEF Next, Spawn, Work, Claim, Start, Return, Check, CheckError, Store, Tell, WorkError,
           Crash, Serve, Ask, CancelRead, CancelWrite, CancelTell, Requeue, Inform, OpError, vars
  <2> QED BY <1>0, <2>1 DEF Fault
<1>2. CASE \E w \in Workers : Tell(w)
  <2>1. PICK w \in Workers : Tell(w)
    BY <1>2
  <2>2. work[w] # None /\ work[w].at = "tell" /\ Told(work[w].run, work[w].out)
    BY <2>1 DEF Tell, At
  <2> QED BY <1>1, <2>2, InHand, MailTold DEF WorkOwned
<1>3. CASE \E c \in Clients : CancelTell(c) \/ Inform(c)
  <2>1. PICK c \in Clients : CancelTell(c) \/ Inform(c)
    BY <1>3
  <2>2. CASE CancelTell(c)
    BY <1>1, <2>2, InOp, MailTold DEF CancelTell, OpAt
  <2>3. CASE Inform(c)
    BY <1>1, <2>3, InOp, MailTold DEF Inform, OpAt
  <2> QED BY <2>1, <2>2, <2>3
<1>4. CASE UNCHANGED mail
  BY <1>0, <1>1, <1>4
<1>5. \/ \E w \in Workers : Tell(w)
      \/ \E c \in Clients : CancelTell(c) \/ Inform(c)
      \/ UNCHANGED mail
  BY DEF Next, Spawn, Work, Claim, Start, Return, Check, CheckError, Store, WorkError,
         Crash, Serve, Ask, CancelRead, CancelWrite, Requeue, OpError, vars
<1> QED BY <1>2, <1>3, <1>4, <1>5

LEMMA Initially ==
  ASSUME Init
  PROVE  Inv
<1>1. TypeOK
  BY RunAssumption DEF Init, TypeOK
<1>2. WorkOwned /\ WorkDistinct /\ OpListed /\ LeavesFirst
  BY DEF Init, WorkOwned, WorkDistinct, OpListed, LeavesFirst
<1>3. NotBegun /\ RunOnce
  BY DEF Init, NotBegun, RunOnce
<1> QED BY <1>1, <1>2, <1>3 DEF Inv

LEMMA Inductive ==
  ASSUME Inv, [Next]_vars
  PROVE  Inv'
<1>0. RunsOK' /\ RowsKept
  BY RowStep
<1>1. /\ mail' \in [Runs -> SUBSET (Ended \cup {"TakenOver"})]
      /\ faults' \in 0..MaxFaults
  BY MailStep
<1> DEFINE WorkFacts == /\ work' \in [Workers -> Job \cup {None}]
                        /\ started' \in [Runs -> Nat]
                        /\ WorkOwned' /\ WorkDistinct' /\ NotBegun' /\ RunOnce'
           OpFacts == /\ op' \in [Clients -> Op \cup {None}]
                      /\ OpListed' /\ LeavesFirst'
<1>2. ASSUME UNCHANGED <<work, started>> PROVE WorkFacts
  <2>1. \A r \in Runs : Status(r) \in {"Running"} \cup Ended => Status(r)' \in {"Running"} \cup Ended
    <3>1. \A r \in Runs : Status(r)' \in {"Absent", "Queued", "Running"} \cup Ended
      BY <1>0 DEF RunsOK, Status, Record, Exists
    <3> QED BY <1>0, <3>1 DEF RowsKept
  <2>2. WorkOwned'
    <3> SUFFICES ASSUME NEW w \in Workers, NEW r \in Runs, work[w] # None, work[w].run = r
                 PROVE  /\ Status(r)' \in {"Running"} \cup Ended
                        /\ work[w].at \in {"check", "write", "tell"} => work[w].out \in Ended
                        /\ work[w].at = "start" => started[r] = 0
      BY <1>2, InHand DEF WorkOwned, Inv
    <3> QED BY <2>1 DEF WorkOwned, Inv
  <2>3. NotBegun'
    BY <1>0, <1>2 DEF NotBegun, RowsKept, Inv
  <2>4. WorkDistinct' /\ RunOnce'
    BY <1>2 DEF WorkDistinct, RunOnce, Inv
  <2> QED BY <1>2, <2>2, <2>3, <2>4 DEF Inv, TypeOK
<1>3. ASSUME op' \in [Clients -> Op \cup {None}],
             \A c \in Clients : op'[c] = None \/ op'[c] = op[c]
      PROVE  OpFacts
  BY <1>0, <1>3, OpAfter
<1>4. CASE Spawn
  <2>1. UNCHANGED <<work, op, started>>
    BY <1>4 DEF Spawn
  <2> QED BY <1>0, <1>1, <1>2, <1>3, <2>1 DEF Inv, TypeOK, RunsOK
<1>5. CASE \E w \in Workers : Work(w) \/ CheckError(w) \/ WorkError(w) \/ Crash(w)
  <2>1. PICK w \in Workers : Work(w) \/ CheckError(w) \/ WorkError(w) \/ Crash(w)
    BY <1>5
  <2>2. PICK j \in Job \cup {None} : Moved(w, j) /\ Begun(w)
    BY <2>1, WorkerStep
  <2>3. WorkFacts
    BY <1>0, <2>2, WorkAfter
  <2>4. /\ op' \in [Clients -> Op \cup {None}]
        /\ \A c \in Clients : op'[c] = None \/ op'[c] = op[c]
    <3>1. CASE Crash(w)
      BY <3>1 DEF Crash, Inv, TypeOK
    <3>2. CASE UNCHANGED op
      BY <3>2 DEF Inv, TypeOK
    <3> QED BY <2>1, <3>1, <3>2
            DEF Work, Claim, Start, Return, Check, CheckError, Store, Tell, WorkError
  <2> QED BY <1>0, <1>1, <1>3, <2>3, <2>4 DEF Inv, TypeOK, RunsOK
<1>6. CASE \E c \in Clients : Ask(c) \/ Serve(c) \/ OpError(c)
  <2>1. PICK c \in Clients : Ask(c) \/ Serve(c) \/ OpError(c)
    BY <1>6
  <2>2. PICK p \in Op \cup {None} :
          op' = [op EXCEPT ![c] = p] /\ (p # None => OpMoved(op[c], p))
    BY <2>1, ClientStep
  <2>3. op \in [Clients -> Op \cup {None}]
    BY DEF Inv, TypeOK
  <2>4. /\ op' \in [Clients -> Op \cup {None}] /\ op'[c] = p
        /\ \A d \in Clients : d # c => op'[d] = op[d]
    BY <2>2, <2>3
  <2>5. OpFacts
    BY <1>0, <2>2, <2>4, OpAfter
  <2>6. UNCHANGED <<work, started>>
    BY <2>1 DEF Ask, Serve, CancelRead, CancelWrite, CancelTell, Requeue, Inform, OpError
  <2> QED BY <1>0, <1>1, <1>2, <2>5, <2>6 DEF Inv, TypeOK, RunsOK
<1>7. CASE UNCHANGED vars
  <2>1. UNCHANGED <<work, op, started>>
    BY <1>7 DEF vars
  <2> QED BY <1>0, <1>1, <1>2, <1>3, <2>1 DEF Inv, TypeOK, RunsOK
<1> QED BY <1>4, <1>5, <1>6, <1>7 DEF Next

LEMMA Invariant == Spec => []Inv
<1>1. Init => Inv
  BY Initially
<1>2. Inv /\ [Next]_vars => Inv'
  BY Inductive
<1> QED BY <1>1, <1>2, PTL DEF Spec

-----------------------------------------------------------------------------
(* Theorems.                                                                *)

(* Rows, operations and messages have their types whoever cancels, retries  *)
(* and takes over; no step reads a run that has no row.                     *)
THEOREM TypeCorrect == Spec => []TypeOK
BY Invariant, PTL DEF Inv

(* However many nodes poll the queue and however they fail, the handler of a*)
(* run is started once at most: the claim tests Queued when it writes, and  *)
(* no write that works on an old copy sets a run back to Queued.            *)
THEOREM StartedOnce == Spec => []RunOnce
BY Invariant, PTL DEF Inv

(* Nobody brings a run back that has ended, although the worker and the     *)
(* cancellations write whole rows they read earlier.                        *)
THEOREM EndIsFinal == Spec => NeverRevived
<1>1. Inv /\ [Next]_vars => (\A r \in Runs : IsEnded(r) => IsEnded(r)')
  BY RowStep DEF RowsKept
<1>2. Inv /\ [Next]_vars => [\A r \in Runs : IsEnded(r) => IsEnded(r)']_vars
  BY <1>1
<1> QED BY <1>2, Invariant, PTL DEF Spec, NeverRevived

(* A cancellation never leaves a listed descendant alive under a run it has *)
(* turned to, whatever workers and other cancellations do in between.       *)
THEOREM LeavesBeforeRoot == Spec => []BottomUp
<1>1. Inv => BottomUp
  BY DEF Inv, LeavesFirst, BottomUp
<1> QED BY <1>1, Invariant, PTL

-----------------------------------------------------------------------------
(* What nobody may drop: the run a worker executes and the message that is  *)
(* owed.                                                                    *)

(* At "tell" the outcome is in the row.                                     *)
StoredBeforeTold ==
  \A w \in Workers : work[w] # None /\ work[w].at = "tell" => IsEnded(work[w].run)

DutyInv == Inv /\ StoredBeforeTold /\ RunningInHand /\ EndTold

(* A worker that moves stores the outcome first, tells it then; it lets go  *)
(* of a run at any other place for a fault or because the run has ended.    *)
WorkerDuty(w) ==
  /\ \A v \in Workers : v # w => work'[v] = work[v]
  /\ work[w] # None /\ work'[w] # None => work'[w].run = work[w].run
  /\ work'[w] # None /\ work'[w].at = "tell" => \A r \in Runs : work'[w].run = r => IsEnded(r)'
  /\ work[w] # None /\ work'[w] = None /\ faults' = 0 =>
       \/ work[w].at # "tell" /\ IsEnded(work[w].run)
       \/ work[w].at = "tell" /\ mail'[work[w].run] \cap Ended # {}
  /\ work[w] # None /\ work[w].at = "tell" /\ work'[w] # None => work'[w].at = "tell"

LEMMA WorkerMeets ==
  ASSUME Inv, NEW w \in Workers,
         Work(w) \/ CheckError(w) \/ WorkError(w) \/ Crash(w)
  PROVE  WorkerDuty(w)
<1> USE DEF Inv
<1>0. /\ work \in [Workers -> Job \cup {None}] /\ faults \in Nat
      /\ mail \in [Runs -> SUBSET (Ended \cup {"TakenOver"})] /\ RunsOK
  BY RunAssumption DEF TypeOK, RunsOK
<1>1. ASSUME work[w] # None
      PROVE  /\ work[w] \in Job /\ work[w].run \in Runs /\ Exists(work[w].run)
             /\ work[w].at \in {"check", "write", "tell"} => work[w].out \in Ended
  BY <1>1, InHand DEF WorkOwned
<1>2. CASE Claim(w)
  <2>1. PICK r \in Runs : work' = [work EXCEPT ![w] = [at |-> "start", run |-> r, out |-> None]]
    BY <1>2 DEF Claim
  <2>2. [at |-> "start", run |-> r, out |-> None] \in Job
    BY DEF Job
  <2>3. work'[w] # None /\ work'[w].at = "start" /\ \A v \in Workers : v # w => work'[v] = work[v]
    BY <1>0, <2>1, <2>2, NoneAssumption
  <2> QED BY <1>2, <2>3 DEF Claim, WorkerDuty
<1>3. CASE Start(w) \/ Return(w)
  <2>1. work[w] # None /\ work[w].at \in {"start", "exec"}
    BY <1>3 DEF Start, Return, At
  <2>2. PICK p \in {"exec", "check"}, o \in Ended \cup {None} :
          work' = [work EXCEPT ![w] = [@ EXCEPT !.at = p, !.out = o]]
    <3>1. CASE GoOn(w, "exec")
      <4>1. [work[w] EXCEPT !.at = "exec"] = [work[w] EXCEPT !.at = "exec", !.out = work[w].out]
        BY <1>1, <2>1 DEF Job
      <4>2. work' = [work EXCEPT ![w] = [@ EXCEPT !.at = "exec", !.out = work[w].out]]
        BY <3>1, <4>1 DEF GoOn
      <4>3. work[w].out \in Ended \cup {None}
        BY <1>1, <2>1 DEF Job
      <4> QED BY <4>2, <4>3
    <3>2. CASE work' = [work EXCEPT ![w].at = "check", ![w].out = "TimedOut"]
      BY <3>2
    <3>3. CASE Return(w)
      <4>1. PICK o \in Outcomes : work' = [work EXCEPT ![w].at = "check", ![w].out = o]
        BY <3>3 DEF Return
      <4>2. work' = [work EXCEPT ![w] = [@ EXCEPT !.at = "check", !.out = o]]
        BY <4>1
      <4> QED BY <4>2, RunAssumption
    <3> QED BY <1>3, <3>1, <3>2, <3>3 DEF Start
  <2>3. /\ work'[w] \in Job /\ work'[w].run = work[w].run /\ work'[w].at = p
        /\ \A v \in Workers : v # w => work'[v] = work[v]
    BY <1>0, <1>1, <2>1, <2>2 DEF Job
  <2>4. work'[w] # None
    BY <2>3, NoneAssumption
  <2> QED BY <2>1, <2>3, <2>4 DEF WorkerDuty
<1>4. CASE Check(w) \/ CheckError(w)
  <2>1. work[w] # None /\ work[w].at = "check"
    BY <1>4 DEF Check, CheckError, At
  <2>2. CASE GoOn(w, "write")
    <3>1. /\ work'[w] \in Job /\ work'[w].run = work[w].run /\ work'[w].at = "write"
          /\ \A v \in Workers : v # w => work'[v] = work[v]
      BY <1>0, <1>1, <2>1, <2>2 DEF GoOn, Job
    <3>2. work'[w] # None
      BY <3>1, NoneAssumption
    <3> QED BY <2>1, <3>1, <3>2 DEF WorkerDuty
  <2>3. CASE Check(w) /\ Status(work[w].run) = "Cancelled" /\ work' = [work EXCEPT ![w] = None]
    BY <1>0, <2>1, <2>3 DEF WorkerDuty, IsEnded
  <2> QED BY <1>4, <2>2, <2>3 DEF Check, CheckError
<1>5. CASE Store(w)
  <2>1. work[w] # None /\ work[w].at = "write" /\ SetStatus(work[w].run, work[w].out) /\ GoOn(w, "tell")
    BY <1>5 DEF Store, At
  <2>2. PICK r \in Runs : r = work[w].run /\ Exists(r)
    BY <1>1, <2>1
  <2>3. IsEnded(r)'
    BY <1>0, <1>1, <2>1, <2>2, StatusWritten DEF IsEnded
  <2>4. work'[w].run = r /\ work'[w] \in Job /\ \A v \in Workers : v # w => work'[v] = work[v]
    BY <1>0, <1>1, <2>1, <2>2 DEF GoOn, Job
  <2>5. work'[w] # None
    BY <2>4, NoneAssumption
  <2> QED BY <2>1, <2>2, <2>3, <2>4, <2>5 DEF WorkerDuty
<1>6. CASE Tell(w)
  <2>1. /\ work[w] # None /\ work[w].at = "tell" /\ work' = [work EXCEPT ![w] = None]
        /\ mail' = [mail EXCEPT ![work[w].run] = @ \cup {work[w].out}]
    BY <1>6 DEF Tell, At, Told
  <2>2. work[w].out \in mail'[work[w].run] \cap Ended
    BY <1>0, <1>1, <2>1
  <2> QED BY <1>0, <2>1, <2>2 DEF WorkerDuty
<1>7. CASE WorkError(w) \/ Crash(w)
  BY <1>0, <1>7 DEF WorkError, Crash, Fault, WorkerDuty
<1> QED BY <1>2, <1>3, <1>4, <1>5, <1>6, <1>7 DEF Work


(* A cancellation that moves from "tell" has told the end of its run.       *)
ClientDuty(c) ==
  /\ \A d \in Clients : d # c => op'[d] = op[d]
  /\ OpAt(c, "tell") /\ faults' = 0 => mail'[op[c].now] \cap Ended # {}

LEMMA ClientMeets ==
  ASSUME Inv, NEW c \in Clients, Ask(c) \/ Serve(c) \/ OpError(c)
  PROVE  ClientDuty(c)
<1> USE DEF Inv
<1>0. /\ op \in [Clients -> Op \cup {None}] /\ faults \in Nat
      /\ mail \in [Runs -> SUBSET (Ended \cup {"TakenOver"})]
  BY RunAssumption DEF TypeOK
<1>1. \A d \in Clients : d # c => op'[d] = op[d]
  BY <1>0, ClientStep
<1>2. ASSUME OpAt(c, "tell"), faults' = 0
      PROVE  mail'[op[c].now] \cap Ended # {}
  <2>1. CASE CancelTell(c)
    BY <1>0, <1>2, <2>1, InOp DEF CancelTell, Told, OpAt
  <2>2. CASE OpError(c)
    BY <1>0, <1>2, <2>2 DEF OpError, Fault
  <2> QED BY <1>2, <2>1, <2>2
          DEF OpAt, Ask, Serve, CancelRead, CancelWrite, Requeue, Inform
<1> QED BY <1>1, <1>2 DEF ClientDuty

(* What is told stays told, and faults stay.                                *)
LEMMA ToldKept ==
  ASSUME Inv, [Next]_vars
  PROVE  /\ \A r \in Runs : mail[r] \subseteq mail'[r]
         /\ faults' = 0 => faults = 0
<1> USE DEF Inv
<1>0. /\ faults \in Nat /\ mail \in [Runs -> SUBSET (Ended \cup {"TakenOver"})]
  BY RunAssumption DEF TypeOK
<1>1. faults' = faults \/ Fault
  BY DEF Next, Spawn, Work, Claim, Start, Return, Check, CheckError, Store, Tell, WorkError,
         Crash, Serve, Ask, CancelRead, CancelWrite, CancelTell, Requeue, Inform, OpError, vars
<1>2. \/ UNCHANGED mail
      \/ \E w \in Workers : work[w] # None /\ Told(work[w].run, work[w].out)
      \/ \E c \in Clients : OpAt(c, "tell") /\ Told(op[c].now, "Cancelled")
      \/ \E c \in Clients : op[c] # None /\ Told(op[c].root, "TakenOver")
  BY DEF Next, Spawn, Work, Claim, Start, Return, Check, CheckError, Store, Tell, WorkError,
         Crash, Serve, Ask, CancelRead, CancelWrite, CancelTell, Requeue, Inform, OpError, vars,
         OpAt, At
<1> QED BY <1>0, <1>1, <1>2 DEF Told, Fault

(* Who starts a run has it in hand, who ends one is to tell it.             *)
LEMMA RowMoves ==
  ASSUME Inv, [Next]_vars, NEW r \in Runs
  PROVE  /\ Status(r)' = "Running" =>
              Status(r) = "Running" \/ \E w \in Workers :
                work'[w] # None /\ work'[w].run = r /\ work'[w].at = "start"
         /\ IsEnded(r)' =>
              \/ IsEnded(r)
              \/ \E w \in Workers : At(w, "tell")' /\ work'[w].run = r
              \/ \E c \in Clients : OpAt(c, "tell")' /\ op'[c].now = r
<1> USE DEF Inv
<1>0. /\ RunsOK /\ work \in [Workers -> Job \cup {None}] /\ op \in [Clients -> Op \cup {None}]
  BY DEF TypeOK, RunsOK
<1>1. CASE UNCHANGED run
  BY <1>1 DEF Status, IsEnded, Exists
<1>2. CASE Spawn
  <2>1. PICK s \in {Chat} \cup {work[w].run : w \in {v \in Workers : At(v, "exec")}} :
          \E p \in {None} \cup {q \in Runs : Exists(q)} : Insert(p, s)
    BY <1>2 DEF Spawn
  <2>2. s \in Sessions
    BY <2>1, InHand DEF At
  <2> QED BY <1>0, <2>1, <2>2, RowInserted DEF IsEnded
<1>3. CASE \E c \in Clients : Requeue(c)
  <2>1. PICK c \in Clients : Requeue(c)
    BY <1>3
  <2>2. Insert(run[op[c].root].parent, run[op[c].root].session) /\ op[c] # None
    BY <2>1 DEF Requeue, OpAt
  <2>3. run[op[c].root] \in Record
    BY <1>0, <2>2, InOp, RowShape
  <2>4. run[op[c].root].parent \in Runs \cup {None} /\ run[op[c].root].session \in Sessions
    BY <2>3 DEF Record
  <2> QED BY <1>0, <2>2, <2>4, RowInserted DEF IsEnded
<1>4. CASE \E w \in Workers : Claim(w)
  <2>1. PICK w \in Workers : Claim(w)
    BY <1>4
  <2>2. PICK q \in Runs :
          /\ Status(q) = "Queued" /\ SetStatus(q, "Running")
          /\ work' = [work EXCEPT ![w] = [at |-> "start", run |-> q, out |-> None]]
    BY <2>1 DEF Claim
  <2>3. [at |-> "start", run |-> q, out |-> None] \in Job
    BY DEF Job
  <2>4. work'[w] # None /\ work'[w].run = q /\ work'[w].at = "start"
    BY <1>0, <2>2, <2>3, NoneAssumption
  <2>5. \A p \in Runs : Status(p)' = IF p = q THEN "Running" ELSE Status(p)
    BY <1>0, <2>2, StatusWritten DEF Status
  <2> QED BY <2>4, <2>5 DEF IsEnded
<1>5. CASE \E w \in Workers : Store(w)
  <2>1. PICK w \in Workers : Store(w)
    BY <1>5
  <2>2. /\ work[w] # None /\ work[w].at = "write" /\ SetStatus(work[w].run, work[w].out)
        /\ GoOn(w, "tell")
    BY <2>1 DEF Store, At
  <2>3. work[w] \in Job /\ work[w].run \in Runs /\ Exists(work[w].run) /\ work[w].out \in Ended
    BY <2>2, InHand DEF WorkOwned
  <2>4. PICK q \in Runs, o \in Ended : q = work[w].run /\ o = work[w].out /\ Exists(q)
    BY <2>3
  <2>5. work'[w] \in Job /\ work'[w].run = q /\ work'[w].at = "tell"
    BY <1>0, <2>2, <2>3, <2>4 DEF GoOn, Job
  <2>6. At(w, "tell")'
    BY <2>5, NoneAssumption DEF At
  <2>7. \A p \in Runs : Status(p)' = IF p = q THEN o ELSE Status(p)
    BY <1>0, <2>2, <2>4, StatusWritten
  <2> QED BY <2>5, <2>6, <2>7 DEF IsEnded
<1>6. CASE \E c \in Clients : CancelWrite(c)
  <2>1. PICK c \in Clients : CancelWrite(c)
    BY <1>6
  <2>2. /\ op[c] # None /\ op[c].at = "write" /\ SetStatus(op[c].now, "Cancelled")
        /\ op' = [op EXCEPT ![c].at = "tell"]
    BY <2>1 DEF CancelWrite, OpAt
  <2>3. PICK q \in Runs : q = op[c].now /\ Exists(q)
    BY <2>2, InOp
  <2>4. op'[c] \in Op /\ op'[c].now = q /\ op'[c].at = "tell"
    BY <1>0, <2>2, <2>3, InOp DEF Op
  <2>5. OpAt(c, "tell")'
    BY <2>4, NoneAssumption DEF OpAt
  <2>6. \A p \in Runs : Status(p)' = IF p = q THEN "Cancelled" ELSE Status(p)
    BY <1>0, <2>2, <2>3, StatusWritten
  <2> QED BY <2>4, <2>5, <2>6 DEF IsEnded
<1> QED
  BY <1>1, <1>2, <1>3, <1>4, <1>5, <1>6
  DEF Next, Work, Start, Return, Check, CheckError, Tell, WorkError,
      Crash, Serve, Ask, CancelRead, CancelTell, Inform, OpError, vars

(* Whoever moves does its duty; a crash lets clients go, but is a fault.    *)
LEMMA WhoMoves ==
  ASSUME Inv, [Next]_vars
  PROVE  /\ \A w \in Workers : work'[w] = work[w] \/ WorkerDuty(w)
         /\ \A c \in Clients : op'[c] = op[c] \/ ClientDuty(c) \/ faults' # 0
<1>1. CASE \E w \in Workers : Work(w) \/ CheckError(w) \/ WorkError(w) \/ Crash(w)
  <2>1. PICK w \in Workers : Work(w) \/ CheckError(w) \/ WorkError(w) \/ Crash(w)
    BY <1>1
  <2>2. WorkerDuty(w)
    BY <2>1, WorkerMeets
  <2>3. UNCHANGED op \/ faults' # 0
    <3>1. faults \in Nat
      BY RunAssumption DEF Inv, TypeOK
    <3> QED BY <2>1, <3>1 DEF Work, Claim, Start, Return, Check, Store, Tell, CheckError,
                              WorkError, Crash, Fault
  <2> QED BY <2>2, <2>3 DEF WorkerDuty
<1>2. CASE \E c \in Clients : Ask(c) \/ Serve(c) \/ OpError(c)
  <2>1. PICK c \in Clients : Ask(c) \/ Serve(c) \/ OpError(c)
    BY <1>2
  <2>2. ClientDuty(c)
    BY <2>1, ClientMeets
  <2>3. UNCHANGED work
    BY <2>1 DEF Ask, Serve, CancelRead, CancelWrite, CancelTell, Requeue, Inform, OpError
  <2> QED BY <2>2, <2>3 DEF ClientDuty
<1>3. CASE Spawn \/ UNCHANGED vars
  BY <1>3 DEF Spawn, vars
<1> QED BY <1>1, <1>2, <1>3 DEF Next

(* Nobody drops what it has in hand.                                        *)
LEMMA DutyInductive ==
  ASSUME DutyInv, [Next]_vars
  PROVE  DutyInv'
<1> USE DEF DutyInv
<1>1. Inv' /\ RowsKept
  BY Inductive, RowStep
<1>2. /\ \A w \in Workers : work'[w] = work[w] \/ WorkerDuty(w)
      /\ \A c \in Clients : op'[c] = op[c] \/ ClientDuty(c) \/ faults' # 0
  BY WhoMoves
<1>3. /\ \A r \in Runs : mail[r] \subseteq mail'[r]
      /\ faults' = 0 => faults = 0
  BY ToldKept
<1>4. ASSUME NEW w \in Workers, NEW r \in Runs, work'[w] # None, work'[w].at = "tell",
             work'[w].run = r
      PROVE  IsEnded(r)'
  <2>1. CASE work'[w] = work[w]
    BY <1>1, <1>4, <2>1 DEF StoredBeforeTold, RowsKept
  <2>2. CASE WorkerDuty(w)
    BY <1>4, <2>2 DEF WorkerDuty
  <2> QED BY <1>2, <2>1, <2>2
<1>5. StoredBeforeTold'
  <2> SUFFICES ASSUME NEW w \in Workers, work'[w] # None, work'[w].at = "tell",
                      NEW r \in Runs, work'[w].run = r
               PROVE  IsEnded(r)'
    <3>1. \A w \in Workers : work'[w] # None => work'[w].run \in Runs
      BY <1>1, InHand DEF Inv, TypeOK, Job
    <3> QED BY <3>1 DEF StoredBeforeTold
  <2> QED BY <1>4
<1>6. ASSUME faults' = 0, NEW r \in Runs, Status(r)' = "Running"
      PROVE  \E w \in Workers : work'[w] # None /\ work'[w].run = r /\ work'[w].at # "tell"
  <2>1. CASE \E w \in Workers : work'[w] # None /\ work'[w].run = r /\ work'[w].at = "start"
    BY <2>1
  <2>2. CASE Status(r) = "Running"
    <3>1. PICK w \in Workers : work[w] # None /\ work[w].run = r /\ work[w].at # "tell"
      BY <1>3, <1>6, <2>2 DEF RunningInHand
    <3>2. CASE work'[w] = work[w]
      BY <3>1, <3>2
    <3>3. CASE WorkerDuty(w)
      <4>1. ~ IsEnded(r) /\ ~ IsEnded(r)'
        BY <1>6, <2>2 DEF IsEnded
      <4>2. work'[w] # None
        BY <1>6, <3>1, <3>3, <4>1 DEF WorkerDuty
      <4>3. work'[w].run = r
        BY <3>1, <3>3, <4>2 DEF WorkerDuty
      <4> QED BY <3>3, <4>1, <4>2, <4>3 DEF WorkerDuty
    <3> QED BY <1>2, <3>2, <3>3
  <2> QED BY <1>6, <2>1, <2>2, RowMoves
<1>7. ASSUME faults' = 0, NEW r \in Runs, IsEnded(r)'
      PROVE  \/ mail'[r] \cap Ended # {}
             \/ \E w \in Workers : At(w, "tell")' /\ work'[w].run = r
             \/ \E c \in Clients : OpAt(c, "tell")' /\ op'[c].now = r
  <2>1. CASE mail[r] \cap Ended # {}
    BY <1>3, <2>1
  <2>2. ASSUME NEW w \in Workers, At(w, "tell"), work[w].run = r
        PROVE  mail'[r] \cap Ended # {} \/ (At(w, "tell")' /\ work'[w].run = r)
    <3>1. CASE work'[w] = work[w]
      BY <2>2, <3>1 DEF At
    <3>2. CASE WorkerDuty(w) /\ work'[w] = None
      BY <1>7, <2>2, <3>2 DEF WorkerDuty, At
    <3>3. CASE WorkerDuty(w) /\ work'[w] # None
      BY <2>2, <3>3 DEF WorkerDuty, At
    <3> QED BY <1>2, <3>1, <3>2, <3>3
  <2>3. ASSUME NEW c \in Clients, OpAt(c, "tell"), op[c].now = r
        PROVE  mail'[r] \cap Ended # {} \/ (OpAt(c, "tell")' /\ op'[c].now = r)
    <3>1. CASE op'[c] = op[c]
      BY <2>3, <3>1 DEF OpAt
    <3>2. CASE ClientDuty(c)
      BY <1>7, <2>3, <3>2 DEF ClientDuty
    <3> QED BY <1>2, <1>7, <3>1, <3>2
  <2>4. CASE IsEnded(r)
    BY <1>3, <1>7, <2>1, <2>2, <2>3, <2>4 DEF EndTold
  <2> QED BY <1>7, <2>4, RowMoves
<1>8. RunningInHand'
  BY <1>6 DEF RunningInHand
<1>9. EndTold'
  BY <1>7 DEF EndTold
<1> QED BY <1>1, <1>5, <1>8, <1>9

LEMMA DutyInvariant == Spec => []DutyInv
<1>1. Init => DutyInv
  <2>1. ASSUME Init PROVE StoredBeforeTold /\ RunningInHand /\ EndTold
    BY <2>1 DEF Init, StoredBeforeTold, RunningInHand, EndTold, Status, IsEnded, Exists
  <2> QED BY <2>1, Initially DEF DutyInv
<1>2. DutyInv /\ [Next]_vars => DutyInv'
  BY DutyInductive
<1> QED BY <1>1, <1>2, PTL DEF Spec

(* Whatever cancellations do meanwhile, a run that is Running has a worker  *)
(* that will store its end, and no end goes untold, as long as no store     *)
(* call fails and no node dies: worker and cancellation never both leave    *)
(* the run, or its message, to the other.                                   *)
THEOREM NothingIsDropped == Spec => []NothingDropped
BY DutyInvariant, PTL DEF DutyInv, NothingDropped

-----------------------------------------------------------------------------
(* What a cancellation sets out to cancel.                                  *)

(* If all runs below root have its session, none of them is missed: a set   *)
(* closed under the children in that session, cut down to the runs below    *)
(* root, is closed under all children.                                      *)
LEMMA OneSession ==
  ASSUME NEW root \in Runs, Exists(root),
         \A r \in Heirs(root) : run[r].session = run[root].session
  PROVE  Heirs(root) \subseteq Tree(root)
<1> DEFINE all == {r \in Runs : Exists(r)}
           peers == {r \in Runs : Exists(r) /\ run[r].session = run[root].session}
<1> SUFFICES ASSUME NEW r \in Heirs(root), NEW S \in SUBSET Runs, root \in S,
                    \A s \in peers : run[s].parent \in S => s \in S
             PROVE  r \in S
  BY DEF Heirs, Tree, Below
<1> DEFINE H == Heirs(root) \cap S
<1>1. root \in H
  BY DEF Heirs, Below
<1>2. ASSUME NEW s \in all, run[s].parent \in H PROVE s \in H
  <2>1. s \in Heirs(root)
    BY <1>2 DEF Heirs, Below
  <2>2. s \in peers
    BY <2>1
  <2> QED BY <1>2, <2>1, <2>2
<1>3. r \in H
  BY <1>1, <1>2 DEF Heirs, Below
<1> QED BY <1>3

(* A cancellation whose tree is in one session covers every run that        *)
(* descends from its root; a delegation that crosses sessions is the gap    *)
(* that TreeCovered shows.                                                  *)
THEOREM SessionTreeWhole == Spec => SessionTreeCovered
<1> DEFINE Covered(c) ==
      /\ op[c] = None /\ op'[c] # None /\ op'[c].kind = "cancel"
      /\ \A r \in Heirs(op'[c].root) : run[r].session = run[op'[c].root].session
      => Heirs(op'[c].root) \subseteq op'[c].todo
<1>1. ASSUME Inv, [Next]_vars, NEW c \in Clients PROVE Covered(c)
  <2> SUFFICES ASSUME op[c] = None, op'[c] # None, op'[c].kind = "cancel",
                      \A r \in Heirs(op'[c].root) : run[r].session = run[op'[c].root].session
               PROVE  Heirs(op'[c].root) \subseteq op'[c].todo
    OBVIOUS
  <2>0. op \in [Clients -> Op \cup {None}]
    BY <1>1 DEF Inv, TypeOK
  <2>1. Ask(c)
    <3>1. CASE Spawn \/ UNCHANGED vars
      BY <3>1 DEF Spawn, vars
    <3>2. ASSUME NEW w \in Workers, Work(w) \/ CheckError(w) \/ WorkError(w) \/ Crash(w)
          PROVE  op'[c] = None
      BY <3>2 DEF Work, Claim, Start, Return, Check, Store, Tell, CheckError, WorkError, Crash
    <3>3. ASSUME NEW d \in Clients, Ask(d) \/ Serve(d) \/ OpError(d)
          PROVE  Ask(c)
      <4>1. d = c
        BY <1>1, <3>3, ClientMeets DEF ClientDuty
      <4> QED BY <3>3, <4>1 DEF Serve, CancelRead, CancelWrite, CancelTell, Requeue, Inform,
                                OpError, OpAt
    <3> QED BY <1>1, <3>1, <3>2, <3>3 DEF Next
  <2>2. PICK r \in Runs, k \in KindsOf[c] :
          LET tree == IF k = "cancel" \/ (k = "takeover" /\ ~ IsEnded(r)) THEN Tree(r) ELSE {} IN
          /\ Exists(r)
          /\ op' = [op EXCEPT ![c] = [kind |-> k, root |-> r, todo |-> tree, listed |-> tree,
                                      now |-> None, at |-> IF tree = {} THEN "insert" ELSE "read"]]
    BY <2>1 DEF Ask
  <2>3. op'[c].root = r /\ op'[c].todo = Tree(r)
    BY <2>0, <2>2
  <2>4. \A s \in Heirs(r) : run[s].session = run[r].session
    BY <2>3
  <2>5. Heirs(r) \subseteq Tree(r)
    BY <2>2, <2>4, OneSession
  <2> QED BY <2>3, <2>5
<1>2. Inv /\ [Next]_vars => [\A c \in Clients : Covered(c)]_vars
  BY <1>1
<1> QED BY <1>2, Invariant, PTL DEF Spec, SessionTreeCovered
=============================================================================
