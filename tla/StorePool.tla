----------------------------- MODULE StorePool -----------------------------
(***************************************************************************)
(* The connection pool of one runtime store file: connect, its fast path,   *)
(* the race for the right to open another connection, the schema that the   *)
(* first one initialises, the wait on the condition variable and the Drop   *)
(* that gives a connection back.  Some operations connect a second time     *)
(* while they hold a connection (every append that prunes old records).     *)
(***************************************************************************)
EXTENDS Naturals, FiniteSets

CONSTANTS
  Threads,
  Nests,         (* threads whose operation connects again under a connection *)
  Conns,         (* identities of SQLite connections                          *)
  PoolMax,       (* SQLITE_POOL_MAX_SIZE: 8                                   *)
  MaxOpenFaults  (* bound: connections that cannot be opened                  *)

ASSUME PoolAssumption ==
  /\ Nests \subseteq Threads
  /\ IsFiniteSet(Conns) /\ PoolMax \in 1..Cardinality(Conns)
  /\ MaxOpenFaults \in Nat

VARIABLES
  idle,        (* available                                                  *)
  total,       (* the atomic counter total                                   *)
  mine,        (* the StoreConnections of a thread                           *)
  poolPc,      (* where the thread is in connect                             *)
  seen,        (* its current_total                                          *)
  schema,      (* "none", "running", "ready", "broken": see Initialise       *)
  openFaults

poolVars == <<idle, total, mine, poolPc, seen, schema, openFaults>>

PoolPcs == {"out", "pop", "load", "cas", "open", "init", "park", "asleep", "woken", "use"}
Opening == {t \in Threads : poolPc[t] \in {"open", "init"}}
Asleep == {t \in Threads : poolPc[t] = "asleep"}
InHand == UNION {mine[t] : t \in Threads}

PoolTypeOK ==
  /\ idle \subseteq Conns
  /\ total \in Nat
  /\ mine \in [Threads -> SUBSET Conns]
  /\ poolPc \in [Threads -> PoolPcs]
  /\ seen \in [Threads -> Nat]
  /\ schema \in {"none", "running", "ready", "broken"}
  /\ openFaults \in 0..MaxOpenFaults

PoolInit ==
  /\ idle = {}
  /\ total = 0
  /\ mine = [t \in Threads |-> {}]
  /\ poolPc = [t \in Threads |-> "out"]
  /\ seen = [t \in Threads |-> 0]
  /\ schema = "none"
  /\ openFaults = 0

-----------------------------------------------------------------------------
PoolGoto(t, pc) == poolPc' = [poolPc EXCEPT ![t] = pc]

(* An operation of the store begins, or the one that holds a connection     *)
(* calls another one.                                                       *)
Connect(t) ==
  /\ \/ poolPc[t] = "out"
     \/ poolPc[t] = "use" /\ t \in Nests /\ Cardinality(mine[t]) = 1
  /\ PoolGoto(t, "pop")
  /\ UNCHANGED <<idle, total, mine, seen, schema, openFaults>>

(* A pop under the lock: at the head of the loop, and after a wakeup.  What *)
(* follows when there is none is told apart by where the thread was.        *)
Pop(t) ==
  /\ poolPc[t] \in {"pop", "woken"}
  /\ IF idle = {}
     THEN /\ PoolGoto(t, IF poolPc[t] = "pop" THEN "load" ELSE "pop")
          /\ UNCHANGED <<idle, mine>>
     ELSE \E c \in idle :
            /\ idle' = idle \ {c}
            /\ mine' = [mine EXCEPT ![t] = @ \cup {c}]
            /\ PoolGoto(t, "use")
  /\ UNCHANGED <<total, seen, schema, openFaults>>

Load(t) ==
  /\ poolPc[t] = "load"
  /\ seen' = [seen EXCEPT ![t] = total]
  /\ PoolGoto(t, IF total < PoolMax THEN "cas" ELSE "park")
  /\ UNCHANGED <<idle, total, mine, schema, openFaults>>

(* Mutant: the counter is raised without the comparison.                    *)
ReserveBlindly(t) ==
  /\ total' = total + 1
  /\ PoolGoto(t, "open")

(* compare_exchange; a thread that lost it begins again.                    *)
Reserve(t) ==
  IF total = seen[t]
  THEN total' = total + 1 /\ PoolGoto(t, "open")
  ELSE PoolGoto(t, "pop") /\ UNCHANGED total

Cas(t) ==
  /\ poolPc[t] = "cas"
  /\ Reserve(t)
  /\ UNCHANGED <<idle, mine, seen, schema, openFaults>>

(* The new connection, an identity no other one has.                        *)
Opened(t) ==
  /\ \E c \in Conns \ (idle \cup InHand) : mine' = [mine EXCEPT ![t] = @ \cup {c}]
  /\ PoolGoto(t, "use")

(* The reservation is given up; nobody who waits is told.  The operation    *)
(* returns the error, an outer one keeps its connection.                    *)
GiveUp(t) ==
  /\ openFaults < MaxOpenFaults
  /\ openFaults' = openFaults + 1
  /\ total' = total - 1
  /\ PoolGoto(t, IF mine[t] = {} THEN "out" ELSE "use")

(* open_initialized_connection: the path is put in the set of initialised   *)
(* ones before the schema is, so whoever comes second uses its connection   *)
(* at once.                                                                 *)
Open(t) ==
  /\ poolPc[t] = "open"
  /\ \/ GiveUp(t) /\ UNCHANGED <<mine, schema>>
     \/ /\ schema = "none"
        /\ schema' = "running"
        /\ PoolGoto(t, "init")
        /\ UNCHANGED <<total, mine, openFaults>>
     \/ schema # "none" /\ Opened(t) /\ UNCHANGED <<total, schema, openFaults>>
  /\ UNCHANGED <<idle, seen>>

(* init_schema of the first connection.  Its failure is never made good:    *)
(* the path stays in the set.                                               *)
Initialise(t) ==
  /\ poolPc[t] = "init"
  /\ \/ Opened(t) /\ schema' = "ready" /\ UNCHANGED <<total, openFaults>>
     \/ GiveUp(t) /\ schema' = "broken" /\ UNCHANGED mine
  /\ UNCHANGED <<idle, seen>>

(* The lock is taken again and the thread waits, without a look at what was *)
(* given back since it popped.                                              *)
Park(t) ==
  /\ poolPc[t] = "park"
  /\ PoolGoto(t, "asleep")
  /\ UNCHANGED <<idle, total, mine, seen, schema, openFaults>>

(* A condition variable may wake a thread nobody notified.                  *)
SpuriousWakeup(t) ==
  /\ poolPc[t] = "asleep"
  /\ PoolGoto(t, "woken")
  /\ UNCHANGED <<idle, total, mine, seen, schema, openFaults>>

PutBack(t, c) ==
  /\ idle' = idle \cup {c}
  /\ mine' = [mine EXCEPT ![t] = @ \ {c}]

(* Drop of a StoreConnection: push and notify_one under the lock.           *)
GiveBack(t) ==
  /\ poolPc[t] = "use"
  /\ \E c \in mine[t] :
       /\ PutBack(t, c)
       /\ LET after == IF mine[t] = {c} THEN "out" ELSE "use" IN
            IF Asleep = {} THEN PoolGoto(t, after)
            ELSE \E w \in Asleep :
                   poolPc' = [poolPc EXCEPT ![t] = after, ![w] = "woken"]
  /\ UNCHANGED <<total, seen, schema, openFaults>>

PoolCall(t) ==
  Pop(t) \/ Load(t) \/ Cas(t) \/ Open(t) \/ Initialise(t) \/ Park(t) \/ GiveBack(t)

PoolNext == \E t \in Threads : Connect(t) \/ PoolCall(t) \/ SpuriousWakeup(t)

PoolSpec == PoolInit /\ [][PoolNext]_poolVars

-----------------------------------------------------------------------------
(* The counter stands for the connections there are and the reservations to *)
(* open one, and is never above the maximum; a connection is idle or in the *)
(* hands of one thread.  The counter and the list are not changed together, *)
(* opening may fail at two points and threads race for the last place.      *)
PoolAccounted ==
  /\ total = Cardinality(idle) + Cardinality(InHand) + Cardinality(Opening)
  /\ total <= PoolMax
  /\ idle \cap InHand = {}
  /\ \A t, u \in Threads : t # u => mine[t] \cap mine[u] = {}
=============================================================================
