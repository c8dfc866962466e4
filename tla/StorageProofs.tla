---------------------------- MODULE StorageProofs ----------------------------
(****************************************************************************)
(* Proofs about what is stored.                                             *)
(*                                                                          *)
(* StorePool, the connections of the runtime store: for any threads, also   *)
(* infinitely many, any maximum and any number of failures.  The counter    *)
(* can only be right if the number of those who open a connection is:       *)
(* Opening is finite as each of them has been counted.                      *)
(*                                                                          *)
(* SessionStore, the memory of a session: for any processes and writers,    *)
(* any window and any number of messages, restarts and lost leases.  What a *)
(* log replays to is a fold; that the fold of a longer log is the event     *)
(* applied to the fold of the shorter one is proved here, by induction over *)
(* the length of the log, from the library's theorem that the natural       *)
(* numbers are well-founded.                                                *)
(*                                                                          *)
(* WebStorage, the rows and files of the web tools: for any calls, also     *)
(* infinitely many, any files that they write, any maximum of any table and *)
(* any number of setbacks.                                                  *)
(****************************************************************************)
EXTENDS StorePool, SessionStore, WebStorage, FiniteSetTheorems, WellFoundedInduction, TLAPS

(****************************************************************************)
(* The connections of the runtime store.                                    *)
(****************************************************************************)

(* Whoever tries to raise the counter has seen it below the maximum.        *)
RoomSeen == \A t \in Threads : poolPc[t] = "cas" => seen[t] < PoolMax

Inv == PoolTypeOK /\ PoolAccounted /\ IsFiniteSet(Opening) /\ RoomSeen

-----------------------------------------------------------------------------
(* The connections that are idle and those in the threads' hands are among  *)
(* the connections there are.                                               *)
LEMMA Finite ==
  ASSUME PoolTypeOK
  PROVE  /\ idle \subseteq Conns /\ InHand \subseteq Conns
         /\ IsFiniteSet(idle) /\ IsFiniteSet(InHand)
         /\ Cardinality(idle) \in Nat /\ Cardinality(InHand) \in Nat
<1>1. idle \subseteq Conns /\ InHand \subseteq Conns
  BY DEF PoolTypeOK, InHand
<1>2. IsFiniteSet(Conns)
  BY PoolAssumption
<1>3. IsFiniteSet(idle) /\ IsFiniteSet(InHand)
  BY <1>1, <1>2, FS_Subset
<1> QED
  BY <1>1, <1>3, FS_CardinalityType

(* A thread that gets a connection adds it to those in hand.                *)
LEMMA HandGains ==
  ASSUME PoolTypeOK, NEW t \in Threads, NEW c,
         mine' = [mine EXCEPT ![t] = @ \cup {c}]
  PROVE  InHand' = InHand \cup {c}
<1>1. /\ mine'[t] = mine[t] \cup {c}
      /\ \A u \in Threads : u # t => mine'[u] = mine[u]
  BY DEF PoolTypeOK
<1> QED
  BY <1>1 DEF InHand

(* A thread that gives one back takes it out of those in hand, as no other  *)
(* thread has it.                                                           *)
LEMMA HandLoses ==
  ASSUME PoolTypeOK, PoolAccounted, NEW t \in Threads, NEW c \in mine[t],
         mine' = [mine EXCEPT ![t] = @ \ {c}]
  PROVE  InHand' = InHand \ {c}
<1>1. /\ mine'[t] = mine[t] \ {c}
      /\ \A u \in Threads : u # t => mine'[u] = mine[u]
  BY DEF PoolTypeOK
<1>2. \A u \in Threads : u # t => c \notin mine[u]
  BY DEF PoolAccounted
<1> QED
  BY <1>1, <1>2 DEF InHand

(* What a move of one thread makes of the threads that open a connection.   *)
LEMMA OpeningMoves ==
  ASSUME PoolTypeOK, NEW t \in Threads, NEW pc, PoolGoto(t, pc)
  PROVE  Opening' = IF pc \in {"open", "init"} THEN Opening \cup {t} ELSE Opening \ {t}
<1>1. /\ poolPc'[t] = pc
      /\ \A u \in Threads : u # t => poolPc'[u] = poolPc[u]
  BY DEF PoolTypeOK, PoolGoto
<1>2. CASE pc \in {"open", "init"}
  BY <1>1, <1>2 DEF Opening
<1>3. CASE pc \notin {"open", "init"}
  BY <1>1, <1>3 DEF Opening
<1> QED
  BY <1>2, <1>3

(* A step that neither counts nor moves a connection keeps the account.     *)
LEMMA AccountStays ==
  ASSUME Inv, Opening' = Opening, UNCHANGED <<idle, mine, total>>
  PROVE  PoolAccounted' /\ IsFiniteSet(Opening)'
BY DEF Inv, PoolAccounted, InHand

(* A reservation that became a connection: what was counted for the one is  *)
(* counted for the other.                                                   *)
LEMMA AccountMoves ==
  ASSUME Inv, NEW t \in Threads, poolPc[t] \in {"open", "init"},
         Opened(t), UNCHANGED <<idle, total>>
  PROVE  PoolAccounted' /\ IsFiniteSet(Opening)' /\ mine' \in [Threads -> SUBSET Conns]
<1>1. PoolTypeOK /\ PoolAccounted /\ IsFiniteSet(Opening)
  BY DEF Inv
<1>2. PICK c \in Conns \ (idle \cup InHand) : mine' = [mine EXCEPT ![t] = @ \cup {c}]
  BY DEF Opened
<1>3. InHand' = InHand \cup {c} /\ c \notin InHand /\ c \notin idle
  BY <1>1, <1>2, HandGains
<1>4. Opening' = Opening \ {t} /\ t \in Opening
  BY <1>1, OpeningMoves DEF Opened, Opening
<1>5. /\ IsFiniteSet(idle) /\ IsFiniteSet(InHand)
      /\ Cardinality(idle) \in Nat /\ Cardinality(InHand) \in Nat
  BY <1>1, Finite
<1>6. Cardinality(InHand') = Cardinality(InHand) + 1
  BY <1>3, <1>5, FS_AddElement
<1>7. /\ IsFiniteSet(Opening')
      /\ Cardinality(Opening') = Cardinality(Opening) - 1
      /\ Cardinality(Opening) \in Nat
  BY <1>1, <1>4, FS_RemoveElement, FS_CardinalityType
<1>8. total' = Cardinality(idle') + Cardinality(InHand') + Cardinality(Opening')
  BY <1>1, <1>5, <1>6, <1>7 DEF PoolAccounted
<1>9. idle' \cap InHand' = {}
  BY <1>1, <1>3 DEF PoolAccounted
<1>10. \A u, v \in Threads : u # v => mine'[u] \cap mine'[v] = {}
  <2>1. /\ mine'[t] = mine[t] \cup {c}
        /\ \A u \in Threads : u # t => mine'[u] = mine[u]
    BY <1>1, <1>2 DEF PoolTypeOK
  <2>2. \A u \in Threads : c \notin mine[u]
    BY <1>3 DEF InHand
  <2> QED
    BY <1>1, <2>1, <2>2 DEF PoolAccounted
<1>11. mine' \in [Threads -> SUBSET Conns]
  BY <1>1, <1>2 DEF PoolTypeOK
<1> QED
  BY <1>1, <1>7, <1>8, <1>9, <1>10, <1>11 DEF PoolAccounted

(* A reservation that was given up is taken off the counter.                *)
LEMMA AccountFalls ==
  ASSUME Inv, NEW t \in Threads, poolPc[t] \in {"open", "init"},
         GiveUp(t), UNCHANGED <<idle, mine>>
  PROVE  PoolAccounted' /\ IsFiniteSet(Opening)' /\ total' \in Nat
<1>1. PoolTypeOK /\ PoolAccounted /\ IsFiniteSet(Opening)
  BY DEF Inv
<1>2. Opening' = Opening \ {t} /\ t \in Opening
  BY <1>1, OpeningMoves DEF GiveUp, Opening
<1>3. /\ IsFiniteSet(Opening')
      /\ Cardinality(Opening') = Cardinality(Opening) - 1
      /\ Cardinality(Opening') \in Nat /\ Cardinality(Opening) \in Nat
  BY <1>1, <1>2, FS_RemoveElement, FS_CardinalityType
<1>4. Cardinality(idle) \in Nat /\ Cardinality(InHand) \in Nat
  BY <1>1, Finite
<1>5. /\ total' = Cardinality(idle') + Cardinality(InHand') + Cardinality(Opening')
      /\ total' \in Nat /\ total' <= PoolMax
  <2>1. InHand' = InHand
    BY DEF InHand
  <2>2. PoolMax \in Nat
    BY PoolAssumption, FS_CardinalityType
  <2> QED
    BY <1>1, <1>3, <1>4, <2>1, <2>2 DEF PoolAccounted, PoolTypeOK, GiveUp
<1>6. idle' \cap InHand' = {} /\ \A u, v \in Threads : u # v => mine'[u] \cap mine'[v] = {}
  BY <1>1 DEF PoolAccounted, InHand
<1> QED
  BY <1>3, <1>5, <1>6 DEF PoolAccounted

-----------------------------------------------------------------------------
(* The pool starts without connections.                                     *)
LEMMA Starts == PoolInit => Inv
<1> SUFFICES ASSUME PoolInit PROVE Inv
  OBVIOUS
<1>1. PoolTypeOK
  BY PoolAssumption DEF PoolInit, PoolTypeOK, PoolPcs
<1>2. InHand = {} /\ Opening = {} /\ idle = {} /\ total = 0
  BY DEF PoolInit, InHand, Opening
<1>3. IsFiniteSet(Opening) /\ Cardinality({}) = 0
  BY <1>2, FS_EmptySet
<1>4. PoolAccounted
  <2>1. 0 <= PoolMax
    BY PoolAssumption, FS_CardinalityType
  <2> QED
    BY <1>2, <1>3, <2>1 DEF PoolInit, PoolAccounted
<1>5. RoomSeen
  BY DEF PoolInit, RoomSeen
<1> QED
  BY <1>1, <1>3, <1>4, <1>5 DEF Inv

(* Every step keeps the invariant.                                          *)
LEMMA Stays ==
  ASSUME Inv, NEW t \in Threads, Connect(t) \/ PoolCall(t) \/ SpuriousWakeup(t)
  PROVE  Inv'
<1> USE DEF Inv
<1>t. /\ PoolTypeOK /\ PoolAccounted /\ RoomSeen /\ IsFiniteSet(Opening)
      /\ Cardinality(Opening) \in Nat
  BY FS_CardinalityType
<1>m. PoolMax \in Nat
  BY PoolAssumption, FS_CardinalityType
<1>1. CASE Connect(t)
  <2>1. PoolGoto(t, "pop") /\ UNCHANGED <<idle, total, mine, seen, schema, openFaults>>
    BY <1>1 DEF Connect
  <2>2. Opening' = Opening
    BY <1>1, <1>t, <2>1, OpeningMoves DEF Connect, Opening
  <2>3. PoolTypeOK' /\ RoomSeen'
    BY <1>t, <2>1 DEF PoolTypeOK, PoolPcs, PoolGoto, RoomSeen
  <2> QED
    BY <2>1, <2>2, <2>3, AccountStays
<1>2. CASE Pop(t)
  <2>1. UNCHANGED <<total, seen, schema, openFaults>> /\ poolPc[t] \in {"pop", "woken"}
    BY <1>2 DEF Pop
  <2>2. CASE idle = {}
    <3>1. PICK pc \in {"load", "pop"} : PoolGoto(t, pc) /\ UNCHANGED <<idle, mine>>
      BY <1>2, <2>2 DEF Pop
    <3>2. Opening' = Opening
      BY <1>t, <2>1, <3>1, OpeningMoves DEF Opening
    <3>3. PoolTypeOK' /\ RoomSeen'
      BY <1>t, <2>1, <3>1 DEF PoolTypeOK, PoolPcs, PoolGoto, RoomSeen
    <3> QED
      BY <2>1, <3>1, <3>2, <3>3, AccountStays
  <2>3. CASE idle # {}
    <3>1. PICK c \in idle : /\ idle' = idle \ {c}
                            /\ mine' = [mine EXCEPT ![t] = @ \cup {c}]
                            /\ PoolGoto(t, "use")
      BY <1>2, <2>3 DEF Pop
    <3>2. InHand' = InHand \cup {c} /\ c \notin InHand
      BY <1>t, <3>1, HandGains DEF PoolAccounted
    <3>3. Opening' = Opening
      BY <1>t, <2>1, <3>1, OpeningMoves DEF Opening
    <3>4. PoolTypeOK' /\ RoomSeen'
      BY <1>t, <2>1, <3>1 DEF PoolTypeOK, PoolPcs, PoolGoto, RoomSeen
    <3>5. /\ IsFiniteSet(idle) /\ IsFiniteSet(InHand)
          /\ Cardinality(idle) \in Nat /\ Cardinality(InHand) \in Nat
      BY <1>t, Finite
    <3>6. /\ Cardinality(idle') = Cardinality(idle) - 1
          /\ Cardinality(InHand') = Cardinality(InHand) + 1
      BY <3>1, <3>2, <3>5, FS_AddElement, FS_RemoveElement
    <3>7. total' = Cardinality(idle') + Cardinality(InHand') + Cardinality(Opening')
      BY <1>t, <2>1, <3>3, <3>5, <3>6 DEF PoolAccounted
    <3>8. idle' \cap InHand' = {}
      BY <1>t, <3>1, <3>2 DEF PoolAccounted
    <3>9. \A u, v \in Threads : u # v => mine'[u] \cap mine'[v] = {}
      <4>1. /\ mine'[t] = mine[t] \cup {c}
            /\ \A u \in Threads : u # t => mine'[u] = mine[u]
        BY <1>t, <3>1 DEF PoolTypeOK
      <4>2. \A u \in Threads : c \notin mine[u]
        BY <3>2 DEF InHand
      <4> QED
        BY <1>t, <4>1, <4>2 DEF PoolAccounted
    <3> QED
      BY <1>t, <2>1, <3>3, <3>4, <3>7, <3>8, <3>9 DEF PoolAccounted
  <2> QED
    BY <2>2, <2>3
<1>3. CASE Load(t)
  <2>1. PICK pc \in {"cas", "park"} :
          /\ PoolGoto(t, pc) /\ (pc = "cas" => total < PoolMax)
          /\ seen' = [seen EXCEPT ![t] = total] /\ poolPc[t] = "load"
          /\ UNCHANGED <<idle, total, mine, schema, openFaults>>
    BY <1>3 DEF Load
  <2>2. Opening' = Opening
    BY <1>t, <2>1, OpeningMoves DEF Opening
  <2>3. PoolTypeOK' /\ RoomSeen'
    BY <1>t, <2>1 DEF PoolTypeOK, PoolPcs, PoolGoto, RoomSeen
  <2> QED
    BY <2>1, <2>2, <2>3, AccountStays
<1>4. CASE Cas(t)
  <2>1. poolPc[t] = "cas" /\ UNCHANGED <<idle, mine, seen, schema, openFaults>>
    BY <1>4 DEF Cas
  <2>2. CASE total = seen[t]
    <3>1. total' = total + 1 /\ PoolGoto(t, "open")
      BY <1>4, <2>2 DEF Cas, Reserve
    <3>2. Opening' = Opening \cup {t} /\ t \notin Opening
      BY <1>t, <2>1, <3>1, OpeningMoves DEF Opening
    <3>3. IsFiniteSet(Opening') /\ Cardinality(Opening') = Cardinality(Opening) + 1
      BY <1>t, <3>2, FS_AddElement
    <3>4. PoolTypeOK' /\ RoomSeen'
      BY <1>t, <2>1, <3>1 DEF PoolTypeOK, PoolPcs, PoolGoto, RoomSeen
    <3>5. total' <= PoolMax
      BY <1>t, <1>m, <2>1, <2>2, <3>1 DEF RoomSeen, PoolTypeOK
    <3>6. Cardinality(idle) \in Nat /\ Cardinality(InHand) \in Nat /\ InHand' = InHand
      BY <1>t, <2>1, Finite DEF InHand
    <3>7. total' = Cardinality(idle') + Cardinality(InHand') + Cardinality(Opening')
      BY <1>t, <2>1, <3>1, <3>3, <3>6 DEF PoolAccounted
    <3> QED
      BY <1>t, <2>1, <3>3, <3>4, <3>5, <3>6, <3>7 DEF PoolAccounted
  <2>3. CASE total # seen[t]
    <3>1. PoolGoto(t, "pop") /\ UNCHANGED total
      BY <1>4, <2>3 DEF Cas, Reserve
    <3>2. Opening' = Opening
      BY <1>t, <2>1, <3>1, OpeningMoves DEF Opening
    <3>3. PoolTypeOK' /\ RoomSeen'
      BY <1>t, <2>1, <3>1 DEF PoolTypeOK, PoolPcs, PoolGoto, RoomSeen
    <3> QED
      BY <2>1, <3>1, <3>2, <3>3, AccountStays
  <2> QED
    BY <2>2, <2>3
<1>5. CASE Open(t)
  <2>1. poolPc[t] = "open" /\ UNCHANGED <<idle, seen>>
    BY <1>5 DEF Open
  <2>2. CASE GiveUp(t) /\ UNCHANGED <<mine, schema>>
    <3>1. PoolAccounted' /\ IsFiniteSet(Opening)' /\ total' \in Nat
      BY <2>1, <2>2, AccountFalls
    <3>2. PoolTypeOK' /\ RoomSeen'
      BY <1>t, <2>1, <2>2, <3>1, PoolAssumption
      DEF PoolTypeOK, PoolPcs, PoolGoto, RoomSeen, GiveUp
    <3> QED
      BY <3>1, <3>2
  <2>3. CASE schema' = "running" /\ PoolGoto(t, "init") /\ UNCHANGED <<total, mine, openFaults>>
    <3>1. Opening' = Opening
      BY <1>t, <2>1, <2>3, OpeningMoves DEF Opening
    <3>2. PoolTypeOK' /\ RoomSeen'
      BY <1>t, <2>1, <2>3 DEF PoolTypeOK, PoolPcs, PoolGoto, RoomSeen
    <3> QED
      BY <2>1, <2>3, <3>1, <3>2, AccountStays
  <2>4. CASE Opened(t) /\ UNCHANGED <<total, schema, openFaults>>
    <3>1. PoolAccounted' /\ IsFiniteSet(Opening)' /\ mine' \in [Threads -> SUBSET Conns]
      BY <2>1, <2>4, AccountMoves
    <3>2. PoolTypeOK' /\ RoomSeen'
      BY <1>t, <2>1, <2>4, <3>1 DEF PoolTypeOK, PoolPcs, PoolGoto, RoomSeen, Opened
    <3> QED
      BY <3>1, <3>2
  <2> QED
    BY <1>5, <2>2, <2>3, <2>4 DEF Open
<1>6. CASE Initialise(t)
  <2>1. poolPc[t] = "init" /\ UNCHANGED <<idle, seen>>
    BY <1>6 DEF Initialise
  <2>2. CASE Opened(t) /\ schema' = "ready" /\ UNCHANGED <<total, openFaults>>
    <3>1. PoolAccounted' /\ IsFiniteSet(Opening)' /\ mine' \in [Threads -> SUBSET Conns]
      BY <2>1, <2>2, AccountMoves
    <3>2. PoolTypeOK' /\ RoomSeen'
      BY <1>t, <2>1, <2>2, <3>1 DEF PoolTypeOK, PoolPcs, PoolGoto, RoomSeen, Opened
    <3> QED
      BY <3>1, <3>2
  <2>3. CASE GiveUp(t) /\ schema' = "broken" /\ UNCHANGED mine
    <3>1. PoolAccounted' /\ IsFiniteSet(Opening)' /\ total' \in Nat
      BY <2>1, <2>3, AccountFalls
    <3>2. PoolTypeOK' /\ RoomSeen'
      BY <1>t, <2>1, <2>3, <3>1, PoolAssumption
      DEF PoolTypeOK, PoolPcs, PoolGoto, RoomSeen, GiveUp
    <3> QED
      BY <3>1, <3>2
  <2> QED
    BY <1>6, <2>2, <2>3 DEF Initialise
<1>7. CASE Park(t)
  <2>1. /\ poolPc[t] = "park" /\ PoolGoto(t, "asleep")
        /\ UNCHANGED <<idle, total, mine, seen, schema, openFaults>>
    BY <1>7 DEF Park
  <2>2. Opening' = Opening
    BY <1>t, <2>1, OpeningMoves DEF Opening
  <2>3. PoolTypeOK' /\ RoomSeen'
    BY <1>t, <2>1 DEF PoolTypeOK, PoolPcs, PoolGoto, RoomSeen
  <2> QED
    BY <2>1, <2>2, <2>3, AccountStays
<1>8. CASE GiveBack(t)
  <2>1. poolPc[t] = "use" /\ UNCHANGED <<total, seen, schema, openFaults>>
    BY <1>8 DEF GiveBack
  <2>2. PICK c \in mine[t] :
          /\ PutBack(t, c)
          /\ \E after \in {"out", "use"} :
               \/ poolPc' = [poolPc EXCEPT ![t] = after]
               \/ \E w \in Asleep : poolPc' = [poolPc EXCEPT ![t] = after, ![w] = "woken"]
    BY <1>8 DEF GiveBack, PoolGoto
  <2>3. Opening' = Opening /\ poolPc' \in [Threads -> PoolPcs] /\ RoomSeen'
    BY <1>t, <2>1, <2>2 DEF Opening, Asleep, PoolTypeOK, PoolPcs, RoomSeen
  <2>4. InHand' = InHand \ {c} /\ c \in InHand /\ idle' = idle \cup {c} /\ c \notin idle
    BY <1>t, <2>2, HandLoses DEF PutBack, InHand, PoolAccounted
  <2>5. /\ IsFiniteSet(idle) /\ IsFiniteSet(InHand)
        /\ Cardinality(idle) \in Nat /\ Cardinality(InHand) \in Nat
    BY <1>t, Finite
  <2>6. /\ Cardinality(idle') = Cardinality(idle) + 1
        /\ Cardinality(InHand') = Cardinality(InHand) - 1
    BY <2>4, <2>5, FS_AddElement, FS_RemoveElement
  <2>7. total' = Cardinality(idle') + Cardinality(InHand') + Cardinality(Opening')
    BY <1>t, <2>1, <2>3, <2>5, <2>6 DEF PoolAccounted
  <2>8. idle' \cap InHand' = {}
    BY <1>t, <2>4 DEF PoolAccounted
  <2>9. /\ \A u \in Threads : mine'[u] \subseteq mine[u]
        /\ mine' \in [Threads -> SUBSET Conns] /\ idle' \subseteq Conns
    BY <1>t, <2>2 DEF PutBack, PoolTypeOK
  <2>10. PoolTypeOK'
    BY <1>t, <2>1, <2>3, <2>9 DEF PoolTypeOK
  <2>11. \A u, v \in Threads : u # v => mine'[u] \cap mine'[v] = {}
    BY <1>t, <2>9 DEF PoolAccounted
  <2> QED
    BY <1>t, <2>1, <2>3, <2>7, <2>8, <2>10, <2>11 DEF PoolAccounted
<1>9. CASE SpuriousWakeup(t)
  <2>1. /\ poolPc[t] = "asleep" /\ PoolGoto(t, "woken")
        /\ UNCHANGED <<idle, total, mine, seen, schema, openFaults>>
    BY <1>9 DEF SpuriousWakeup
  <2>2. Opening' = Opening
    BY <1>t, <2>1, OpeningMoves DEF Opening
  <2>3. PoolTypeOK' /\ RoomSeen'
    BY <1>t, <2>1 DEF PoolTypeOK, PoolPcs, PoolGoto, RoomSeen
  <2> QED
    BY <2>1, <2>2, <2>3, AccountStays
<1> QED
  BY <1>1, <1>2, <1>3, <1>4, <1>5, <1>6, <1>7, <1>8, <1>9 DEF PoolCall

(* The invariant holds in every reachable state.                            *)
LEMMA Invariant == PoolSpec => []Inv
<1>1. Inv /\ [PoolNext]_poolVars => Inv'
  <2> SUFFICES ASSUME Inv, [PoolNext]_poolVars PROVE Inv'
    OBVIOUS
  <2>1. CASE PoolNext
    BY <2>1, Stays DEF PoolNext
  <2>2. CASE UNCHANGED poolVars
    BY <2>2 DEF poolVars, Inv, PoolTypeOK, PoolAccounted, Opening, InHand, RoomSeen
  <2> QED
    BY <2>1, <2>2
<1> QED
  BY <1>1, Starts, PTL DEF PoolSpec

-----------------------------------------------------------------------------
(* The variables of the pool have their types: in particular the counter is *)
(* never taken below zero, though it is lowered without a comparison.       *)
THEOREM PoolTypes == PoolSpec => []PoolTypeOK
<1>1. Inv => PoolTypeOK
  BY DEF Inv
<1> QED
  BY <1>1, Invariant, PTL

(* The counter is the number of connections and of reservations to open     *)
(* one, never above the maximum, and no connection has two owners, although *)
(* connect loads, compares and opens in separate steps and Drop gives back  *)
(* under another lock.                                                      *)
THEOREM PoolCounted == PoolSpec => []PoolAccounted
<1>1. Inv => PoolAccounted
  BY DEF Inv
<1> QED
  BY <1>1, Invariant, PTL

(****************************************************************************)
(* Natural numbers and sequences.                                           *)
(****************************************************************************)

(* Every set of natural numbers has a least element.                        *)
LEMMA Least ==
  ASSUME NEW T \in SUBSET Nat, T # {}
  PROVE  \E n \in T : \A m \in T : n <= m
<1> DEFINE R == {ss \in Nat \X Nat : ss[1] < ss[2]}
<1>1. IsWellFoundedOn(R, Nat)
  BY NatLessThanWellFounded DEF OpToRel
<1> HIDE DEF R
<1>2. PICK n \in T : \A m \in T : ~ (<<m, n>> \in R)
  BY <1>1, WFMin
<1>3. \A m \in T : ~ (m < n)
  BY <1>2 DEF R
<1> QED
  BY <1>3

(* Induction over the natural numbers, for a set.                           *)
LEMMA Induction ==
  ASSUME NEW T \in SUBSET Nat, 0 \in T, \A n \in T : n + 1 \in T
  PROVE  T = Nat
<1> SUFFICES ASSUME Nat \ T # {} PROVE FALSE
  OBVIOUS
<1>1. PICK n \in Nat \ T : \A m \in Nat \ T : n <= m
  BY Least
<1>2. n # 0 /\ n - 1 \in Nat
  BY <1>1
<1>3. n - 1 \in T
  BY <1>1, <1>2
<1>4. (n - 1) + 1 \in T
  BY <1>3
<1> QED
  BY <1>1, <1>2, <1>4

(* The largest of some numbers is one of them.                              *)
LEMMA Largest ==
  ASSUME NEW n \in Nat, NEW s \in SUBSET (1..n), s # {}
  PROVE  Max(s) \in s /\ \A k \in s : k <= Max(s)
<1> DEFINE Above == {m \in Nat : \A k \in s : k <= m}
<1>1. n \in Above
  OBVIOUS
<1>2. PICK m \in Above : \A k \in Above : m <= k
  BY <1>1, Least
<1>3. m \in s
  <2> SUFFICES ASSUME m \notin s PROVE FALSE
    OBVIOUS
  <2>1. PICK k \in s : TRUE
    OBVIOUS
  <2>2. m >= 1 /\ m - 1 \in Nat
    BY <1>2, <2>1
  <2>3. m - 1 \in Above
    BY <1>2, <2>2
  <2> QED
    BY <1>2, <2>2, <2>3
<1>4. \E x \in s : \A y \in s : x >= y
  BY <1>2, <1>3
<1>5. Max(s) \in s /\ \A y \in s : Max(s) >= y
  BY <1>4 DEF Max
<1> QED
  BY <1>5

(* The largest number up to k is k.                                         *)
LEMMA LargestUpTo ==
  ASSUME NEW k \in Nat, k > 0
  PROVE  Max(1..k) = k /\ (1..k) \ {Max(1..k)} = 1..(k - 1)
<1>0. 1..k \in SUBSET (1..k) /\ 1..k # {}
  OBVIOUS
<1>1. Max(1..k) \in 1..k /\ \A j \in 1..k : j <= Max(1..k)
  BY <1>0, Largest
<1>2. Max(1..k) = k
  BY <1>1
<1> QED
  BY <1>2

(* An empty sequence.                                                       *)
LEMMA NoPlaces ==
  ASSUME NEW S, NEW s \in Seq(S)
  PROVE  (s = <<>>) <=> (Len(s) = 0)
<1>1. s = <<>> => Len(s) = 0
  OBVIOUS
<1>2. Len(s) = 0 => s = <<>>
  OBVIOUS
<1> QED
  BY <1>1, <1>2

(****************************************************************************)
(* The memory of a session.                                                 *)
(****************************************************************************)

(* The replay of a log, by the events one after the other.                  *)

(* What the fold computes for the first events of a log.                    *)
Folds(l, g) ==
  g = [s \in SUBSET DOMAIN l |->
         IF s = {} THEN <<>> ELSE ApplyEvent(g[s \ {Max(s)}], l[Max(s)])]

(* A replay is what the fold computes for the whole log.                    *)
LEMMA ReplayFolds ==
  ASSUME NEW l
  PROVE  Replay(l) = (CHOOSE g : Folds(l, g))[DOMAIN l]
<1>1. Replay(l) =
        LET it[s \in SUBSET DOMAIN l] ==
              IF s = {} THEN <<>> ELSE ApplyEvent(it[s \ {Max(s)}], l[Max(s)])
        IN it[DOMAIN l]
  BY DEF Replay, FoldLeft, MapThenFoldSet
<1> QED
  BY <1>1 DEF Folds

(* The fold exists, by induction over the length of the log.                *)
LEMMA FoldExists ==
  ASSUME NEW S, NEW l \in Seq(S)
  PROVE  \E g : Folds(l, g)
<1> DEFINE T == {n \in Nat : \A k \in Seq(S) : Len(k) = n => \E g : Folds(k, g)}
<1>1. 0 \in T
  <2> SUFFICES ASSUME NEW k \in Seq(S), Len(k) = 0 PROVE \E g : Folds(k, g)
    OBVIOUS
  <2> DEFINE g == [s \in SUBSET DOMAIN k |-> <<>>]
  <2>1. DOMAIN k = {}
    OBVIOUS
  <2>2. \A s \in SUBSET DOMAIN k : s = {}
    BY <2>1
  <2>3. Folds(k, g)
    BY <2>2 DEF Folds
  <2> QED
    BY <2>3
<1>2. ASSUME NEW n \in T PROVE n + 1 \in T
  <2> SUFFICES ASSUME NEW k \in Seq(S), Len(k) = n + 1 PROVE \E g : Folds(k, g)
    BY <1>2
  <2> DEFINE front == SubSeq(k, 1, n)
  <2>1. /\ front \in Seq(S) /\ Len(front) = n /\ DOMAIN front = 1..n /\ DOMAIN k = 1..(n + 1)
        /\ \A i \in 1..n : front[i] = k[i]
    BY <1>2
  <2> HIDE DEF front
  <2>2. PICK f : Folds(front, f)
    BY <1>2, <2>1
  <2> DEFINE g == [s \in SUBSET DOMAIN k |->
                     IF s = {} THEN <<>> ELSE ApplyEvent(f[s \ {Max(s)}], k[Max(s)])]
  <2>3. ASSUME NEW s \in SUBSET (1..n) PROVE g[s] = f[s]
    <3>1. s \in SUBSET DOMAIN front /\ s \in SUBSET DOMAIN k
      BY <1>2, <2>1
    <3>2. f[s] = IF s = {} THEN <<>> ELSE ApplyEvent(f[s \ {Max(s)}], front[Max(s)])
      BY <2>2, <3>1 DEF Folds
    <3>3. s # {} => front[Max(s)] = k[Max(s)]
      BY <1>2, <2>1, Largest
    <3> QED
      BY <3>1, <3>2, <3>3
  <2>4. ASSUME NEW s \in SUBSET (1..(n + 1)), s # {}
        PROVE  g[s \ {Max(s)}] = f[s \ {Max(s)}]
    <3>0. n + 1 \in Nat /\ n \in Nat
      BY <1>2
    <3>1. Max(s) \in s /\ \A i \in s : i <= Max(s)
      BY <2>4, <3>0, Largest
    <3>2. s \ {Max(s)} \in SUBSET (1..n)
      <4> SUFFICES ASSUME NEW i \in s, i # Max(s) PROVE i \in 1..n
        OBVIOUS
      <4>1. i \in 1..(n + 1) /\ Max(s) \in 1..(n + 1) /\ i <= Max(s)
        BY <2>4, <3>1
      <4> QED
        BY <3>0, <4>1
    <3> QED
      BY <2>3, <3>2
  <2>5. g = [s \in SUBSET DOMAIN k |->
               IF s = {} THEN <<>> ELSE ApplyEvent(g[s \ {Max(s)}], k[Max(s)])]
    <3>1. \A s \in SUBSET DOMAIN k : s # {} => g[s \ {Max(s)}] = f[s \ {Max(s)}]
      BY <2>1, <2>4
    <3> HIDE DEF g
    <3>2. g = [s \in SUBSET DOMAIN k |->
                 IF s = {} THEN <<>> ELSE ApplyEvent(f[s \ {Max(s)}], k[Max(s)])]
      BY DEF g
    <3> QED
      BY <3>1, <3>2
  <2>6. Folds(k, g)
    BY <2>5 DEF Folds
  <2> QED
    BY <2>6
<1>3. T = Nat
  <2>1. T \in SUBSET Nat
    OBVIOUS
  <2> HIDE DEF T
  <2> QED
    BY <1>1, <1>2, <2>1, Induction
<1>4. Len(l) \in T
  BY <1>3
<1> QED
  BY <1>4

(* A fold over one event more.                                              *)
LEMMA FoldStep ==
  ASSUME NEW S, NEW l \in Seq(S), NEW g, Folds(l, g), NEW k \in 0..Len(l)
  PROVE  g[1..k] = IF k = 0 THEN <<>> ELSE ApplyEvent(g[1..(k - 1)], l[k])
<1>1. DOMAIN l = 1..Len(l) /\ 1..k \in SUBSET DOMAIN l
  OBVIOUS
<1>2. g[1..k] = IF 1..k = {} THEN <<>> ELSE ApplyEvent(g[(1..k) \ {Max(1..k)}], l[Max(1..k)])
  BY <1>1 DEF Folds
<1>3. CASE k = 0
  BY <1>2, <1>3
<1>4. CASE k > 0
  <2>0. k \in Nat /\ k # 0
    BY <1>4
  <2>1. k \in Nat /\ 1..k # {} /\ k # 0
    <3>1. 1 \in 1..k
      BY <1>4, <2>0
    <3> QED
      BY <2>0, <3>1
  <2>2. Max(1..k) = k /\ (1..k) \ {Max(1..k)} = 1..(k - 1)
    BY <1>4, <2>1, LargestUpTo
  <2>3. g[1..k] = ApplyEvent(g[(1..k) \ {Max(1..k)}], l[Max(1..k)])
    BY <1>2, <2>1
  <2> QED
    BY <2>1, <2>2, <2>3
<1> QED
  BY <1>3, <1>4

(* The replay of no event.                                                  *)
LEMMA ReplayEmpty ==
  ASSUME NEW S, NEW l \in Seq(S), Len(l) = 0
  PROVE  Replay(l) = <<>>
<1> DEFINE g == CHOOSE f : Folds(l, f)
<1>1. Folds(l, g)
  BY FoldExists
<1>2. DOMAIN l = 1..0 /\ 0 \in 0..Len(l)
  OBVIOUS
<1> HIDE DEF g
<1>3. \A k \in 0..Len(l) : g[1..k] = IF k = 0 THEN <<>> ELSE ApplyEvent(g[1..(k - 1)], l[k])
  BY <1>1, FoldStep
<1>4. g[1..0] = <<>>
  BY <1>2, <1>3
<1> QED
  BY <1>2, <1>4, ReplayFolds DEF g

(* The replay of a log with one event more.                                 *)
LEMMA ReplayAppend ==
  ASSUME NEW S, NEW l \in Seq(S), NEW e \in S
  PROVE  Replay(Append(l, e)) = ApplyEvent(Replay(l), e)
<1> DEFINE m == Append(l, e)
           f == CHOOSE h : Folds(l, h)
           g == CHOOSE h : Folds(m, h)
<1>1. /\ m \in Seq(S) /\ Len(m) = Len(l) + 1 /\ m[Len(l) + 1] = e
      /\ \A i \in 1..Len(l) : m[i] = l[i]
      /\ DOMAIN l = 1..Len(l) /\ DOMAIN m = 1..Len(m)
  OBVIOUS
<1> HIDE DEF m
<1>2. Folds(l, f) /\ Folds(m, g)
  BY <1>1, FoldExists
<1> HIDE DEF f, g
<1> DEFINE T == {k \in Nat : k <= Len(l) => g[1..k] = f[1..k]}
<1>3. 0 \in T
  BY <1>1, <1>2, FoldStep
<1>4. ASSUME NEW k \in T PROVE k + 1 \in T
  <2> SUFFICES ASSUME k + 1 <= Len(l) PROVE g[1..(k + 1)] = f[1..(k + 1)]
    BY <1>4
  <2>1. k \in Nat /\ g[1..k] = f[1..k]
    BY <1>4
  <2>2. k + 1 \in 0..Len(l) /\ k + 1 \in 0..Len(m) /\ k + 1 # 0 /\ (k + 1) - 1 = k
    BY <1>1, <2>1
  <2>3. m[k + 1] = l[k + 1]
    BY <1>1, <2>1
  <2>4. g[1..(k + 1)] = ApplyEvent(g[1..k], m[k + 1])
    BY <1>1, <1>2, <2>2, FoldStep
  <2>5. f[1..(k + 1)] = ApplyEvent(f[1..k], l[k + 1])
    BY <1>2, <2>2, FoldStep
  <2> QED
    BY <2>1, <2>3, <2>4, <2>5
<1>5. T = Nat
  <2>1. T \in SUBSET Nat
    OBVIOUS
  <2> HIDE DEF T
  <2> QED
    BY <1>3, <1>4, <2>1, Induction
<1>6. Len(l) \in Nat /\ g[1..Len(l)] = f[1..Len(l)]
  BY <1>5
<1>7. g[1..Len(m)] = ApplyEvent(g[1..Len(l)], e)
  <2>1. Len(m) \in 0..Len(m) /\ Len(m) # 0 /\ Len(m) - 1 = Len(l)
    BY <1>1, <1>6
  <2> QED
    BY <1>1, <1>2, <2>1, FoldStep
<1>8. Replay(l) = f[1..Len(l)] /\ Replay(m) = g[1..Len(m)]
  BY <1>1, ReplayFolds DEF f, g
<1> QED
  BY <1>6, <1>7, <1>8 DEF m

-----------------------------------------------------------------------------
(* What the log, a copy and a writer have.                                  *)
Messages == 0..MaxMessages
Mutations ==
  [kind : {"append"}, message : Messages] \cup [kind : {"clear", "setting"}]
  \cup [kind : {"replace"}, count : Nat]
Events == Mutations \cup [kind : {"snapshot"}, history : Seq(Messages)]
States == [history : Seq(Messages), version : Nat, skewed : BOOLEAN]

Loading == {"load", "replay", "loaded"}
Mutating ==
  [at : Loading \cup {"commit", "store"}, use : {"base", "conflict"}, had : {None}, seen : Nat,
   base : States, event : Mutations, tries : Nat, after : {"request", "compaction"}]
Reading ==
  [at : Loading, use : {"history", "boot"}, had : Nat \cup {None}, seen : Nat, base : States]
Compacting == [at : {"triggered", "asking"}, remove : Nat]
Saving == [at : {"save", "boot"}, history : Seq(Messages)]
Works == {Rest} \cup Mutating \cup Reading \cup Compacting \cup Saving

(* What the variables other than the log, the copies and the writers have.  *)
OthersKnown ==
  /\ compaction \in {"none", "running", "succeeded", "failed"}
  /\ inFlight \subseteq Nodes /\ leaseHolder \in Nodes \cup {None}
  /\ unwritten \in 0..MaxUnwritten
  /\ appended \in 0..MaxMessages /\ upkeep \in 0..MaxUpkeep

StoreKnown ==
  /\ log \in Seq(Events)
  /\ copy \in [Nodes -> States \cup {None}]
  /\ work \in [Writers -> Works]
  /\ OthersKnown

(* A history is the end of another one, and as long as the window, or all   *)
(* of it.                                                                   *)
EndOf(h, past) ==
  /\ Len(h) <= Len(past)
  /\ \A i \in 1..Len(h) : h[i] = past[(Len(past) - Len(h)) + i]
Covers(h, past) == EndOf(h, past) /\ (Len(h) >= Window \/ Len(h) >= Len(past))

(* A state is what a log was at the version of the state, or later.         *)
Follows(l, state) ==
  /\ state.version <= Len(l)
  /\ ~ state.skewed =>
       \E read \in state.version..Len(l) : Covers(state.history, Replay(SubSeq(l, 1, read)))

(* So is every copy, and every state a writer has loaded, or is to write or *)
(* to store; and the version that a load has read is one the log had.       *)
HasBase(r) == r.at \in Loading \cup {"commit", "store"}
Fits(l, r) == HasBase(r) => Follows(l, r.base) /\ r.seen <= Len(l)
CopiesFollow == \A n \in Nodes : copy[n] # None => Follows(log, copy[n])
BasesFollow == \A w \in Writers : Fits(log, work[w])

StoreInv == StoreKnown /\ CopiesFollow /\ BasesFollow

-----------------------------------------------------------------------------
(* Ends of histories.                                                       *)

(* Drop leaves the last messages.                                           *)
LEMMA Dropped ==
  ASSUME NEW S, NEW h \in Seq(S), NEW n \in Nat
  PROVE  /\ Drop(h, n) \in Seq(S)
         /\ Len(Drop(h, n)) = IF n < Len(h) THEN Len(h) - n ELSE 0
         /\ \A i \in 1..Len(Drop(h, n)) : Drop(h, n)[i] = h[n + i]
<1>1. CASE n < Len(h)
  <2>1. Drop(h, n) = SubSeq(h, n + 1, Len(h))
    BY <1>1 DEF Drop
  <2>2. /\ SubSeq(h, n + 1, Len(h)) \in Seq(S)
        /\ Len(SubSeq(h, n + 1, Len(h))) = Len(h) - n
        /\ \A i \in 1..(Len(h) - n) : SubSeq(h, n + 1, Len(h))[i] = h[n + i]
    BY <1>1
  <2> QED
    BY <1>1, <2>1, <2>2
<1>2. CASE ~ (n < Len(h))
  <2>1. Drop(h, n) = <<>>
    BY <1>2 DEF Drop
  <2> QED
    BY <1>2, <2>1
<1> QED
  BY <1>1, <1>2

(* What is an end by its positions is a suffix.                             *)
LEMMA EndIsSuffix ==
  ASSUME NEW S, NEW h \in Seq(S), NEW past \in Seq(S), EndOf(h, past)
  PROVE  IsSuffix(h, past)
<1> DEFINE m == Len(h)
           n == Len(past)
           rh == Reverse(h)
           rp == Reverse(past)
<1>1. m \in Nat /\ n \in Nat /\ m <= n
  BY DEF EndOf
<1>2. /\ rh \in Seq(S) /\ Len(rh) = m /\ \A i \in 1..m : rh[i] = h[(m - i) + 1]
      /\ rp \in Seq(S) /\ Len(rp) = n /\ \A i \in 1..n : rp[i] = past[(n - i) + 1]
  BY DEF Reverse
<1> HIDE DEF rh, rp
<1>3. \A i \in 1..m : rh[i] = rp[i]
  <2> SUFFICES ASSUME NEW i \in 1..m PROVE rh[i] = rp[i]
    OBVIOUS
  <2>1. (m - i) + 1 \in 1..m /\ (n - m) + ((m - i) + 1) = (n - i) + 1 /\ i \in 1..n
    BY <1>1
  <2>2. h[(m - i) + 1] = past[(n - m) + ((m - i) + 1)]
    BY <2>1 DEF EndOf
  <2> QED
    BY <1>2, <2>1, <2>2
<1>4. SubSeq(rh, 1, m) = SubSeq(rp, 1, m)
  <2>1. /\ SubSeq(rh, 1, m) \in Seq(S) /\ Len(SubSeq(rh, 1, m)) = m
        /\ \A i \in 1..m : SubSeq(rh, 1, m)[i] = rh[i]
    BY <1>1, <1>2
  <2>2. /\ SubSeq(rp, 1, m) \in Seq(S) /\ Len(SubSeq(rp, 1, m)) = m
        /\ \A i \in 1..m : SubSeq(rp, 1, m)[i] = rp[i]
    BY <1>1, <1>2
  <2> QED
    BY <1>3, <2>1, <2>2
<1> QED
  BY <1>1, <1>2, <1>4 DEF IsSuffix, IsPrefix, rh, rp

(* A history is an end of itself.                                           *)
LEMMA CoversItself ==
  ASSUME NEW S, NEW h \in Seq(S)
  PROVE  Covers(h, h)
BY DEF Covers, EndOf

(* The window takes messages from the front.                                *)
LEMMA TrimCovers ==
  ASSUME NEW S, NEW h \in Seq(S), NEW past \in Seq(S), Covers(h, past)
  PROVE  Trim(h) \in Seq(S) /\ Covers(Trim(h), past)
<1>1. Window \in Nat /\ Len(h) \in Nat /\ Len(past) \in Nat
  BY StoreAssumption
<1>2. CASE Len(h) > Window
  <2> DEFINE d == Len(h) - Window
  <2>1. d \in Nat /\ d <= Len(h) /\ (d < Len(h) => Len(h) - d = Window)
    BY <1>1, <1>2
  <2>2. Trim(h) = Drop(h, d)
    BY <1>2 DEF Trim
  <2>3. d < Len(h)
    BY <1>1, <1>2, StoreAssumption
  <2>4. /\ Trim(h) \in Seq(S) /\ Len(Trim(h)) = Window
        /\ \A i \in 1..Window : Trim(h)[i] = h[d + i]
    BY <2>1, <2>2, <2>3, Dropped
  <2>5. \A i \in 1..Window : Trim(h)[i] = past[(Len(past) - Window) + i]
    <3> SUFFICES ASSUME NEW i \in 1..Window PROVE Trim(h)[i] = past[(Len(past) - Window) + i]
      OBVIOUS
    <3>1. d + i \in 1..Len(h) /\ (Len(past) - Len(h)) + (d + i) = (Len(past) - Window) + i
      BY <1>1, <1>2
    <3>2. h[d + i] = past[(Len(past) - Len(h)) + (d + i)]
      BY <3>1 DEF Covers, EndOf
    <3> QED
      BY <2>4, <3>1, <3>2
  <2>6. Window <= Len(past)
    BY <1>1, <1>2 DEF Covers, EndOf
  <2> QED
    BY <2>4, <2>5, <2>6, <1>1 DEF Covers, EndOf
<1>3. CASE ~ (Len(h) > Window)
  BY <1>3 DEF Trim
<1> QED
  BY <1>2, <1>3

(* One message more on both.                                                *)
LEMMA AppendCovers ==
  ASSUME NEW S, NEW h \in Seq(S), NEW past \in Seq(S), NEW m \in S, Covers(h, past)
  PROVE  /\ Append(h, m) \in Seq(S) /\ Append(past, m) \in Seq(S)
         /\ Covers(Append(h, m), Append(past, m))
<1>1. /\ Append(h, m) \in Seq(S) /\ Len(Append(h, m)) = Len(h) + 1
      /\ Append(h, m)[Len(h) + 1] = m /\ \A i \in 1..Len(h) : Append(h, m)[i] = h[i]
  OBVIOUS
<1>2. /\ Append(past, m) \in Seq(S) /\ Len(Append(past, m)) = Len(past) + 1
      /\ Append(past, m)[Len(past) + 1] = m
      /\ \A i \in 1..Len(past) : Append(past, m)[i] = past[i]
  OBVIOUS
<1>3. Len(h) \in Nat /\ Len(past) \in Nat /\ Window \in Nat
  BY StoreAssumption
<1>4. ASSUME NEW i \in 1..(Len(h) + 1)
      PROVE  Append(h, m)[i] = Append(past, m)[((Len(past) + 1) - (Len(h) + 1)) + i]
  <2>1. CASE i = Len(h) + 1
    BY <1>1, <1>2, <1>3, <2>1
  <2>2. CASE i # Len(h) + 1
    <3>1. i \in 1..Len(h) /\ (Len(past) - Len(h)) + i \in 1..Len(past)
      BY <1>3, <1>4, <2>2 DEF Covers, EndOf
    <3>2. ((Len(past) + 1) - (Len(h) + 1)) + i = (Len(past) - Len(h)) + i
      BY <1>3, <3>1
    <3> QED
      BY <1>1, <1>2, <3>1, <3>2 DEF Covers, EndOf
  <2> QED
    BY <2>1, <2>2
<1>5. Len(h) <= Len(past) /\ (Len(h) >= Window \/ Len(h) >= Len(past))
  BY DEF Covers, EndOf
<1>6. EndOf(Append(h, m), Append(past, m))
  <2>1. Len(Append(h, m)) <= Len(Append(past, m))
    BY <1>1, <1>2, <1>3, <1>5
  <2>2. /\ 1..Len(Append(h, m)) = 1..(Len(h) + 1)
        /\ Len(Append(past, m)) - Len(Append(h, m)) = (Len(past) + 1) - (Len(h) + 1)
    BY <1>1, <1>2
  <2> QED
    BY <1>4, <2>1, <2>2 DEF EndOf
<1>7. Len(Append(h, m)) >= Window \/ Len(Append(h, m)) >= Len(Append(past, m))
  BY <1>1, <1>2, <1>3, <1>5
<1> QED
  BY <1>1, <1>2, <1>6, <1>7 DEF Covers

(* Who covers a history and is as long has all of it.                       *)
LEMMA CoversAll ==
  ASSUME NEW S, NEW h \in Seq(S), NEW past \in Seq(S), Covers(h, past), Len(h) >= Len(past)
  PROVE  h = past
<1>1. Len(h) = Len(past) /\ Len(h) \in Nat
  BY DEF Covers, EndOf
<1>2. \A i \in 1..Len(h) : h[i] = past[i]
  <2> SUFFICES ASSUME NEW i \in 1..Len(h) PROVE h[i] = past[i]
    OBVIOUS
  <2>1. (Len(past) - Len(h)) + i = i
    BY <1>1
  <2> QED
    BY <2>1 DEF Covers, EndOf
<1> QED
  BY <1>1, <1>2

-----------------------------------------------------------------------------
(* What events make of histories.                                           *)

(* An event makes a history of messages.                                    *)
LEMMA ApplyTypes ==
  ASSUME NEW h \in Seq(Messages), NEW e \in Events
  PROVE  ApplyEvent(h, e) \in Seq(Messages)
<1>1. /\ e.kind \in {"append", "clear", "setting", "replace", "snapshot"}
      /\ e.kind = "append" => e.message \in Messages
      /\ e.kind = "replace" => e.count \in Nat
      /\ e.kind = "snapshot" => e.history \in Seq(Messages)
  BY DEF Events, Mutations
<1>2. CASE e.kind = "append"
  <2>1. ApplyEvent(h, e) = Append(h, e.message)
    BY <1>2 DEF ApplyEvent
  <2> QED
    BY <1>1, <1>2, <2>1
<1>3. CASE e.kind = "clear"
  BY <1>3 DEF ApplyEvent
<1>4. CASE e.kind = "setting"
  BY <1>4 DEF ApplyEvent
<1>5. CASE e.kind = "replace"
  <2>1. ApplyEvent(h, e) = <<Summary>> \o Drop(h, e.count)
    BY <1>5 DEF ApplyEvent
  <2>2. Drop(h, e.count) \in Seq(Messages)
    BY <1>1, <1>5, Dropped
  <2>3. Summary \in Messages
    BY StoreAssumption DEF Summary, Messages
  <2>4. <<Summary>> \in Seq(Messages)
    BY <2>3
  <2> QED
    BY <2>1, <2>2, <2>4
<1>6. CASE e.kind = "snapshot"
  BY <1>1, <1>6 DEF ApplyEvent
<1> QED
  BY <1>1, <1>2, <1>3, <1>4, <1>5, <1>6

(* So does a log, by induction over its length.                             *)
LEMMA ReplayTypes ==
  ASSUME NEW l \in Seq(Events)
  PROVE  Replay(l) \in Seq(Messages)
<1> DEFINE T == {n \in Nat : \A k \in Seq(Events) : Len(k) = n => Replay(k) \in Seq(Messages)}
<1>1. 0 \in T
  <2> SUFFICES ASSUME NEW k \in Seq(Events), Len(k) = 0 PROVE Replay(k) \in Seq(Messages)
    OBVIOUS
  <2>2. Replay(k) = <<>>
    BY ReplayEmpty
  <2>3. <<>> \in Seq(Messages)
    OBVIOUS
  <2> QED
    BY <2>2, <2>3
<1>2. ASSUME NEW n \in T PROVE n + 1 \in T
  <2> SUFFICES ASSUME NEW k \in Seq(Events), Len(k) = n + 1 PROVE Replay(k) \in Seq(Messages)
    BY <1>2
  <2>1. n \in Nat /\ Len(k) \in Nat
    BY <1>2
  <2> DEFINE front == SubSeq(k, 1, n)
  <2>2. /\ front \in Seq(Events) /\ Len(front) = n /\ k[n + 1] \in Events
        /\ k = Append(front, k[n + 1])
    BY <2>1
  <2> HIDE DEF front
  <2>3. Replay(front) \in Seq(Messages)
    BY <1>2, <2>2
  <2>4. Replay(Append(front, k[n + 1])) = ApplyEvent(Replay(front), k[n + 1])
    BY <2>2, ReplayAppend
  <2> QED
    BY <2>2, <2>3, <2>4, ApplyTypes
<1>3. T = Nat
  <2>1. T \in SUBSET Nat
    OBVIOUS
  <2> HIDE DEF T
  <2> QED
    BY <1>1, <1>2, <2>1, Induction
<1>4. Len(l) \in T
  BY <1>3
<1> QED
  BY <1>4

(* A mutation makes of a history what it makes of the history it covers.    *)
LEMMA MutationCovers ==
  ASSUME NEW h \in Seq(Messages), NEW past \in Seq(Messages), NEW e \in Mutations,
         Covers(h, past), e.kind = "replace" => Len(h) >= Len(past)
  PROVE  Covers(ApplyEvent(h, e), ApplyEvent(past, e))
<1>1. e.kind \in {"append", "clear", "setting", "replace"} /\ e \in Events
  BY DEF Events, Mutations
<1>2. CASE e.kind = "append"
  <2>1. e.message \in Messages
    BY <1>2 DEF Mutations
  <2>2. ApplyEvent(h, e) = Append(h, e.message) /\ ApplyEvent(past, e) = Append(past, e.message)
    BY <1>2 DEF ApplyEvent
  <2> QED
    BY <2>1, <2>2, AppendCovers
<1>3. CASE e.kind = "clear"
  <2>1. ApplyEvent(h, e) = <<>> /\ ApplyEvent(past, e) = <<>>
    BY <1>3 DEF ApplyEvent
  <2>2. <<>> \in Seq(Messages)
    OBVIOUS
  <2>3. Covers(<<>>, <<>>)
    BY <2>2, CoversItself
  <2> QED
    BY <2>1, <2>3
<1>4. CASE e.kind = "setting"
  BY <1>4 DEF ApplyEvent
<1>5. CASE e.kind = "replace"
  <2>1. h = past
    BY <1>5, CoversAll
  <2> QED
    BY <1>1, <2>1, ApplyTypes, CoversItself
<1> QED
  BY <1>1, <1>2, <1>3, <1>4, <1>5

(* A state follows a longer log as well.                                    *)
LEMMA PastKept ==
  ASSUME NEW l \in Seq(Events), NEW e \in Events, NEW state \in States, Follows(l, state)
  PROVE  Append(l, e) \in Seq(Events) /\ Follows(Append(l, e), state)
<1>1. state.version \in Nat /\ state.version <= Len(l)
  BY DEF States, Follows
<1>2. \A read \in 0..Len(l) : SubSeq(Append(l, e), 1, read) = SubSeq(l, 1, read)
  OBVIOUS
<1>3. Append(l, e) \in Seq(Events) /\ Len(Append(l, e)) = Len(l) + 1
  OBVIOUS
<1>4. ASSUME ~ state.skewed
      PROVE  \E read \in state.version..Len(Append(l, e)) :
               Covers(state.history, Replay(SubSeq(Append(l, e), 1, read)))
  <2>1. PICK read \in state.version..Len(l) : Covers(state.history, Replay(SubSeq(l, 1, read)))
    BY <1>4 DEF Follows
  <2>2. read \in 0..Len(l) /\ read \in state.version..Len(Append(l, e))
    BY <1>1, <1>3, <2>1
  <2> QED
    BY <1>2, <2>1, <2>2
<1> QED
  BY <1>1, <1>3, <1>4 DEF Follows

(* The empty state is what every log was.                                   *)
LEMMA FreshFollows ==
  ASSUME NEW l \in Seq(Events)
  PROVE  Fresh \in States /\ Follows(l, Fresh)
<1>1. Fresh = [history |-> <<>>, version |-> 0, skewed |-> FALSE]
  BY DEF Fresh, State
<1>2. <<>> \in Seq(Messages)
  OBVIOUS
<1>3. Fresh \in States
  BY <1>1, <1>2 DEF States
<1>4. SubSeq(l, 1, 0) \in Seq(Events) /\ Len(SubSeq(l, 1, 0)) = 0
  OBVIOUS
<1>5. Replay(SubSeq(l, 1, 0)) = <<>>
  BY <1>4, ReplayEmpty
<1>6. Covers(<<>>, <<>>)
  BY <1>2, CoversItself
<1>7. 0 \in 0..Len(l)
  OBVIOUS
<1> QED
  BY <1>1, <1>3, <1>5, <1>6, <1>7 DEF Follows

(* What a state is made of.                                                 *)
LEMMA StateTypes ==
  ASSUME NEW h \in Seq(Messages), NEW v \in Nat, NEW b \in BOOLEAN
  PROVE  State(h, v, b) \in States
BY DEF State, States

(* What is loaded is the log by now, under a version that it had before.    *)
LEMMA LoadFollows ==
  ASSUME log \in Seq(Events), NEW v \in Nat, v <= Len(log)
  PROVE  State(Replay(log), v, FALSE) \in States /\ Follows(log, State(Replay(log), v, FALSE))
<1> DEFINE state == State(Replay(log), v, FALSE)
<1>1. Replay(log) \in Seq(Messages)
  BY ReplayTypes
<1>2. state.history = Replay(log) /\ state.version = v
  BY DEF State
<1>3. state \in States
  BY <1>1, StateTypes
<1>4. Covers(Replay(log), Replay(log))
  BY <1>1, CoversItself
<1>5. SubSeq(log, 1, Len(log)) = log /\ Len(log) \in v..Len(log)
  OBVIOUS
<1> HIDE DEF state
<1>6. Follows(log, state)
  BY <1>2, <1>4, <1>5 DEF Follows
<1> QED
  BY <1>3, <1>6 DEF state

(* A mutation of a current state is what the log is with the event.         *)
LEMMA MutatedFollows ==
  ASSUME log \in Seq(Events), NEW base \in States, Follows(log, base), base.version = Len(log),
         NEW e \in Mutations, NEW state,
         state = [Mutated(base, e) EXCEPT !.version = Len(log) + 1]
  PROVE  state \in States /\ Follows(Append(log, e), state)
<1> DEFINE h == base.history
           past == Replay(log)
           new == IF e.kind = "setting" THEN h ELSE Trim(ApplyEvent(h, e))
           skewed == base.skewed \/ (e.kind = "replace" /\ Len(h) < Len(past))
<1>1. e \in Events /\ h \in Seq(Messages) /\ past \in Seq(Messages) /\ base.skewed \in BOOLEAN
  BY ReplayTypes DEF Events, States
<1>2. ApplyEvent(h, e) \in Seq(Messages) /\ ApplyEvent(past, e) \in Seq(Messages)
  BY <1>1, ApplyTypes
<1>3. new \in Seq(Messages)
  <2>1. Covers(ApplyEvent(h, e), ApplyEvent(h, e))
    BY <1>2, CoversItself
  <2>2. Trim(ApplyEvent(h, e)) \in Seq(Messages)
    BY <1>2, <2>1, TrimCovers
  <2> QED
    BY <1>1, <2>2
<1>4. /\ state = [history |-> new, version |-> Len(log) + 1, skewed |-> skewed]
  BY DEF Mutated, State
<1>5. ~ skewed => Covers(new, ApplyEvent(past, e))
  <2> SUFFICES ASSUME ~ skewed PROVE Covers(new, ApplyEvent(past, e))
    OBVIOUS
  <2>1. SubSeq(log, 1, Len(log)) = log
    OBVIOUS
  <2>2. Covers(h, past)
    <3>1. \E read \in Len(log)..Len(log) : Covers(h, Replay(SubSeq(log, 1, read)))
      BY DEF Follows
    <3>2. \A read \in Len(log)..Len(log) : read = Len(log)
      OBVIOUS
    <3> QED
      BY <2>1, <3>1, <3>2
  <2>3. e.kind = "replace" => Len(h) >= Len(past)
    BY <1>1
  <2>4. Covers(ApplyEvent(h, e), ApplyEvent(past, e))
    BY <1>1, <2>2, <2>3, MutationCovers
  <2>5. CASE e.kind = "setting"
    <3>1. ApplyEvent(h, e) = h
      BY <2>5 DEF ApplyEvent
    <3> QED
      BY <2>4, <2>5, <3>1
  <2>6. CASE e.kind # "setting"
    BY <1>2, <2>4, <2>6, TrimCovers
  <2> QED
    BY <2>5, <2>6
<1>6. Replay(Append(log, e)) = ApplyEvent(past, e)
  BY <1>1, ReplayAppend
<1>7. /\ Append(log, e) \in Seq(Events) /\ Len(Append(log, e)) = Len(log) + 1
      /\ SubSeq(Append(log, e), 1, Len(log) + 1) = Append(log, e)
  <2>1. Append(log, e) \in Seq(Events) /\ Len(Append(log, e)) = Len(log) + 1
    BY <1>1
  <2> QED
    BY <2>1
<1> HIDE DEF new, past, skewed, h
<1>8. state.history = new /\ state.version = Len(log) + 1 /\ state.skewed = skewed
  BY <1>4
<1>9. skewed \in BOOLEAN
  BY <1>1 DEF skewed
<1>10. state \in States
  <2>1. Len(log) + 1 \in Nat
    OBVIOUS
  <2>2. State(new, Len(log) + 1, skewed) \in States
    BY <1>3, <1>9, <2>1, StateTypes
  <2> QED
    BY <1>4, <2>2 DEF State
<1>11. state.version <= Len(Append(log, e))
  BY <1>7, <1>8
<1>12. SubSeq(Append(log, e), 1, state.version) = Append(log, e)
  BY <1>7, <1>8
<1>13. ~ state.skewed => Covers(state.history, Replay(SubSeq(Append(log, e), 1, state.version)))
  BY <1>5, <1>6, <1>8, <1>12
<1>14. state.version \in state.version..Len(Append(log, e))
  BY <1>7, <1>8
<1> QED
  BY <1>10, <1>11, <1>13, <1>14 DEF Follows

-----------------------------------------------------------------------------
(* The invariant.                                                           *)

(* A writer goes on and the log stays.                                      *)
LEMMA WorkKept ==
  ASSUME StoreInv, NEW w \in Writers, NEW r \in Works, Goes(w, r), UNCHANGED log,
         Fits(log, r)
  PROVE  work' \in [Writers -> Works] /\ BasesFollow'
<1>1. /\ work' = [work EXCEPT ![w] = r] /\ work \in [Writers -> Works]
  BY DEF Goes, StoreInv, StoreKnown
<1>2. work' \in [Writers -> Works] /\ work'[w] = r /\ \A v \in Writers : v # w => work'[v] = work[v]
  BY <1>1
<1>3. \A v \in Writers : Fits(log, work'[v])
  BY <1>2 DEF StoreInv, BasesFollow
<1> QED
  BY <1>2, <1>3 DEF BasesFollow, Fits, HasBase, Follows, Covers, EndOf

(* A copy changes and the log stays.                                        *)
LEMMA CopyKept ==
  ASSUME StoreInv, NEW n \in Nodes, NEW state \in States \cup {None}, CopyBecomes(n, state),
         UNCHANGED log, state # None => Follows(log, state)
  PROVE  copy' \in [Nodes -> States \cup {None}] /\ CopiesFollow'
<1>1. /\ copy' = [copy EXCEPT ![n] = state] /\ copy \in [Nodes -> States \cup {None}]
  BY DEF CopyBecomes, StoreInv, StoreKnown
<1>2. /\ copy' \in [Nodes -> States \cup {None}]
      /\ copy'[n] = state /\ \A m \in Nodes : m # n => copy'[m] = copy[m]
  BY <1>1
<1>3. \A m \in Nodes : copy'[m] # None => Follows(log, copy'[m])
  BY <1>2 DEF StoreInv, CopiesFollow
<1> QED
  BY <1>2, <1>3 DEF CopiesFollow, Follows, Covers, EndOf

(* An event goes to the log and a writer goes on.                           *)
LEMMA LogKept ==
  ASSUME StoreInv, NEW e \in Events, log' = Append(log, e), UNCHANGED copy,
         NEW w \in Writers, NEW r \in Works, Goes(w, r),
         Fits(log', r)
  PROVE  /\ log' \in Seq(Events) /\ work' \in [Writers -> Works]
         /\ CopiesFollow' /\ BasesFollow'
<1>1. /\ work' = [work EXCEPT ![w] = r] /\ work \in [Writers -> Works]
      /\ log \in Seq(Events) /\ copy \in [Nodes -> States \cup {None}]
  BY DEF Goes, StoreInv, StoreKnown
<1>2. work' \in [Writers -> Works] /\ work'[w] = r /\ \A v \in Writers : v # w => work'[v] = work[v]
  BY <1>1
<1>3. \A v \in Writers : Fits(log', work'[v])
  <2> SUFFICES ASSUME NEW v \in Writers PROVE Fits(log', work'[v])
    OBVIOUS
  <2>1. CASE v = w
    BY <1>2, <2>1
  <2>2. CASE v # w
    <3>1. work'[v] = work[v] /\ Fits(log, work[v]) /\ work[v] \in Works
      BY <1>1, <1>2, <2>2 DEF StoreInv, BasesFollow
    <3>2. HasBase(work[v]) => work[v].base \in States /\ work[v].seen \in Nat
      BY <3>1 DEF Works, Rest, Mutating, Reading, Compacting, Saving, HasBase, Loading
    <3>3. Len(log') = Len(log) + 1 /\ Len(log) \in Nat
      BY <1>1
    <3> QED
      BY <1>1, <3>1, <3>2, <3>3, PastKept DEF Fits
  <2> QED
    BY <2>1, <2>2
<1>4. \A m \in Nodes : copy[m] # None => Follows(log', copy[m])
  <2> SUFFICES ASSUME NEW m \in Nodes, copy[m] # None PROVE Follows(log', copy[m])
    OBVIOUS
  <2>1. copy[m] \in States /\ Follows(log, copy[m])
    BY <1>1 DEF StoreInv, CopiesFollow
  <2> QED
    BY <1>1, <2>1, PastKept
<1>5. log' \in Seq(Events)
  BY <1>1
<1>6. BasesFollow'
  BY <1>3 DEF BasesFollow, Fits, HasBase, Follows, Covers, EndOf
<1>7. CopiesFollow'
  <2>1. \A m \in Nodes : copy'[m] # None => Follows(log', copy'[m])
    BY <1>4
  <2> QED
    BY <2>1 DEF CopiesFollow, Follows, Covers, EndOf
<1> QED
  BY <1>2, <1>5, <1>6, <1>7

(* Before anything is written.                                              *)
LEMMA StoreStarts ==
  ASSUME StoreInit
  PROVE  StoreInv
<1>1. StoreKnown
  <2>1. log \in Seq(Events)
    BY DEF StoreInit
  <2>2. copy \in [Nodes -> States \cup {None}]
    BY DEF StoreInit
  <2>3. work \in [Writers -> Works]
    BY DEF StoreInit, Works
  <2>4. /\ compaction \in {"none", "running", "succeeded", "failed"}
        /\ inFlight \subseteq Nodes /\ leaseHolder \in Nodes \cup {None}
        /\ unwritten \in 0..MaxUnwritten
    BY StoreAssumption DEF StoreInit
  <2>5. appended \in 0..MaxMessages /\ upkeep \in 0..MaxUpkeep
    BY StoreAssumption DEF StoreInit
  <2> QED
    BY <2>1, <2>2, <2>3, <2>4, <2>5 DEF StoreKnown, OthersKnown
<1>2. CopiesFollow
  BY DEF StoreInit, CopiesFollow
<1>3. BasesFollow
  BY DEF StoreInit, BasesFollow, Fits, HasBase, Loading, Rest
<1> QED
  BY <1>1, <1>2, <1>3 DEF StoreInv

(* A step that does without the log and the copies.                         *)
LEMMA WorkStep ==
  ASSUME StoreInv, NEW w \in Writers, NEW r \in Works, Goes(w, r), UNCHANGED <<log, copy>>,
         Fits(log, r), OthersKnown'
  PROVE  StoreInv'
<1>1. work' \in [Writers -> Works] /\ BasesFollow'
  BY WorkKept
<1>2. log' \in Seq(Events) /\ copy' \in [Nodes -> States \cup {None}]
  BY DEF StoreInv, StoreKnown
<1>3. CopiesFollow'
  <2>1. \A n \in Nodes : copy[n] # None => Follows(log, copy[n])
    BY DEF StoreInv, CopiesFollow
  <2> QED
    BY <2>1 DEF CopiesFollow, Follows, Covers, EndOf
<1>4. StoreKnown'
  BY <1>1, <1>2 DEF StoreKnown, OthersKnown
<1> QED
  BY <1>1, <1>3, <1>4 DEF StoreInv

(* A step that changes a copy, and the writer goes on.                      *)
LEMMA CopyStep ==
  ASSUME StoreInv, NEW w \in Writers, NEW r \in Works, Goes(w, r), UNCHANGED log,
         NEW n \in Nodes, NEW state \in States \cup {None}, CopyBecomes(n, state),
         state # None => Follows(log, state),
         Fits(log, r), OthersKnown'
  PROVE  StoreInv'
<1>1. work' \in [Writers -> Works] /\ BasesFollow'
  BY WorkKept
<1>2. log' \in Seq(Events)
  BY DEF StoreInv, StoreKnown
<1>3. copy' \in [Nodes -> States \cup {None}] /\ CopiesFollow'
  BY CopyKept
<1>4. StoreKnown'
  BY <1>1, <1>2, <1>3 DEF StoreKnown, OthersKnown
<1> QED
  BY <1>1, <1>3, <1>4 DEF StoreInv

(* What a mutation begins with.                                             *)
LEMMA MutationWork ==
  ASSUME StoreInv, NEW w \in Writers, NEW e \in Mutations, NEW after \in {"request", "compaction"}
  PROVE  /\ Mutation(w, e, after) \in Works
         /\ Fits(log, Mutation(w, e, after))
<1> DEFINE c == copy[NodeOf[w]]
           base == IF c = None THEN Fresh ELSE c
           place == IF c = None THEN "load" ELSE "commit"
<1>1. NodeOf[w] \in Nodes /\ log \in Seq(Events)
  BY StoreAssumption DEF StoreInv, StoreKnown
<1>2. c # None => c \in States /\ Follows(log, c)
  BY <1>1 DEF StoreInv, StoreKnown, CopiesFollow
<1>3. base \in States /\ Follows(log, base)
  BY <1>1, <1>2, FreshFollows
<1>4. Mutation(w, e, after) =
        [at |-> place, use |-> "base", had |-> None, seen |-> 0, base |-> base, event |-> e,
         tries |-> 2, after |-> after]
  BY DEF Mutation
<1>5. place \in {"load", "commit"}
  OBVIOUS
<1> HIDE DEF c, base, place
<1>6. Mutation(w, e, after) \in Mutating
  BY <1>3, <1>4, <1>5 DEF Mutating, Loading
<1>7. Mutation(w, e, after).base = base /\ Mutation(w, e, after).seen = 0
  BY <1>4
<1> QED
  BY <1>1, <1>3, <1>6, <1>7 DEF Works, Fits

(* A message is to be appended.                                             *)
LEMMA AppendMessageStep ==
  ASSUME StoreInv, NEW w \in Writers, AppendMessage(w)
  PROVE  StoreInv'
<1>1. appended' \in Messages /\ UNCHANGED <<log, copy, compactionVars, upkeep>>
  BY StoreAssumption DEF StoreInv, StoreKnown, OthersKnown, AppendMessage, Messages
<1> DEFINE e == AppendOf(appended + 1)
<1>2. appended' = appended + 1
  BY DEF AppendMessage
<1>3. e \in Mutations
  BY <1>1, <1>2 DEF AppendOf, Mutations
<1>4. Goes(w, Mutation(w, e, "request"))
  BY <1>2 DEF AppendMessage
<1>5. OthersKnown'
  BY <1>1 DEF StoreInv, StoreKnown, OthersKnown, compactionVars, Messages
<1> HIDE DEF e
<1>6. Mutation(w, e, "request") \in Works /\ Fits(log, Mutation(w, e, "request"))
  BY <1>3, MutationWork
<1> QED
  BY <1>1, <1>4, <1>5, <1>6, WorkStep

(* The session is cleared or set.                                           *)
LEMMA ClearOrSetStep ==
  ASSUME StoreInv, NEW w \in Writers, ClearOrSet(w)
  PROVE  StoreInv'
<1>1. PICK e \in {ClearEvent, SettingEvent} : Goes(w, Mutation(w, e, "request"))
  BY DEF ClearOrSet
<1>2. e \in Mutations
  BY <1>1 DEF ClearEvent, SettingEvent, Mutations
<1>3. UNCHANGED <<log, copy, compactionVars, appended>> /\ OthersKnown'
  BY StoreAssumption DEF ClearOrSet, Upkeep, StoreInv, StoreKnown, OthersKnown, compactionVars
<1>4. Mutation(w, e, "request") \in Works /\ Fits(log, Mutation(w, e, "request"))
  BY <1>2, MutationWork
<1> QED
  BY <1>1, <1>3, <1>4, WorkStep

(* What a writer has at a stage.                                            *)
LEMMA WorkAt ==
  ASSUME StoreInv, NEW w \in Writers
  PROVE  /\ HasBase(work[w]) => /\ work[w] \in Mutating \cup Reading
                                /\ Follows(log, work[w].base) /\ work[w].seen <= Len(log)
         /\ work[w].at \in {"commit", "store"} => work[w] \in Mutating
         /\ work[w].at \in Loading /\ work[w].use \in {"base", "conflict"} => work[w] \in Mutating
         /\ work[w].at \in Loading /\ work[w].use \in {"history", "boot"} => work[w] \in Reading
         /\ work[w].at \in {"triggered", "asking"} => work[w] \in Compacting
         /\ work[w].at \in {"save", "boot"} => work[w] \in Saving
<1> USE DEF Works, Rest, Mutating, Reading, Compacting, Saving, Loading
<1>1. work[w] \in Works
  BY DEF StoreInv, StoreKnown
<1>2. HasBase(work[w]) => Follows(log, work[w].base) /\ work[w].seen <= Len(log)
  BY DEF StoreInv, BasesFollow, Fits
<1>3. HasBase(work[w]) => work[w] \in Mutating \cup Reading
  BY <1>1 DEF HasBase
<1>4. work[w].at \in {"commit", "store"} => work[w] \in Mutating
  BY <1>1
<1>5. work[w].at \in Loading => work[w] \in Mutating \cup Reading
  BY <1>1
<1>6. work[w].at \in {"triggered", "asking"} => work[w] \in Compacting
  BY <1>1
<1>7. work[w].at \in {"save", "boot"} => work[w] \in Saving
  BY <1>1
<1> QED
  BY <1>2, <1>3, <1>4, <1>5, <1>6, <1>7

(* A writer that has ended has nothing to write.                            *)
LEMMA AtRest == Rest \in Works /\ ~ HasBase(Rest) /\ \A l : Fits(l, Rest)
BY DEF Works, Rest, HasBase, Loading, Fits

(* The event is written, or the version has changed.                        *)
LEMMA CommitStep ==
  ASSUME StoreInv, NEW w \in Writers, Commit(w)
  PROVE  StoreInv'
<1> DEFINE base == work[w].base
           e == work[w].event
           written == [Mutated(base, e) EXCEPT !.version = Len(log) + 1]
           r == [work[w] EXCEPT !.at = "store", !.base = written]
<1>1. /\ work[w].at = "commit" /\ work[w] \in Mutating /\ Follows(log, base)
      /\ base \in States /\ e \in Mutations /\ e \in Events
      /\ work[w].seen \in Nat /\ work[w].seen <= Len(log)
  BY WorkAt DEF Commit, HasBase, Mutating, Events
<1>2. UNCHANGED <<copy, compactionVars, appended, upkeep>> /\ OthersKnown'
  BY DEF Commit, StoreInv, StoreKnown, OthersKnown, compactionVars
<1>3. log \in Seq(Events) /\ copy \in [Nodes -> States \cup {None}]
  BY DEF StoreInv, StoreKnown
<1>4. CASE SameVersion(base)
  <2>1. log' = Append(log, e) /\ Goes(w, r)
    BY <1>4 DEF Commit
  <2>2. written \in States /\ Follows(Append(log, e), written)
    BY <1>1, <1>3, <1>4, MutatedFollows DEF SameVersion
  <2> HIDE DEF written
  <2>3. r \in Works /\ r.base = written /\ r.seen = work[w].seen
    BY <1>1, <2>2 DEF Mutating, Works
  <2> HIDE DEF r
  <2>7. Len(log') = Len(log) + 1
    BY <1>1, <1>3, <2>1
  <2>4. Fits(log', r)
    BY <1>1, <1>3, <2>1, <2>2, <2>3, <2>7 DEF Fits
  <2> HIDE DEF e
  <2>5. /\ log' \in Seq(Events) /\ work' \in [Writers -> Works] /\ CopiesFollow' /\ BasesFollow'
    BY <1>1, <1>2, <2>1, <2>3, <2>4, LogKept
  <2>6. copy' \in [Nodes -> States \cup {None}]
    BY <1>2, <1>3
  <2> QED
    BY <1>2, <2>5, <2>6 DEF StoreInv, StoreKnown
<1>5. CASE ~ SameVersion(base)
  <2> DEFINE q == [work[w] EXCEPT !.at = "replay", !.use = "conflict", !.seen = Len(log)]
  <2>1. Goes(w, q) /\ UNCHANGED log
    BY <1>5 DEF Commit
  <2>2. Len(log) \in Nat
    BY <1>3
  <2>3. q \in Works /\ q.base = base /\ q.seen = Len(log)
    BY <1>1, <2>2 DEF Mutating, Loading, Works
  <2> HIDE DEF q
  <2>4. Fits(log, q)
    BY <1>1, <2>2, <2>3 DEF Fits
  <2> HIDE DEF base
  <2> QED
    BY <1>2, <2>1, <2>3, <2>4, WorkStep
<1> QED
  BY <1>4, <1>5

(* The row of the compaction, written or not.                               *)
LEMMA ReportKnown ==
  ASSUME OthersKnown, NEW status \in {"running", "succeeded", "failed"}, Report(status)
  PROVE  /\ compaction' \in {"none", "running", "succeeded", "failed"}
         /\ unwritten' \in 0..MaxUnwritten
BY StoreAssumption DEF Report, OthersKnown

(* How a mutation ends.                                                     *)
LEMMA EndsKnown ==
  ASSUME StoreInv, NEW w \in Writers, EndMutation(w), UNCHANGED <<appended, upkeep>>
  PROVE  Goes(w, Rest) /\ OthersKnown'
<1>1. OthersKnown /\ NodeOf[w] \in Nodes
  BY StoreAssumption DEF StoreInv, StoreKnown
<1>2. CASE work[w].after = "compaction"
  BY <1>1, <1>2, ReportKnown DEF EndMutation, EndCompaction, OthersKnown
<1>3. CASE work[w].after # "compaction"
  BY <1>1, <1>3 DEF EndMutation, compactionVars, OthersKnown
<1> QED
  BY <1>2, <1>3 DEF EndMutation

(* The state that was written becomes the copy.                             *)
LEMMA StoreCopyStep ==
  ASSUME StoreInv, NEW w \in Writers, StoreCopy(w)
  PROVE  StoreInv'
<1>1. work[w] \in Mutating /\ Follows(log, work[w].base) /\ work[w].base \in States
  BY WorkAt DEF StoreCopy, HasBase, Mutating
<1>2. /\ CopyBecomes(NodeOf[w], work[w].base) /\ UNCHANGED log /\ NodeOf[w] \in Nodes
      /\ Goes(w, Rest) /\ OthersKnown'
  BY EndsKnown, StoreAssumption DEF StoreCopy
<1> QED
  BY <1>1, <1>2, AtRest, CopyStep

(* What was loaded becomes the copy, and the event is tried again.          *)
LEMMA RetryStep ==
  ASSUME StoreInv, NEW w \in Writers, Retry(w)
  PROVE  StoreInv'
<1>1. /\ work[w] \in Mutating /\ Follows(log, work[w].base) /\ work[w].base \in States
  BY WorkAt DEF Retry, HasBase, Mutating, Loading
<1>5. work[w].seen <= Len(log)
  BY WorkAt DEF Retry, HasBase, Loading
<1>2. /\ CopyBecomes(NodeOf[w], work[w].base) /\ UNCHANGED <<log, appended, upkeep>>
      /\ NodeOf[w] \in Nodes
  BY StoreAssumption DEF Retry
<1>3. CASE work[w].tries > 1
  <2> DEFINE r == [work[w] EXCEPT !.at = "commit", !.tries = @ - 1]
  <2>1. Goes(w, r) /\ UNCHANGED compactionVars
    BY <1>3 DEF Retry
  <2>2. work[w].tries \in Nat
    BY <1>1 DEF Mutating
  <2>3. r \in Mutating /\ r.base = work[w].base /\ r.seen = work[w].seen
    <3>1. work[w].tries - 1 \in Nat
      BY <1>3, <2>2
    <3>2. r = [[work[w] EXCEPT !.at = "commit"] EXCEPT !.tries = work[w].tries - 1]
      BY <1>1 DEF Mutating
    <3>3. [work[w] EXCEPT !.at = "commit"] \in Mutating
      BY <1>1 DEF Mutating
    <3> HIDE DEF r
    <3>4. r \in Mutating
      BY <3>1, <3>2, <3>3 DEF Mutating
    <3>5. r.base = work[w].base /\ r.seen = work[w].seen
      BY <1>1, <3>2 DEF Mutating
    <3> QED
      BY <3>4, <3>5
  <2> HIDE DEF r
  <2>4. OthersKnown'
    BY <1>2, <2>1 DEF StoreInv, StoreKnown, OthersKnown, compactionVars
  <2>5. r \in Works /\ Fits(log, r)
    BY <1>1, <1>5, <2>3 DEF Works, Fits
  <2> QED
    BY <1>1, <1>2, <2>1, <2>4, <2>5, CopyStep
<1>4. CASE ~ (work[w].tries > 1)
  <2>1. EndMutation(w)
    BY <1>4 DEF Retry
  <2>2. Goes(w, Rest) /\ OthersKnown'
    BY <1>2, <2>1, EndsKnown
  <2> QED
    BY <1>1, <1>2, <2>2, AtRest, CopyStep
<1> QED
  BY <1>3, <1>4

(* A read begins with the version of the copy.                              *)
LEMMA ReadHistoryStep ==
  ASSUME StoreInv, NEW w \in Writers, ReadHistory(w)
  PROVE  StoreInv'
<1> DEFINE c == copy[NodeOf[w]]
           had == IF c = None THEN None ELSE c.version
           r == [at |-> "load", use |-> "history", had |-> had, seen |-> 0, base |-> Fresh]
<1>1. Goes(w, r) /\ Upkeep /\ UNCHANGED <<log, copy, compactionVars, appended>>
  BY DEF ReadHistory
<1>2. NodeOf[w] \in Nodes /\ log \in Seq(Events)
  BY StoreAssumption DEF StoreInv, StoreKnown
<1>3. had \in Nat \cup {None}
  BY <1>2 DEF StoreInv, StoreKnown, States
<1> HIDE DEF had, c
<1>4. r \in Works /\ r.base = Fresh /\ r.seen = 0
  BY <1>2, <1>3, FreshFollows DEF Works, Reading, Loading
<1> HIDE DEF r
<1>5. Fits(log, r)
  BY <1>2, <1>4, FreshFollows DEF Fits
<1>6. OthersKnown'
  BY <1>1, StoreAssumption DEF Upkeep, StoreInv, StoreKnown, OthersKnown, compactionVars
<1> QED
  BY <1>1, <1>4, <1>5, <1>6, WorkStep

(* What becomes of a reader that has its history.                           *)
LEMMA ReadEndsKnown ==
  ASSUME NEW w, NEW h \in Seq(Messages), ReadEnds(w, h)
  PROVE  \E r \in Works : Goes(w, r) /\ ~ HasBase(r) /\ \A l : Fits(l, r)
<1>1. CASE Goes(w, Rest)
  BY <1>1, AtRest
<1>2. CASE /\ Len(h) > KeepTurns
           /\ Goes(w, [at |-> "triggered", remove |-> Len(h) - KeepTurns])
  <2>1. Len(h) - KeepTurns \in Nat
    BY <1>2, StoreAssumption
  <2> DEFINE r == [at |-> "triggered", remove |-> Len(h) - KeepTurns]
  <2>2. r \in Works /\ ~ HasBase(r)
    BY <2>1 DEF Works, Compacting, HasBase, Loading
  <2> HIDE DEF r
  <2>3. Goes(w, r) /\ \A l : Fits(l, r)
    BY <1>2, <2>2 DEF r, Fits
  <2> QED
    BY <2>2, <2>3
<1> QED
  BY <1>1, <1>2 DEF ReadEnds

(* The version is read, or there is nothing to load.                        *)
LEMMA LoadVersionStep ==
  ASSUME StoreInv, NEW w \in Writers, LoadVersion(w)
  PROVE  StoreInv'
<1>1. /\ work[w].at = "load" /\ work[w] \in Mutating \cup Reading
      /\ Follows(log, work[w].base) /\ work[w].seen <= Len(log)
      /\ work[w].base \in States /\ work[w].seen \in Nat
  BY WorkAt DEF LoadVersion, HasBase, Loading, Mutating, Reading
<1>2. UNCHANGED <<log, copy, compactionVars, appended, upkeep>> /\ OthersKnown'
  BY DEF LoadVersion, StoreInv, StoreKnown, OthersKnown, compactionVars
<1>3. log \in Seq(Events) /\ Len(log) \in Nat /\ NodeOf[w] \in Nodes
  BY StoreAssumption DEF StoreInv, StoreKnown
<1>4. CASE work[w].use = "base" /\ Goes(w, [work[w] EXCEPT !.at = "commit"])
  <2> DEFINE r == [work[w] EXCEPT !.at = "commit"]
  <2>1. r \in Works /\ r.base = work[w].base /\ r.seen = work[w].seen
    BY <1>1, <1>4 DEF Works, Mutating, Reading
  <2> HIDE DEF r
  <2>2. Goes(w, r)
    BY <1>4 DEF r
  <2>3. Fits(log, r)
    BY <1>1, <2>1 DEF Fits
  <2> QED
    BY <1>2, <2>1, <2>2, <2>3, WorkStep
<1>5. CASE ReadEnds(w, IF copy[NodeOf[w]] = None THEN <<>> ELSE copy[NodeOf[w]].history)
  <2> DEFINE h == IF copy[NodeOf[w]] = None THEN <<>> ELSE copy[NodeOf[w]].history
  <2>1. h \in Seq(Messages)
    <3>1. copy[NodeOf[w]] # None => copy[NodeOf[w]] \in States
      BY <1>3 DEF StoreInv, StoreKnown
    <3>2. <<>> \in Seq(Messages)
      OBVIOUS
    <3> QED
      BY <3>1, <3>2 DEF States
  <2> HIDE DEF h
  <2>2. ReadEnds(w, h)
    BY <1>5 DEF h
  <2>3. PICK r \in Works : Goes(w, r) /\ \A l : Fits(l, r)
    BY <2>1, <2>2, ReadEndsKnown
  <2>4. Fits(log, r)
    BY <2>3
  <2> QED
    BY <1>2, <2>3, <2>4, WorkStep
<1>6. CASE Goes(w, [work[w] EXCEPT !.at = "replay", !.seen = Len(log)])
  <2> DEFINE r == [work[w] EXCEPT !.at = "replay", !.seen = Len(log)]
  <2>1. r \in Works /\ r.base = work[w].base /\ r.seen = Len(log)
    BY <1>1, <1>3 DEF Works, Mutating, Reading, Loading
  <2> HIDE DEF r
  <2>2. Goes(w, r)
    BY <1>6 DEF r
  <2>3. Fits(log, r)
    BY <1>1, <1>3, <2>1 DEF Fits
  <2> QED
    BY <1>2, <2>1, <2>2, <2>3, WorkStep
<1> QED
  BY <1>4, <1>5, <1>6 DEF LoadVersion

(* The events are read, maybe more than the version says.                   *)
LEMMA LoadEventsStep ==
  ASSUME StoreInv, NEW w \in Writers, LoadEvents(w)
  PROVE  StoreInv'
<1> DEFINE state == State(Replay(log), work[w].seen, FALSE)
           place == IF work[w].use = "base" THEN "commit" ELSE "loaded"
           r == [work[w] EXCEPT !.at = place, !.base = state]
<1>1. /\ work[w].at = "replay" /\ work[w] \in Mutating \cup Reading
      /\ work[w].seen <= Len(log) /\ work[w].seen \in Nat
  BY WorkAt DEF LoadEvents, HasBase, Loading, Mutating, Reading
<1>2. /\ UNCHANGED <<log, copy, compactionVars, appended, upkeep>> /\ OthersKnown'
      /\ Goes(w, r)
  BY DEF LoadEvents, StoreInv, StoreKnown, OthersKnown, compactionVars
<1>3. state \in States /\ Follows(log, state)
  BY <1>1, LoadFollows DEF StoreInv, StoreKnown
<1>4. /\ work[w].use \in {"base", "conflict"} => work[w] \in Mutating
      /\ work[w].use \notin {"base", "conflict"} => work[w] \in Reading
  BY <1>1 DEF Mutating, Reading
<1> HIDE DEF state
<1>5. r \in Works /\ r.base = state /\ r.seen = work[w].seen
  <2>1. CASE work[w].use = "base"
    BY <1>3, <1>4, <2>1 DEF Works, Mutating
  <2>2. CASE work[w].use # "base" /\ work[w] \in Mutating
    BY <1>3, <2>2 DEF Works, Mutating, Loading
  <2>3. CASE work[w] \in Reading
    BY <1>3, <2>3 DEF Works, Reading, Loading
  <2> QED
    BY <1>4, <2>1, <2>2, <2>3
<1> HIDE DEF r
<1>6. Fits(log, r)
  BY <1>1, <1>3, <1>5 DEF Fits
<1> QED
  BY <1>2, <1>5, <1>6, WorkStep

(* What a reader loaded becomes the copy.                                   *)
LEMMA RefreshStep ==
  ASSUME StoreInv, NEW w \in Writers, Refresh(w)
  PROVE  StoreInv'
<1>1. work[w] \in Reading /\ Follows(log, work[w].base) /\ work[w].base \in States
  BY WorkAt DEF Refresh, HasBase, Loading, Reading
<1>2. /\ CopyBecomes(NodeOf[w], work[w].base) /\ NodeOf[w] \in Nodes
      /\ UNCHANGED <<log, compactionVars, appended, upkeep>>
      /\ ReadEnds(w, work[w].base.history)
  BY StoreAssumption DEF Refresh
<1>3. work[w].base.history \in Seq(Messages)
  BY <1>1 DEF States
<1>4. PICK r \in Works : Goes(w, r) /\ \A l : Fits(l, r)
  BY <1>2, <1>3, ReadEndsKnown
<1>5. Fits(log, r) /\ UNCHANGED log
  BY <1>2, <1>4
<1>6. OthersKnown'
  BY <1>2 DEF StoreInv, StoreKnown, OthersKnown, compactionVars
<1> QED
  BY <1>1, <1>2, <1>4, <1>5, <1>6, CopyStep

(* A statement fails.                                                       *)
LEMMA StoreFailsStep ==
  ASSUME StoreInv, NEW w \in Writers, StoreFails(w)
  PROVE  StoreInv'
<1>1. UNCHANGED <<log, copy, appended>> /\ Upkeep /\ log \in Seq(Events)
  BY DEF StoreFails, StoreInv, StoreKnown
<1>2. upkeep' \in 0..MaxUpkeep
  BY <1>1, StoreAssumption DEF Upkeep, StoreInv, StoreKnown, OthersKnown
<1>3. UNCHANGED compactionVars => OthersKnown'
  BY <1>1, <1>2 DEF StoreInv, StoreKnown, OthersKnown, compactionVars
<1>4. CASE /\ Loads(w, {"base"}) /\ UNCHANGED compactionVars
           /\ Goes(w, [work[w] EXCEPT !.at = "commit", !.base = Fresh])
  <2> DEFINE r == [work[w] EXCEPT !.at = "commit", !.base = Fresh]
  <2>1. work[w] \in Mutating /\ work[w].seen <= Len(log)
    BY <1>4, WorkAt DEF Loads, HasBase, Loading
  <2>2. Fresh \in States /\ Follows(log, Fresh)
    BY <1>1, FreshFollows
  <2>3. r \in Works /\ r.base = Fresh /\ r.seen = work[w].seen
    BY <2>1, <2>2 DEF Works, Mutating
  <2> HIDE DEF r
  <2>4. Goes(w, r) /\ Fits(log, r)
    BY <1>4, <2>1, <2>2, <2>3 DEF r, Fits
  <2> QED
    BY <1>1, <1>3, <1>4, <2>3, <2>4, WorkStep
<1>5. CASE EndMutation(w)
  <2>1. Goes(w, Rest) /\ OthersKnown'
    <3>1. OthersKnown /\ NodeOf[w] \in Nodes
      BY StoreAssumption DEF StoreInv, StoreKnown
    <3>2. CASE work[w].after = "compaction"
      BY <1>1, <1>2, <1>5, <3>1, <3>2, ReportKnown DEF EndMutation, EndCompaction, OthersKnown
    <3>3. CASE work[w].after # "compaction"
      BY <1>3, <1>5, <3>3 DEF EndMutation
    <3> QED
      BY <1>5, <3>2, <3>3 DEF EndMutation
  <2> QED
    BY <1>1, <2>1, AtRest, WorkStep
<1>6. CASE Goes(w, Rest) /\ UNCHANGED compactionVars
  BY <1>1, <1>3, <1>6, AtRest, WorkStep
<1> QED
  BY <1>4, <1>5, <1>6 DEF StoreFails

(* The summary is asked for, or another one already is.                     *)
LEMMA StartStep ==
  ASSUME StoreInv, NEW w \in Writers, StartCompaction(w)
  PROVE  StoreInv'
<1> DEFINE n == NodeOf[w]
           r == [work[w] EXCEPT !.at = "asking"]
<1>1. n \in Nodes /\ work[w] \in Compacting /\ UNCHANGED <<log, copy, appended, upkeep>>
  BY WorkAt, StoreAssumption DEF StartCompaction
<1>2. CASE n \notin inFlight /\ leaseHolder = None
  <2>1. Goes(w, r) /\ Report("running") /\ inFlight' = inFlight \cup {n} /\ leaseHolder' = n
    BY <1>2 DEF StartCompaction
  <2>2. OthersKnown'
    BY <1>1, <2>1, ReportKnown DEF StoreInv, StoreKnown, OthersKnown
  <2>3. r \in Works /\ Fits(log, r)
    BY <1>1 DEF Works, Compacting, Fits, HasBase, Loading
  <2> HIDE DEF r
  <2> QED
    BY <1>1, <2>1, <2>2, <2>3, WorkStep
<1>3. CASE ~ (n \notin inFlight /\ leaseHolder = None)
  <2>1. Goes(w, Rest) /\ UNCHANGED compactionVars
    BY <1>3 DEF StartCompaction
  <2>2. OthersKnown'
    BY <1>1, <2>1 DEF StoreInv, StoreKnown, OthersKnown, compactionVars
  <2> QED
    BY <1>1, <2>1, <2>2, AtRest, WorkStep
<1> QED
  BY <1>2, <1>3

(* The model answers.                                                       *)
LEMMA SummaryStep ==
  ASSUME StoreInv, NEW w \in Writers, SummaryArrives(w)
  PROVE  StoreInv'
<1>1. /\ work[w] \in Compacting /\ UNCHANGED <<log, copy, appended, upkeep>>
      /\ NodeOf[w] \in Nodes
  BY WorkAt, StoreAssumption DEF SummaryArrives
<1> DEFINE e == ReplaceOf(work[w].remove)
           r == Mutation(w, e, "compaction")
<1>2. CASE Goes(w, r) /\ UNCHANGED compactionVars
  <2>1. e \in Mutations
    BY <1>1 DEF ReplaceOf, Mutations, Compacting
  <2>2. r \in Works /\ Fits(log, r)
    BY <2>1, MutationWork
  <2>3. OthersKnown'
    BY <1>1, <1>2 DEF StoreInv, StoreKnown, OthersKnown, compactionVars
  <2> HIDE DEF r
  <2> QED
    BY <1>1, <1>2, <2>2, <2>3, WorkStep
<1>3. CASE Goes(w, Rest) /\ \E status \in {"succeeded", "failed"} : EndCompaction(NodeOf[w], status)
  <2>1. OthersKnown'
    BY <1>1, <1>3, ReportKnown DEF StoreInv, StoreKnown, OthersKnown, EndCompaction
  <2> QED
    BY <1>1, <1>3, <2>1, AtRest, WorkStep
<1> QED
  BY <1>2, <1>3 DEF SummaryArrives

(* compact_session changes the copy and is to save it.                      *)
LEMMA SummarizeStep ==
  ASSUME StoreInv, NEW w \in Writers, Summarize(w)
  PROVE  StoreInv'
<1> DEFINE n == NodeOf[w]
           state == State(<<Summary>>, copy[n].version, TRUE)
           r == [at |-> "save", history |-> <<Summary>>]
<1>1. n \in Nodes /\ copy[n] # None /\ copy[n] \in States /\ Follows(log, copy[n])
  BY StoreAssumption DEF Summarize, StoreInv, StoreKnown, CopiesFollow
<1>2. CopyBecomes(n, state) /\ Goes(w, r) /\ Upkeep /\ UNCHANGED <<log, compactionVars, appended>>
  BY DEF Summarize
<1>3. <<Summary>> \in Seq(Messages)
  <2>1. Summary \in Messages
    BY StoreAssumption DEF Summary, Messages
  <2> QED
    BY <2>1
<1>4. copy[n].version \in Nat /\ copy[n].version <= Len(log)
  BY <1>1 DEF States, Follows
<1>5. state \in States
  BY <1>3, <1>4, StateTypes
<1>6. Follows(log, state)
  <2>1. state.version = copy[n].version /\ state.skewed
    BY DEF State
  <2> QED
    BY <1>4, <2>1 DEF Follows
<1>7. OthersKnown'
  BY <1>2, StoreAssumption DEF Upkeep, StoreInv, StoreKnown, OthersKnown, compactionVars
<1>8. r \in Works /\ Fits(log, r)
  BY <1>3 DEF Works, Saving, Fits, HasBase, Loading
<1> HIDE DEF r, state, n
<1> QED
  BY <1>1, <1>2, <1>5, <1>6, <1>7, <1>8, CopyStep

(* A snapshot is written, or the writing fails.                             *)
LEMMA SaveStep ==
  ASSUME StoreInv, NEW w \in Writers, Save(w)
  PROVE  StoreInv'
<1>1. /\ work[w] \in Saving /\ Goes(w, Rest)
      /\ UNCHANGED <<copy, compactionVars, appended, upkeep>>
  BY WorkAt DEF Save
<1>2. OthersKnown'
  BY <1>1 DEF StoreInv, StoreKnown, OthersKnown, compactionVars
<1>3. CASE log' = Append(log, SnapshotOf(work[w].history))
  <2>1. SnapshotOf(work[w].history) \in Events
    BY <1>1 DEF SnapshotOf, Saving, Events
  <2>2. /\ log' \in Seq(Events) /\ work' \in [Writers -> Works] /\ CopiesFollow' /\ BasesFollow'
    BY <1>1, <1>3, <2>1, AtRest, LogKept
  <2>3. copy' \in [Nodes -> States \cup {None}]
    BY <1>1 DEF StoreInv, StoreKnown
  <2> QED
    BY <1>2, <2>2, <2>3 DEF StoreInv, StoreKnown
<1>4. CASE UNCHANGED log
  BY <1>1, <1>2, <1>4, AtRest, WorkStep
<1> QED
  BY <1>3, <1>4 DEF Save

(* A process comes back.                                                    *)
LEMMA RestartStep ==
  ASSUME StoreInv, NEW w \in Writers, Restart(w)
  PROVE  StoreInv'
<1> DEFINE n == NodeOf[w]
           boot == [at |-> "load", use |-> "boot", had |-> None, seen |-> 0, base |-> Fresh]
<1>1. /\ n \in Nodes /\ log \in Seq(Events) /\ work \in [Writers -> Works]
  BY StoreAssumption DEF StoreInv, StoreKnown
<1>2. /\ Upkeep /\ CopyBecomes(n, None)
      /\ work' = [v \in Writers |->
                    IF NodeOf[v] # n THEN work[v]
                    ELSE IF v = w /\ log # <<>> THEN boot ELSE Rest]
      /\ inFlight' = inFlight \ {n} /\ UNCHANGED <<log, compaction, leaseHolder, unwritten, appended>>
  BY DEF Restart
<1>3. OthersKnown'
  BY <1>2, StoreAssumption DEF Upkeep, StoreInv, StoreKnown, OthersKnown
<1>4. copy' \in [Nodes -> States \cup {None}] /\ CopiesFollow'
  BY <1>1, <1>2, CopyKept
<1>5. boot \in Works /\ boot.base = Fresh /\ boot.seen = 0
  BY <1>1, FreshFollows DEF Works, Reading, Loading
<1> HIDE DEF boot
<1>6. Fits(log, boot)
  BY <1>1, <1>5, FreshFollows DEF Fits
<1>7. ASSUME NEW v \in Writers
      PROVE  work'[v] \in Works /\ Fits(log, work'[v])
  <2>1. work'[v] \in {work[v], boot, Rest}
    BY <1>2, <1>7
  <2>2. Fits(log, work[v]) /\ work[v] \in Works
    BY <1>1, <1>7 DEF StoreInv, BasesFollow
  <2> QED
    BY <1>5, <1>6, <2>1, <2>2, AtRest
<1>8. work' \in [Writers -> Works]
  <2>1. work' = [v \in Writers |-> work'[v]]
    BY <1>2
  <2> QED
    BY <1>7, <2>1
<1>9. BasesFollow'
  <2>1. \A v \in Writers : Fits(log', work'[v])
    BY <1>2, <1>7
  <2> QED
    BY <2>1 DEF BasesFollow, Fits, HasBase, Follows, Covers, EndOf
<1>10. log' \in Seq(Events)
  BY <1>1, <1>2
<1> QED
  BY <1>3, <1>4, <1>8, <1>9, <1>10 DEF StoreInv, StoreKnown

(* What start-up loaded becomes the copy, with the window.                  *)
LEMMA BootStep ==
  ASSUME StoreInv, NEW w \in Writers, Boot(w)
  PROVE  StoreInv'
<1> DEFINE base == work[w].base
           h == base.history
           state == [base EXCEPT !.history = Trim(h)]
           r == [at |-> "boot", history |-> Trim(h)]
<1>1. /\ Follows(log, base) /\ base \in States /\ log \in Seq(Events) /\ NodeOf[w] \in Nodes
  BY WorkAt, StoreAssumption DEF Boot, HasBase, Loading, Reading, StoreInv, StoreKnown
<1>2. /\ CopyBecomes(NodeOf[w], state) /\ Goes(w, r)
      /\ UNCHANGED <<log, compactionVars, appended, upkeep>>
  BY DEF Boot
<1> HIDE DEF base
<1>3. h \in Seq(Messages) /\ base.version \in Nat /\ base.version <= Len(log)
  BY <1>1 DEF States, Follows
<1>4. Trim(h) \in Seq(Messages)
  BY <1>3, CoversItself, TrimCovers
<1>5. /\ state \in States /\ state.version = base.version /\ state.history = Trim(h)
      /\ state.skewed = base.skewed
  BY <1>1, <1>4 DEF States
<1> HIDE DEF state
<1>6. ASSUME ~ state.skewed
      PROVE  \E read \in state.version..Len(log) : Covers(state.history, Replay(SubSeq(log, 1, read)))
  <2>1. PICK read \in base.version..Len(log) : Covers(h, Replay(SubSeq(log, 1, read)))
    BY <1>1, <1>5, <1>6 DEF Follows
  <2> DEFINE past == Replay(SubSeq(log, 1, read))
  <2>2. past \in Seq(Messages)
    <3>1. SubSeq(log, 1, read) \in Seq(Events)
      BY <1>1, <1>3
    <3> QED
      BY <3>1, ReplayTypes
  <2>3. Covers(h, past)
    BY <2>1
  <2> HIDE DEF past, h
  <2>4. Covers(Trim(h), past)
    BY <1>3, <2>2, <2>3, TrimCovers
  <2> QED
    BY <1>5, <2>4 DEF past
<1>7. Follows(log, state)
  BY <1>3, <1>5, <1>6 DEF Follows
<1>8. r \in Works /\ Fits(log, r)
  BY <1>4 DEF Works, Saving, Fits, HasBase, Loading
<1> HIDE DEF r
<1>9. OthersKnown'
  BY <1>2 DEF StoreInv, StoreKnown, OthersKnown, compactionVars
<1> QED
  BY <1>1, <1>2, <1>5, <1>7, <1>8, <1>9, CopyStep

(* Every step of the session keeps the invariant.                           *)
LEMMA StoreStays ==
  ASSUME StoreInv, [StoreNext]_storeVars
  PROVE  StoreInv'
<1>1. CASE UNCHANGED storeVars
  <2>1. UNCHANGED <<log, copy, work, compaction, inFlight, leaseHolder, unwritten, appended, upkeep>>
    BY <1>1 DEF storeVars
  <2>2. StoreKnown'
    BY <2>1 DEF StoreInv, StoreKnown, OthersKnown
  <2>3. CopiesFollow'
    BY <2>1 DEF StoreInv, CopiesFollow, Follows, Covers, EndOf
  <2>4. BasesFollow'
    BY <2>1 DEF StoreInv, BasesFollow, Fits, HasBase, Follows, Covers, EndOf
  <2> QED
    BY <2>2, <2>3, <2>4 DEF StoreInv
<1>2. CASE CompactionLeaseExpires
  <2>1. /\ UNCHANGED <<log, copy, work, compaction, inFlight, unwritten, appended>>
        /\ leaseHolder' = None /\ UNCHANGED upkeep
    BY <1>2 DEF CompactionLeaseExpires
  <2>2. StoreKnown'
    BY <2>1 DEF StoreInv, StoreKnown, OthersKnown
  <2>3. CopiesFollow'
    BY <2>1 DEF StoreInv, CopiesFollow, Follows, Covers, EndOf
  <2>4. BasesFollow'
    BY <2>1 DEF StoreInv, BasesFollow, Fits, HasBase, Follows, Covers, EndOf
  <2> QED
    BY <2>2, <2>3, <2>4 DEF StoreInv
<1>3. ASSUME NEW w \in Writers, WriterStep(w) PROVE StoreInv'
  BY <1>3, AppendMessageStep, ClearOrSetStep, CommitStep, StoreCopyStep, RetryStep,
     ReadHistoryStep, LoadVersionStep, LoadEventsStep, RefreshStep, StoreFailsStep, StartStep,
     SummaryStep, SummarizeStep, RestartStep, BootStep, SaveStep
  DEF WriterStep
<1> QED
  BY <1>1, <1>2, <1>3 DEF StoreNext

(* The invariant holds of every execution.                                  *)
THEOREM StoreInvHolds == StoreSpec => []StoreInv
<1>1. StoreInit => StoreInv
  BY StoreStarts
<1>2. StoreInv /\ [StoreNext]_storeVars => StoreInv'
  BY StoreStays
<1> QED
  BY <1>1, <1>2, PTL DEF StoreSpec

(* The variables keep the types that the runs check.                        *)
THEOREM StoreTypes == StoreSpec => []StoreTypeOK
<1>1. ASSUME StoreInv PROVE StoreTypeOK
  <2>1. \A i \in 1..Len(log) : log[i].kind \in EventKinds
    BY <1>1 DEF StoreInv, StoreKnown, Events, Mutations, EventKinds
  <2>2. \A w \in Writers : work[w].at \in Stages
    <3> SUFFICES ASSUME NEW w \in Writers PROVE work[w].at \in Stages
      OBVIOUS
    <3>1. work[w] \in Works
      BY <1>1 DEF StoreInv, StoreKnown
    <3> QED
      BY <3>1 DEF Works, Rest, Mutating, Reading, Loading, Compacting, Saving, Stages
  <2>3. ASSUME NEW n \in Nodes, copy[n] # None
        PROVE  copy[n].version \in 0..Len(log) /\ Range(copy[n].history) \subseteq 0..MaxMessages
    <3>1. copy[n] \in States /\ Follows(log, copy[n])
      BY <1>1, <2>3 DEF StoreInv, StoreKnown, CopiesFollow
    <3>2. copy[n].version \in Nat /\ copy[n].version <= Len(log)
      BY <3>1 DEF States, Follows
    <3>3. copy[n].history \in Seq(Messages)
      BY <3>1 DEF States
    <3>4. Range(copy[n].history) \subseteq Messages
      BY <3>3 DEF Range
    <3>5. Len(log) \in Nat
      BY <1>1 DEF StoreInv, StoreKnown
    <3> QED
      BY <3>2, <3>4, <3>5 DEF Messages
  <2> QED
    BY <1>1, <2>1, <2>2, <2>3 DEF StoreTypeOK, StoreInv, StoreKnown, OthersKnown
<1> QED
  BY <1>1, StoreInvHolds, PTL

(* No process writes an event against a history that never was: the copy of *)
(* a process is what the log was at the version the copy says, or at a later*)
(* one if others wrote while it was loaded, up to the messages the window   *)
(* took, whatever processes, threads, conflicts and late stores do.         *)
THEOREM CopiesFollowLog == StoreSpec => []CopyFollowsLog
<1>1. ASSUME StoreInv PROVE CopyFollowsLog
  <2> DEFINE Past(read) == Replay(SubSeq(log, 1, read))
  <2> SUFFICES ASSUME NEW n \in Nodes, copy[n] # None, ~ copy[n].skewed
               PROVE  \E read \in copy[n].version..Len(log) :
                        /\ IsSuffix(copy[n].history, Past(read))
                        /\ Len(copy[n].history) >=
                             IF Len(Past(read)) < Window THEN Len(Past(read)) ELSE Window
    BY DEF CopyFollowsLog
  <2> DEFINE h == copy[n].history
  <2>1. copy[n] \in States /\ Follows(log, copy[n]) /\ log \in Seq(Events)
    BY <1>1 DEF StoreInv, StoreKnown, CopiesFollow
  <2>2. h \in Seq(Messages) /\ copy[n].version \in Nat /\ copy[n].version <= Len(log)
    BY <2>1 DEF States, Follows
  <2>3. PICK read \in copy[n].version..Len(log) : Covers(h, Past(read))
    BY <2>1 DEF Follows
  <2>4. Past(read) \in Seq(Messages)
    <3>1. SubSeq(log, 1, read) \in Seq(Events)
      BY <2>1, <2>2
    <3> QED
      BY <3>1, ReplayTypes
  <2> DEFINE past == Past(read)
  <2>5. Covers(h, past) /\ past \in Seq(Messages)
    BY <2>3, <2>4
  <2> HIDE DEF past, h, Past
  <2>6. IsSuffix(h, past)
    BY <2>2, <2>5, EndIsSuffix DEF Covers
  <2>7. Len(h) \in Nat /\ Len(past) \in Nat /\ Window \in Nat
    BY <2>2, <2>5, StoreAssumption
  <2>8. Len(h) >= IF Len(past) < Window THEN Len(past) ELSE Window
    BY <2>5, <2>7 DEF Covers
  <2> QED
    BY <2>3, <2>6, <2>8 DEF past, h
<1> QED
  BY <1>1, StoreInvHolds, PTL

-----------------------------------------------------------------------------
(* The mark and the row of a compaction.                                    *)

(* A writer at a compaction, by what it is at.                              *)
Compacts(r) ==
  \/ r.at = "asking"
  \/ r.at \in {"commit", "store"} /\ r.after = "compaction"
  \/ r.at \in Loading /\ r.use \in {"base", "conflict"} /\ r.after = "compaction"

(* What a step makes of the compactions: it leaves them as they are, ...    *)
AsBefore ==
  /\ UNCHANGED <<compaction, inFlight>>
  /\ \A v \in Writers : InCompaction(v)' <=> InCompaction(v)
OthersAsBefore(w) == \A v \in Writers : v # w => (InCompaction(v)' <=> InCompaction(v))

(* ... it begins one, ...                                                   *)
Begins(w) ==
  /\ ~ InCompaction(w) /\ InCompaction(w)' /\ OthersAsBefore(w)
  /\ NodeOf[w] \notin inFlight /\ inFlight' = inFlight \cup {NodeOf[w]}

(* ... or it ends one, with its outcome, if that could be written.          *)
Ends(w) ==
  /\ InCompaction(w) /\ ~ InCompaction(w)' /\ OthersAsBefore(w)
  /\ inFlight' = inFlight \ {NodeOf[w]}
  /\ compaction' # "running" \/ unwritten' > unwritten

(* A writer goes on to another place; the others stay.                      *)
LEMMA OneGoes ==
  ASSUME StoreInv, NEW w \in Writers, NEW r, Goes(w, r)
  PROVE  (InCompaction(w)' <=> Compacts(r)) /\ (InCompaction(w) <=> Compacts(work[w])) /\ OthersAsBefore(w)
<1>1. work'[w] = r /\ \A v \in Writers : v # w => work'[v] = work[v]
  BY DEF Goes, StoreInv, StoreKnown
<1> QED
  BY <1>1 DEF InCompaction, Loads, Loading, Compacts, OthersAsBefore

LEMMA GoesAsBefore ==
  ASSUME StoreInv, NEW w \in Writers, NEW r, Goes(w, r), Compacts(r) <=> Compacts(work[w]),
         UNCHANGED compactionVars
  PROVE  AsBefore
BY OneGoes DEF AsBefore, OthersAsBefore, compactionVars

(* The row says how a compaction ended, or its write has failed.            *)
LEMMA Reported ==
  ASSUME StoreInv, NEW status \in {"succeeded", "failed"}, Report(status)
  PROVE  compaction' # "running" \/ unwritten' > unwritten
<1>1. unwritten \in Nat
  BY StoreAssumption DEF StoreInv, StoreKnown, OthersKnown
<1> QED
  BY <1>1 DEF Report

(* The end of a mutation, by what it was for.                               *)
LEMMA MutationEnds ==
  ASSUME StoreInv, NEW w \in Writers, EndMutation(w),
         \/ work[w].at \in {"commit", "store"}
         \/ work[w].at \in Loading /\ work[w].use = "conflict"
  PROVE  AsBefore \/ Ends(w)
<1>1. Goes(w, Rest) /\ ~ Compacts(Rest)
  BY DEF EndMutation, Compacts, Rest, Loading
<1>2. CASE work[w].after = "compaction"
  <2>1. Compacts(work[w])
    BY <1>2 DEF Compacts
  <2>2. inFlight' = inFlight \ {NodeOf[w]} /\ Report("succeeded")
    BY <1>2 DEF EndMutation, EndCompaction
  <2> QED
    BY <1>1, <2>1, <2>2, OneGoes, Reported DEF Ends
<1>3. CASE work[w].after # "compaction"
  <2>1. ~ Compacts(work[w])
    BY <1>3 DEF Compacts, Loading
  <2>2. UNCHANGED compactionVars
    BY <1>3 DEF EndMutation
  <2> QED
    BY <1>1, <2>1, <2>2, GoesAsBefore
<1> QED
  BY <1>2, <1>3

LEMMA CommitCompacts ==
  ASSUME StoreInv, NEW w \in Writers, Commit(w)
  PROVE  AsBefore
<1>1. work[w] \in Mutating /\ work[w].at = "commit" /\ UNCHANGED compactionVars
  BY WorkAt DEF Commit
<1>2. CASE SameVersion(work[w].base)
  <2> DEFINE new == [Mutated(work[w].base, work[w].event) EXCEPT !.version = Len(log) + 1]
             r == [work[w] EXCEPT !.at = "store", !.base = new]
  <2>1. Goes(w, r)
    BY <1>2 DEF Commit
  <2> HIDE DEF new
  <2>2. Compacts(r) <=> Compacts(work[w])
    BY <1>1 DEF Compacts, Mutating, Loading
  <2> HIDE DEF r
  <2> QED
    BY <1>1, <2>1, <2>2, GoesAsBefore
<1>3. CASE ~ SameVersion(work[w].base)
  <2> DEFINE r == [work[w] EXCEPT !.at = "replay", !.use = "conflict", !.seen = Len(log)]
  <2>1. Goes(w, r)
    BY <1>3 DEF Commit
  <2>2. Compacts(r) <=> Compacts(work[w])
    BY <1>1 DEF Compacts, Mutating, Loading
  <2> HIDE DEF r
  <2> QED
    BY <1>1, <2>1, <2>2, GoesAsBefore
<1> QED
  BY <1>2, <1>3

LEMMA RetryCompacts ==
  ASSUME StoreInv, NEW w \in Writers, Retry(w)
  PROVE  AsBefore \/ Ends(w)
<1>1. work[w] \in Mutating /\ work[w].at = "loaded" /\ work[w].use = "conflict"
  BY WorkAt DEF Retry, Loading
<1>2. CASE work[w].tries > 1
  <2>1. Goes(w, [work[w] EXCEPT !.at = "commit", !.tries = @ - 1]) /\ UNCHANGED compactionVars
    BY <1>2 DEF Retry
  <2>2. Compacts([work[w] EXCEPT !.at = "commit", !.tries = @ - 1]) <=> Compacts(work[w])
    BY <1>1 DEF Compacts, Mutating, Loading
  <2> QED
    BY <2>1, <2>2, GoesAsBefore
<1>3. CASE ~ (work[w].tries > 1)
  BY <1>1, <1>3, MutationEnds DEF Retry, Loading
<1> QED
  BY <1>2, <1>3

(* A reader is at no compaction, nor will it be.                            *)
LEMMA ReadCompacts ==
  ASSUME StoreInv, NEW w \in Writers, NEW h, ReadEnds(w, h), ~ Compacts(work[w]),
         UNCHANGED compactionVars
  PROVE  AsBefore
<1>1. ~ Compacts(Rest) /\ \A n : ~ Compacts([at |-> "triggered", remove |-> n])
  BY DEF Compacts, Rest, Loading
<1> QED
  BY <1>1, GoesAsBefore DEF ReadEnds

(* A load is at a compaction if the mutation that it is for is.             *)
LEMMA LoadCompacts ==
  ASSUME StoreInv, NEW w \in Writers, LoadVersion(w) \/ LoadEvents(w) \/ Refresh(w)
  PROVE  AsBefore
<1>1. /\ work[w].at \in Loading /\ work[w] \in Mutating \cup Reading /\ UNCHANGED compactionVars
  BY WorkAt DEF LoadVersion, LoadEvents, Refresh, HasBase, Loading
<1>2. work[w].use = "history" => ~ Compacts(work[w])
  BY <1>1 DEF Compacts, Loading
<1>3. CASE Refresh(w)
  BY <1>1, <1>2, <1>3, ReadCompacts DEF Refresh
<1>4. CASE LoadEvents(w)
  <2> DEFINE place == IF work[w].use = "base" THEN "commit" ELSE "loaded"
             base == State(Replay(log), work[w].seen, FALSE)
             r == [work[w] EXCEPT !.at = place, !.base = base]
  <2>1. Goes(w, r)
    BY <1>4 DEF LoadEvents
  <2> HIDE DEF base
  <2>2. Compacts(r) <=> Compacts(work[w])
    BY <1>1 DEF Compacts, Mutating, Reading, Loading
  <2> HIDE DEF r
  <2> QED
    BY <1>1, <2>1, <2>2, GoesAsBefore
<1>5. CASE LoadVersion(w)
  <2>1. CASE work[w].use = "base" /\ Goes(w, [work[w] EXCEPT !.at = "commit"])
    <3> DEFINE r == [work[w] EXCEPT !.at = "commit"]
    <3>1. Compacts(r) <=> Compacts(work[w])
      BY <1>1, <2>1 DEF Compacts, Mutating, Reading, Loading
    <3> HIDE DEF r
    <3>2. Goes(w, r)
      BY <2>1 DEF r
    <3> QED
      BY <1>1, <3>1, <3>2, GoesAsBefore
  <2>2. CASE Goes(w, [work[w] EXCEPT !.at = "replay", !.seen = Len(log)])
    <3> DEFINE r == [work[w] EXCEPT !.at = "replay", !.seen = Len(log)]
    <3>1. Compacts(r) <=> Compacts(work[w])
      BY <1>1 DEF Compacts, Mutating, Reading, Loading
    <3> HIDE DEF r
    <3>2. Goes(w, r)
      BY <2>2 DEF r
    <3> QED
      BY <1>1, <3>1, <3>2, GoesAsBefore
  <2>3. CASE /\ work[w].use = "history"
             /\ ReadEnds(w, IF copy[NodeOf[w]] = None THEN <<>> ELSE copy[NodeOf[w]].history)
    BY <1>1, <1>2, <2>3, ReadCompacts
  <2> QED
    BY <1>5, <2>1, <2>2, <2>3 DEF LoadVersion
<1> QED
  BY <1>3, <1>4, <1>5

(* A statement that fails ends a mutation, or leaves it at its commit.      *)
LEMMA FailsCompacts ==
  ASSUME StoreInv, NEW w \in Writers, StoreFails(w)
  PROVE  AsBefore \/ Ends(w)
<1>1. CASE /\ Loads(w, {"base"}) /\ UNCHANGED compactionVars
           /\ Goes(w, [work[w] EXCEPT !.at = "commit", !.base = Fresh])
  <2> DEFINE r == [work[w] EXCEPT !.at = "commit", !.base = Fresh]
  <2>1. work[w] \in Mutating /\ work[w].at \in Loading
    BY <1>1, WorkAt DEF Loads, Loading
  <2>2. Compacts(r) <=> Compacts(work[w])
    BY <2>1 DEF Compacts, Mutating, Loading
  <2> HIDE DEF r
  <2>3. Goes(w, r)
    BY <1>1 DEF r
  <2> QED
    BY <1>1, <2>2, <2>3, GoesAsBefore
<1>2. CASE /\ work[w].at = "commit" \/ (work[w].at = "replay" /\ work[w].use = "conflict")
           /\ EndMutation(w)
  BY <1>2, MutationEnds DEF Loading
<1>3. CASE /\ work[w].at \in {"load", "replay"} /\ work[w].use \in {"history", "boot"}
           /\ Goes(w, Rest) /\ UNCHANGED compactionVars
  BY <1>3, GoesAsBefore DEF Compacts, Rest, Loading
<1> QED
  BY <1>1, <1>2, <1>3 DEF StoreFails

LEMMA StartCompacts ==
  ASSUME StoreInv, NEW w \in Writers, StartCompaction(w)
  PROVE  AsBefore \/ Begins(w)
<1>1. work[w] \in Compacting /\ work[w].at = "triggered" /\ ~ Compacts(work[w])
  BY WorkAt DEF StartCompaction, Compacts, Loading
<1>2. CASE NodeOf[w] \notin inFlight /\ leaseHolder = None
  <2>1. Goes(w, [work[w] EXCEPT !.at = "asking"]) /\ inFlight' = inFlight \cup {NodeOf[w]}
    BY <1>2 DEF StartCompaction
  <2>2. Compacts([work[w] EXCEPT !.at = "asking"])
    BY <1>1 DEF Compacts, Compacting, Loading
  <2> QED
    BY <1>1, <1>2, <2>1, <2>2, OneGoes DEF Begins
<1>3. CASE ~ (NodeOf[w] \notin inFlight /\ leaseHolder = None)
  BY <1>1, <1>3, GoesAsBefore DEF StartCompaction, Compacts, Rest, Loading
<1> QED
  BY <1>2, <1>3

LEMMA SummaryCompacts ==
  ASSUME StoreInv, NEW w \in Writers, SummaryArrives(w)
  PROVE  AsBefore \/ Ends(w)
<1>1. work[w].at = "asking" /\ Compacts(work[w])
  BY DEF SummaryArrives, Compacts
<1>2. CASE /\ Goes(w, Mutation(w, ReplaceOf(work[w].remove), "compaction"))
           /\ UNCHANGED compactionVars
  BY <1>1, <1>2, GoesAsBefore DEF Mutation, Compacts, Loading
<1>3. CASE /\ Goes(w, Rest)
           /\ \E status \in {"succeeded", "failed"} : EndCompaction(NodeOf[w], status)
  <2>1. ~ Compacts(Rest)
    BY DEF Rest, Compacts, Loading
  <2>2. inFlight' = inFlight \ {NodeOf[w]} /\ \E status \in {"succeeded", "failed"} : Report(status)
    BY <1>3 DEF EndCompaction
  <2> QED
    BY <1>1, <1>3, <2>1, <2>2, OneGoes, Reported DEF Ends
<1> QED
  BY <1>2, <1>3 DEF SummaryArrives

(* What the steps of a writer that is at nothing, at a save or at start-up  *)
(* make of it.                                                              *)
LEMMA OthersCompact ==
  ASSUME StoreInv, NEW w \in Writers,
         \/ AppendMessage(w) \/ ClearOrSet(w) \/ ReadHistory(w) \/ Summarize(w) \/ Boot(w) \/ Save(w)
  PROVE  AsBefore
<1>1. UNCHANGED compactionVars /\ ~ Compacts(work[w])
  BY DEF AppendMessage, ClearOrSet, ReadHistory, Summarize, Boot, Save, Ready, Compacts, Loading
<1>2. \A e : ~ Compacts(Mutation(w, e, "request"))
  BY DEF Mutation, Compacts
<1>3. \A had : ~ Compacts([at |-> "load", use |-> "history", had |-> had, seen |-> 0, base |-> Fresh])
  BY DEF Compacts
<1>4. \A place \in {"save", "boot"} : \A h : ~ Compacts([at |-> place, history |-> h])
  BY DEF Compacts, Loading
<1>5. ~ Compacts(Rest)
  BY DEF Compacts, Rest, Loading
<1>6. PICK r : Goes(w, r) /\ ~ Compacts(r)
  <2>1. CASE AppendMessage(w)
    BY <1>2, <2>1 DEF AppendMessage
  <2>2. CASE ClearOrSet(w)
    BY <1>2, <2>2 DEF ClearOrSet
  <2>3. CASE ReadHistory(w)
    BY <1>3, <2>3 DEF ReadHistory
  <2>4. CASE Summarize(w)
    BY <1>4, <2>4 DEF Summarize
  <2>5. CASE Boot(w)
    BY <1>4, <2>5 DEF Boot
  <2>6. CASE Save(w)
    BY <1>5, <2>6 DEF Save
  <2> QED
    BY <2>1, <2>2, <2>3, <2>4, <2>5, <2>6
<1> QED
  BY <1>1, <1>6, GoesAsBefore

(* A restart takes the mark of the process and all it was doing, nothing    *)
(* else.                                                                    *)
LEMMA RestartCompacts ==
  ASSUME StoreInv, NEW w \in Writers, Restart(w)
  PROVE  /\ inFlight' = inFlight \ {NodeOf[w]}
         /\ \A v \in Writers :
              InCompaction(v)' <=> (NodeOf[v] # NodeOf[w] /\ InCompaction(v))
<1> DEFINE boot == [at |-> "load", use |-> "boot", had |-> None, seen |-> 0, base |-> Fresh]
<1>1. \A v \in Writers :
        work'[v] \in IF NodeOf[v] # NodeOf[w] THEN {work[v]} ELSE {boot, Rest}
  BY DEF Restart
<1>2. ~ Compacts(Rest) /\ ~ Compacts(boot)
  BY DEF Compacts, Rest, Loading
<1> HIDE DEF boot
<1>3. \A v \in Writers : NodeOf[v] = NodeOf[w] => ~ Compacts(work'[v])
  BY <1>1, <1>2
<1>4. inFlight' = inFlight \ {NodeOf[w]}
  BY DEF Restart
<1> QED
  BY <1>1, <1>3, <1>4 DEF InCompaction, Loads, Loading, Compacts

LEMMA CompactionSteps ==
  ASSUME StoreInv, [StoreNext]_storeVars
  PROVE  AsBefore \/ \E w \in Writers : Begins(w) \/ Ends(w) \/ Restart(w)
<1>1. ASSUME UNCHANGED <<work, compaction, inFlight>> PROVE AsBefore
  BY <1>1 DEF AsBefore, InCompaction, Loads
<1>2. ASSUME NEW w \in Writers, StoreCopy(w) PROVE AsBefore \/ Ends(w)
  BY <1>2, MutationEnds DEF StoreCopy
<1> QED
  BY <1>1, <1>2, CommitCompacts, RetryCompacts, LoadCompacts, FailsCompacts, StartCompacts,
     SummaryCompacts, OthersCompact
  DEF StoreNext, WriterStep, CompactionLeaseExpires, storeVars

LEMMA MarkKept ==
  ASSUME StoreInv, CompactionMarked, [StoreNext]_storeVars
  PROVE  CompactionMarked'
<1>1. CASE AsBefore
  BY <1>1 DEF AsBefore, CompactionMarked
<1>2. ASSUME NEW w \in Writers, Begins(w) PROVE CompactionMarked'
  <2>1. \A v \in Writers : NodeOf[v] = NodeOf[w] => ~ InCompaction(v)
    BY <1>2 DEF Begins, CompactionMarked
  <2>2. \A v \in Writers : InCompaction(v)' <=> (v = w \/ InCompaction(v))
    BY <1>2 DEF Begins, OthersAsBefore
  <2>3. inFlight' = {NodeOf[v] : v \in {u \in Writers : InCompaction(u)'}}
    BY <1>2, <2>2 DEF Begins, CompactionMarked
  <2> QED
    BY <2>1, <2>2, <2>3 DEF CompactionMarked
<1>3. ASSUME NEW w \in Writers, Ends(w) PROVE CompactionMarked'
  <2>1. \A v \in Writers : InCompaction(v)' <=> (v # w /\ InCompaction(v))
    BY <1>3 DEF Ends, OthersAsBefore
  <2>2. \A v \in Writers : InCompaction(v) /\ NodeOf[v] = NodeOf[w] => v = w
    BY <1>3 DEF Ends, CompactionMarked
  <2>3. inFlight' = {NodeOf[v] : v \in {u \in Writers : InCompaction(u)'}}
    BY <1>3, <2>1, <2>2 DEF Ends, CompactionMarked
  <2> QED
    BY <2>1, <2>3 DEF CompactionMarked
<1>4. ASSUME NEW w \in Writers, Restart(w) PROVE CompactionMarked'
  <2>1. \A v \in Writers : InCompaction(v)' <=> (NodeOf[v] # NodeOf[w] /\ InCompaction(v))
    BY <1>4, RestartCompacts
  <2>2. inFlight' = {NodeOf[v] : v \in {u \in Writers : InCompaction(u)'}}
    BY <1>4, <2>1, RestartCompacts DEF CompactionMarked
  <2> QED
    BY <2>1, <2>2 DEF CompactionMarked
<1> QED
  BY <1>1, <1>2, <1>3, <1>4, CompactionSteps

(* A process has its mark exactly while one of its tasks compacts the       *)
(* session, whatever becomes of the lease, the summary and its mutation.    *)
THEOREM MarksFit == StoreSpec => []CompactionMarked
<1>1. StoreInit => CompactionMarked
  BY DEF StoreInit, CompactionMarked, InCompaction, Loads, Rest
<1> QED
  BY <1>1, MarkKept, StoreInvHolds, PTL DEF StoreSpec

(* A row that says Running while nobody compacts the session is what a      *)
(* restart left, or a write of the row that failed; no other step of any    *)
(* process leaves one.                                                      *)
THEOREM OrphansCaused == StoreSpec => OrphansHaveCause
<1>1. ASSUME StoreInv, [StoreNext]_storeVars, Orphaned', ~ Orphaned
      PROVE  unwritten' > unwritten \/ \E w \in Writers : Restart(w)
  <2>1. ~ AsBefore
    BY <1>1 DEF AsBefore, Orphaned
  <2>2. \A w \in Writers : ~ Begins(w) /\ (Ends(w) => unwritten' > unwritten)
    BY <1>1 DEF Begins, Ends, Orphaned
  <2> QED
    BY <1>1, <2>1, <2>2, CompactionSteps
<1>2. StoreInv /\ [StoreNext]_storeVars
        => [Orphaned' => Orphaned \/ unwritten' > unwritten \/ \E w \in Writers : Restart(w)]_storeVars
  BY <1>1
<1> QED
  BY <1>2, StoreInvHolds, PTL DEF StoreSpec, OrphansHaveCause

(****************************************************************************)
(* What the web tools keep.                                                 *)
(****************************************************************************)

(* The filter, row by row.                                                  *)

(* What comes of a row more.                                                *)
Keeps(S, k, r) == IF r \in S THEN Append(k, r) ELSE k

(* What the fold computes for the first rows of a sequence.                 *)
Keeping(S, l, g) ==
  g = [s \in SUBSET DOMAIN l |->
         IF s = {} THEN <<>> ELSE Keeps(S, g[s \ {Max(s)}], l[Max(s)])]

(* The filter is what the fold computes for the whole sequence.             *)
LEMMA KeptFolds ==
  ASSUME NEW l, NEW K
  PROVE  Kept(l, K) = (CHOOSE g : Keeping(K, l, g))[DOMAIN l]
<1>1. Kept(l, K) =
        LET it[s \in SUBSET DOMAIN l] ==
              IF s = {} THEN <<>> ELSE Keeps(K, it[s \ {Max(s)}], l[Max(s)])
        IN it[DOMAIN l]
  BY DEF Kept, FoldLeft, MapThenFoldSet, Keeps
<1> QED
  BY <1>1 DEF Keeping

(* The fold exists, by induction over the length of the log.                *)
LEMMA KeepingExists ==
  ASSUME NEW S, NEW K, NEW l \in Seq(S)
  PROVE  \E g : Keeping(K, l, g)
<1> DEFINE T == {n \in Nat : \A k \in Seq(S) : Len(k) = n => \E g : Keeping(K, k, g)}
<1>1. 0 \in T
  <2> SUFFICES ASSUME NEW k \in Seq(S), Len(k) = 0 PROVE \E g : Keeping(K, k, g)
    OBVIOUS
  <2> DEFINE g == [s \in SUBSET DOMAIN k |-> <<>>]
  <2>1. DOMAIN k = {}
    OBVIOUS
  <2>2. \A s \in SUBSET DOMAIN k : s = {}
    BY <2>1
  <2>3. Keeping(K, k, g)
    BY <2>2 DEF Keeping
  <2> QED
    BY <2>3
<1>2. ASSUME NEW n \in T PROVE n + 1 \in T
  <2> SUFFICES ASSUME NEW k \in Seq(S), Len(k) = n + 1 PROVE \E g : Keeping(K, k, g)
    BY <1>2
  <2> DEFINE front == SubSeq(k, 1, n)
  <2>1. /\ front \in Seq(S) /\ Len(front) = n /\ DOMAIN front = 1..n /\ DOMAIN k = 1..(n + 1)
        /\ \A i \in 1..n : front[i] = k[i]
    BY <1>2
  <2> HIDE DEF front
  <2>2. PICK f : Keeping(K, front, f)
    BY <1>2, <2>1
  <2> DEFINE g == [s \in SUBSET DOMAIN k |->
                     IF s = {} THEN <<>> ELSE Keeps(K, f[s \ {Max(s)}], k[Max(s)])]
  <2>3. ASSUME NEW s \in SUBSET (1..n) PROVE g[s] = f[s]
    <3>1. s \in SUBSET DOMAIN front /\ s \in SUBSET DOMAIN k
      BY <1>2, <2>1
    <3>2. f[s] = IF s = {} THEN <<>> ELSE Keeps(K, f[s \ {Max(s)}], front[Max(s)])
      BY <2>2, <3>1 DEF Keeping
    <3>3. s # {} => front[Max(s)] = k[Max(s)]
      BY <1>2, <2>1, Largest
    <3> QED
      BY <3>1, <3>2, <3>3
  <2>4. ASSUME NEW s \in SUBSET (1..(n + 1)), s # {}
        PROVE  g[s \ {Max(s)}] = f[s \ {Max(s)}]
    <3>0. n + 1 \in Nat /\ n \in Nat
      BY <1>2
    <3>1. Max(s) \in s /\ \A i \in s : i <= Max(s)
      BY <2>4, <3>0, Largest
    <3>2. s \ {Max(s)} \in SUBSET (1..n)
      <4> SUFFICES ASSUME NEW i \in s, i # Max(s) PROVE i \in 1..n
        OBVIOUS
      <4>1. i \in 1..(n + 1) /\ Max(s) \in 1..(n + 1) /\ i <= Max(s)
        BY <2>4, <3>1
      <4> QED
        BY <3>0, <4>1
    <3> QED
      BY <2>3, <3>2
  <2>5. g = [s \in SUBSET DOMAIN k |->
               IF s = {} THEN <<>> ELSE Keeps(K, g[s \ {Max(s)}], k[Max(s)])]
    <3>1. \A s \in SUBSET DOMAIN k : s # {} => g[s \ {Max(s)}] = f[s \ {Max(s)}]
      BY <2>1, <2>4
    <3> HIDE DEF g
    <3>2. g = [s \in SUBSET DOMAIN k |->
                 IF s = {} THEN <<>> ELSE Keeps(K, f[s \ {Max(s)}], k[Max(s)])]
      BY DEF g
    <3> QED
      BY <3>1, <3>2
  <2>6. Keeping(K, k, g)
    BY <2>5 DEF Keeping
  <2> QED
    BY <2>6
<1>3. T = Nat
  <2>1. T \in SUBSET Nat
    OBVIOUS
  <2> HIDE DEF T
  <2> QED
    BY <1>1, <1>2, <2>1, Induction
<1>4. Len(l) \in T
  BY <1>3
<1> QED
  BY <1>4

(* The fold begins with nothing, and takes one row after the other.         *)
LEMMA KeepingStep ==
  ASSUME NEW S, NEW K, NEW l \in Seq(S), NEW g, Keeping(K, l, g)
  PROVE  /\ g[1..0] = <<>>
         /\ \A k \in 1..Len(l) : g[1..k] = Keeps(K, g[1..(k - 1)], l[k])
<1>1. DOMAIN l = 1..Len(l) /\ 1..0 = {} /\ {} \in SUBSET DOMAIN l
  OBVIOUS
<1>2. g[1..0] = <<>>
  BY <1>1 DEF Keeping
<1>3. ASSUME NEW k \in 1..Len(l)
      PROVE  g[1..k] = Keeps(K, g[1..(k - 1)], l[k])
  <2>0. k \in Nat /\ k > 0 /\ Len(l) \in Nat /\ k <= Len(l)
    BY <1>3
  <2>1. 1..k \in SUBSET DOMAIN l /\ 1 \in 1..k
    BY <1>1, <2>0
  <2>2. Max(1..k) = k /\ (1..k) \ {Max(1..k)} = 1..(k - 1)
    BY <2>0, LargestUpTo
  <2>3. g[1..k] = Keeps(K, g[(1..k) \ {Max(1..k)}], l[Max(1..k)])
    BY <2>1 DEF Keeping
  <2> QED
    BY <2>2, <2>3
<1> QED
  BY <1>2, <1>3

(* The replay of no event.                                                  *)
LEMMA KeptNone ==
  ASSUME NEW S, NEW K, NEW l \in Seq(S), Len(l) = 0
  PROVE  Kept(l, K) = <<>>
<1> DEFINE g == CHOOSE f : Keeping(K, l, f)
<1>1. Keeping(K, l, g)
  BY KeepingExists
<1>2. DOMAIN l = 1..0 /\ 0 \in 0..Len(l)
  OBVIOUS
<1> HIDE DEF g
<1>4. g[1..0] = <<>>
  BY <1>1, KeepingStep
<1> QED
  BY <1>2, <1>4, KeptFolds DEF g

(* The replay of a log with one event more.                                 *)
LEMMA KeptAppend ==
  ASSUME NEW S, NEW K, NEW l \in Seq(S), NEW e \in S
  PROVE  Kept(Append(l, e), K) = Keeps(K, Kept(l, K), e)
<1> DEFINE m == Append(l, e)
           f == CHOOSE h : Keeping(K, l, h)
           g == CHOOSE h : Keeping(K, m, h)
<1>1. /\ m \in Seq(S) /\ Len(m) = Len(l) + 1 /\ m[Len(l) + 1] = e
      /\ \A i \in 1..Len(l) : m[i] = l[i]
      /\ DOMAIN l = 1..Len(l) /\ DOMAIN m = 1..Len(m)
  OBVIOUS
<1> HIDE DEF m
<1>2. Keeping(K, l, f) /\ Keeping(K, m, g)
  BY <1>1, KeepingExists
<1> HIDE DEF f, g
<1> DEFINE T == {k \in Nat : k <= Len(l) => g[1..k] = f[1..k]}
<1>8. /\ f[1..0] = <<>> /\ \A k \in 1..Len(l) : f[1..k] = Keeps(K, f[1..(k - 1)], l[k])
      /\ g[1..0] = <<>> /\ \A k \in 1..Len(m) : g[1..k] = Keeps(K, g[1..(k - 1)], m[k])
  BY <1>1, <1>2, KeepingStep
<1>3. 0 \in T
  BY <1>8
<1>4. ASSUME NEW k \in T PROVE k + 1 \in T
  <2> SUFFICES ASSUME k + 1 <= Len(l) PROVE g[1..(k + 1)] = f[1..(k + 1)]
    BY <1>4
  <2>1. k \in Nat /\ g[1..k] = f[1..k]
    BY <1>4
  <2>2. k + 1 \in 1..Len(l) /\ k + 1 \in 1..Len(m) /\ (k + 1) - 1 = k
    BY <1>1, <2>1
  <2>3. m[k + 1] = l[k + 1]
    BY <1>1, <2>1
  <2>4. g[1..(k + 1)] = Keeps(K, g[1..k], m[k + 1])
    BY <1>8, <2>2
  <2>5. f[1..(k + 1)] = Keeps(K, f[1..k], l[k + 1])
    BY <1>8, <2>2
  <2> QED
    BY <2>1, <2>3, <2>4, <2>5
<1>5. T = Nat
  <2>1. T \in SUBSET Nat
    OBVIOUS
  <2> HIDE DEF T
  <2> QED
    BY <1>3, <1>4, <2>1, Induction
<1>6. Len(l) \in Nat /\ g[1..Len(l)] = f[1..Len(l)]
  BY <1>5
<1>7. g[1..Len(m)] = Keeps(K, g[1..Len(l)], e)
  <2>1. Len(m) \in 1..Len(m) /\ Len(m) - 1 = Len(l) /\ m[Len(m)] = e
    BY <1>1, <1>6
  <2> QED
    BY <1>8, <2>1
<1>9. Kept(l, K) = f[1..Len(l)] /\ Kept(m, K) = g[1..Len(m)]
  BY <1>1, KeptFolds DEF f, g
<1> QED
  BY <1>6, <1>7, <1>9 DEF m



(* A row at the end of a sequence.                                          *)
LEMMA AtTheEnd ==
  ASSUME NEW R, NEW s \in Seq(R), NEW r \in R
  PROVE  /\ Append(s, r) \in Seq(R)
         /\ ToSet(Append(s, r)) = ToSet(s) \cup {r}
         /\ IsInjective(Append(s, r)) <=> IsInjective(s) /\ r \notin ToSet(s)
<1> DEFINE n == Len(s)
           a == Append(s, r)
<1>1. /\ n \in Nat /\ a \in Seq(R) /\ Len(a) = n + 1 /\ a[n + 1] = r /\ \A i \in 1..n : a[i] = s[i]
      /\ DOMAIN s = 1..n /\ DOMAIN a = 1..(n + 1)
  OBVIOUS
<1> HIDE DEF a, n
<1>2. ToSet(s) = {s[i] : i \in 1..n} /\ ToSet(a) = {a[i] : i \in 1..(n + 1)}
  BY <1>1 DEF ToSet
<1>3. 1..(n + 1) = (1..n) \cup {n + 1} /\ n + 1 \notin 1..n
  BY <1>1
<1>4. ToSet(a) = ToSet(s) \cup {r}
  BY <1>1, <1>2, <1>3
<1>5. ASSUME IsInjective(a) PROVE IsInjective(s) /\ r \notin ToSet(s)
  <2>1. \A i, j \in 1..(n + 1) : a[i] = a[j] => i = j
    BY <1>1, <1>5 DEF IsInjective
  <2> QED
    BY <1>1, <1>2, <1>3, <2>1 DEF IsInjective
<1>6. ASSUME IsInjective(s), r \notin ToSet(s) PROVE IsInjective(a)
  <2>1. \A i, j \in 1..n : s[i] = s[j] => i = j
    BY <1>1, <1>6 DEF IsInjective
  <2>2. \A i \in 1..n : a[i] # r
    BY <1>1, <1>2, <1>6
  <2>3. \A i, j \in 1..(n + 1) : a[i] = a[j] => i = j
    BY <1>1, <1>3, <2>1, <2>2
  <2> QED
    BY <1>1, <2>3 DEF IsInjective
<1> QED
  BY <1>1, <1>4, <1>5, <1>6 DEF a

(* The filter keeps the rows of a set, each once, in as many places as the  *)
(* set has of them; by induction over the length of the sequence.           *)
LEMMA KeptRows ==
  ASSUME NEW R, NEW K, NEW s \in Seq(R)
  PROVE  /\ Kept(s, K) \in Seq(R) /\ ToSet(Kept(s, K)) = ToSet(s) \cap K
         /\ IsFiniteSet(ToSet(s))
         /\ IsInjective(s) => /\ IsInjective(Kept(s, K))
                              /\ Len(Kept(s, K)) = Cardinality(ToSet(s) \cap K)
<1> DEFINE Good(l) ==
             /\ Kept(l, K) \in Seq(R) /\ ToSet(Kept(l, K)) = ToSet(l) \cap K
             /\ IsFiniteSet(ToSet(l))
             /\ IsInjective(l) => /\ IsInjective(Kept(l, K))
                                  /\ Len(Kept(l, K)) = Cardinality(ToSet(l) \cap K)
           T == {n \in Nat : \A l \in Seq(R) : Len(l) = n => Good(l)}
<1>1. 0 \in T
  <2> SUFFICES ASSUME NEW l \in Seq(R), Len(l) = 0 PROVE Good(l)
    OBVIOUS
  <2>1. Kept(l, K) = <<>>
    BY KeptNone
  <2>2. ToSet(l) = {} /\ ToSet(<<>>) = {} /\ Len(<<>>) = 0 /\ <<>> \in Seq(R)
    BY DEF ToSet
  <2>3. IsInjective(<<>>)
    BY DEF IsInjective
  <2>4. {} \cap K = {} /\ IsFiniteSet({}) /\ Cardinality({}) = 0
    BY FS_EmptySet
  <2> QED
    BY <2>1, <2>2, <2>3, <2>4
<1>2. ASSUME NEW n \in T PROVE n + 1 \in T
  <2> SUFFICES ASSUME NEW l \in Seq(R), Len(l) = n + 1 PROVE Good(l)
    BY <1>2
  <2>1. n \in Nat /\ Len(l) \in Nat
    BY <1>2
  <2> DEFINE f == SubSeq(l, 1, n)
             r == l[n + 1]
  <2>2. f \in Seq(R) /\ Len(f) = n /\ r \in R /\ l = Append(f, r)
    BY <2>1
  <2> HIDE DEF f, r
  <2>3. Good(f)
    BY <1>2, <2>2
  <2> HIDE DEF Good
  <2> DEFINE k == Kept(f, K)
             X == ToSet(f)
  <2>4. /\ k \in Seq(R) /\ ToSet(k) = X \cap K /\ IsFiniteSet(X)
        /\ IsInjective(f) => IsInjective(k) /\ Len(k) = Cardinality(X \cap K)
    BY <2>3 DEF Good
  <2>5. Kept(l, K) = IF r \in K THEN Append(k, r) ELSE k
    BY <2>2, KeptAppend DEF Keeps
  <2>6. ToSet(l) = X \cup {r} /\ (IsInjective(l) <=> IsInjective(f) /\ r \notin X)
    BY <2>2, AtTheEnd
  <2>7. IsFiniteSet(X \cup {r}) /\ IsFiniteSet(X \cap K)
    BY <2>4, FS_AddElement, FS_Subset
  <2> HIDE DEF k, X
  <2>8. CASE r \in K
    <3>1. /\ Append(k, r) \in Seq(R) /\ ToSet(Append(k, r)) = (X \cap K) \cup {r}
          /\ IsInjective(Append(k, r)) <=> IsInjective(k) /\ r \notin X \cap K
      BY <2>2, <2>4, AtTheEnd
    <3>2. (X \cup {r}) \cap K = (X \cap K) \cup {r}
      BY <2>8
    <3>3. r \notin X => Cardinality((X \cap K) \cup {r}) = Cardinality(X \cap K) + 1
      BY <2>7, FS_AddElement
    <3>4. Len(Append(k, r)) = Len(k) + 1
      BY <2>2, <2>4
    <3>5. Kept(l, K) = Append(k, r)
      BY <2>5, <2>8
    <3> QED
      BY <2>4, <2>6, <2>7, <3>1, <3>2, <3>3, <3>4, <3>5 DEF Good
  <2>9. CASE r \notin K
    <3>1. (X \cup {r}) \cap K = X \cap K
      BY <2>9
    <3>2. Kept(l, K) = k
      BY <2>5, <2>9
    <3> QED
      BY <2>4, <2>6, <2>7, <3>1, <3>2 DEF Good
  <2> QED
    BY <2>8, <2>9
<1>3. T = Nat
  <2>1. T \in SUBSET Nat
    OBVIOUS
  <2> HIDE DEF T
  <2> QED
    BY <1>1, <1>2, <2>1, Induction
<1> HIDE DEF Good
<1>4. Len(s) \in T
  BY <1>3
<1>5. Good(s)
  BY <1>4
<1> QED
  BY <1>5 DEF Good

-----------------------------------------------------------------------------
(* What the variables have.                                                 *)
WebKnown ==
  /\ WebTypeOK
  /\ doomed \in [WebCalls -> Seq(Rows)]
  /\ IsFiniteSet(AtWork)

(* What a call of each tool goes through, with which row.                   *)
Life(c) ==
  \/ /\ WebTool[c] \in Capturing /\ row[c] = <<"artifact", c>> /\ whenSwept[c] = "end"
     /\ webPc[c] \in {"idle", "write", "check", "insert", "list", "unlink", "delete", "end"}
  \/ /\ WebTool[c] = "persist" /\ row[c] = <<"state", c>> /\ whenSwept[c] = "end"
     /\ webPc[c] \in {"idle", "write", "insert", "list", "unlink", "delete", "end"}
  \/ /\ WebTool[c] = "restore" /\ row[c][1] = "state" /\ whenSwept[c] = "end"
     /\ webPc[c] \in {"idle", "read", "bridge", "list", "unlink", "delete", "end"}
  \/ /\ WebTool[c] = "watch" /\ row[c] = <<"watch", c>> /\ whenSwept[c] = "end"
     /\ webPc[c] \in {"idle", "insert", "list", "unlink", "delete", "end"}
  \/ /\ WebTool[c] = "crawl" /\ row[c] = <<"crawl", c>> /\ whenSwept[c] \in {"end", "pages", "remember"}
     /\ webPc[c] \in {"idle", "insert", "list", "unlink", "delete", "pages", "remember", "end"}
  \/ /\ WebTool[c] = "crawl" /\ row[c] = <<"memory", c>> /\ whenSwept[c] \in {"end", "write"}
     /\ webPc[c] \in {"list", "unlink", "delete", "write", "end"}
  \/ /\ WebTool[c] = "crawl" /\ row[c] = <<"artifact", c>> /\ (Sweeping(c) => whenSwept[c] = "end")
     /\ webPc[c] \in {"check", "insert", "list", "unlink", "delete", "end"}

(* What is to be removed is of the table that the policy is at.             *)
Removing(c) == webPc[c] \in {"unlink", "delete"}
SweepShape ==
  \A c \in WebCalls :
    /\ Removing(c) => doomed[c] # <<>>
    /\ ~ Removing(c) => doomed[c] = <<>>
    /\ \A r \in ToSet(doomed[c]) : r[1] = Tables[sweepAt[c]]
    /\ webPc[c] = "unlink" => Tables[sweepAt[c]] \in {"artifact", "state"}

(* Rows that are or were stored, and rows that are to be.                   *)
Old(r) ==
  \/ r \in stored
  \/ \E c \in WebCalls : r \in ToSet(doomed[c])
  \/ \E c \in WebCalls : webPc[c] \in {"read", "bridge"} /\ r = row[c]
New(r) == \E c \in WebCalls : webPc[c] \in {"check", "insert"} /\ r = row[c]

(* The call that made an artifact or a state has nothing more to do with it *)
(* when it is stored.                                                       *)
OwnersSettled ==
  \A r \in Rows : Filed(r) /\ Old(r) =>
    /\ webPc[r[2]] \in {"list", "unlink", "delete", "end"} /\ row[r[2]] = r
    /\ WebTool[r[2]] # "restore"

(* What is stored has its date, and what is to be stored with an older one. *)
DatesThere ==
  /\ stored \subseteq ToSet(dates)
  /\ \A c \in WebCalls :
       \/ webPc[c] = "insert" /\ row[c][1] = "artifact"
       \/ webPc[c] = "write" /\ WebTool[c] = "start"
       => row[c] \in ToSet(dates)

(* The calls that owe the policy a table, and the rows it will have when    *)
(* some of the calls at the table have removed what they listed.            *)
InTableOf(t) == {r \in stored : r[1] = t}
Owing(t) ==
  {c \in WebCalls : /\ Sweeping(c) /\ row[c][1] = t
                    /\ \E i \in sweepAt[c]..Len(Tables) : Tables[i] = t}
Removers(t) == {c \in WebCalls : Removing(c) /\ Tables[sweepAt[c]] = t}
Removed(C) == UNION {ToSet(doomed[c]) : c \in C}
Bounded ==
  \A t \in ToSet(Tables) : \A C \in SUBSET Removers(t) :
    Cardinality(InTableOf(t) \ Removed(C)) <= Keep[t] + Cardinality(Owing(t) \ C) + setbacks

(* Two calls with the same file know of it.                                 *)
SharedFiles ==
  \A r, q \in Rows :
    /\ Filed(r) /\ Filed(q) /\ (Old(r) \/ New(r)) /\ (Old(q) \/ New(q))
    /\ r[2] # q[2] /\ File(r) = File(q)
    => File(r) \in shared

(* Rows have their files.                                                   *)
RowsHaveFiles ==
  /\ \A r \in stored : Filed(r) =>
       \/ File(r) \in disk \cup shared \/ r \in bare
       \/ \E c \in WebCalls : webPc[c] = "delete" /\ Head(doomed[c]) = r
  /\ \A c \in WebCalls : webPc[c] \in {"check", "insert"} /\ Filed(row[c]) =>
       FileOf[c] \in disk \cup shared

(* Files have their rows.                                                   *)
FilesHaveRows ==
  /\ \A f \in disk \ (shared \cup strays) :
       \/ \E r \in stored : Filed(r) /\ File(r) = f
       \/ \E c \in WebCalls : FileOf[c] = f /\ webPc[c] \in {"check", "insert"} /\ Filed(row[c])
  /\ \A c \in WebCalls : webPc[c] = "delete" /\ Filed(Head(doomed[c])) =>
       File(Head(doomed[c])) \notin disk \ (shared \cup strays)

WebInv ==
  /\ WebKnown /\ \A c \in WebCalls : Life(c)
  /\ SweepShape /\ OwnersSettled /\ DatesThere /\ Bounded
  /\ SharedFiles /\ RowsHaveFiles /\ FilesHaveRows

-----------------------------------------------------------------------------
(* The tables.                                                              *)
LEMMA TablesAre ==
  /\ Len(Tables) = 5 /\ DOMAIN Tables = 1..5
  /\ Tables[1] = "artifact" /\ Tables[2] = "state" /\ Tables[3] = "crawl" /\ Tables[4] = "watch"
  /\ Tables[5] = "memory"
  /\ ToSet(Tables) = {"artifact", "state", "crawl", "watch", "memory"}
  /\ \A i, j \in 1..5 : Tables[i] = Tables[j] => i = j
<1>1. /\ Len(Tables) = 5 /\ DOMAIN Tables = 1..5
      /\ Tables[1] = "artifact" /\ Tables[2] = "state" /\ Tables[3] = "crawl"
      /\ Tables[4] = "watch" /\ Tables[5] = "memory"
  BY DEF Tables
<1>2. 1..5 = {1, 2, 3, 4, 5}
  OBVIOUS
<1>3. ToSet(Tables) = {Tables[1], Tables[2], Tables[3], Tables[4], Tables[5]}
  BY <1>1, <1>2 DEF ToSet
<1>4. ToSet(Tables) = {"artifact", "state", "crawl", "watch", "memory"}
  BY <1>1, <1>3
<1>5. ASSUME NEW i \in 1..5, NEW j \in 1..5, Tables[i] = Tables[j] PROVE i = j
  BY <1>1, <1>2, <1>5
<1> QED
  BY <1>1, <1>4, <1>5

(* Where a call goes.                                                       *)
LEMMA GotoKept ==
  ASSUME WebKnown, NEW c \in WebCalls, NEW pc \in WebPcs, WebGoto(c, pc)
  PROVE  /\ webPc' \in [WebCalls -> WebPcs] /\ webPc'[c] = pc
         /\ \A d \in WebCalls : d # c => webPc'[d] = webPc[d]
         /\ IsFiniteSet(AtWork')
<1>1. webPc' = [webPc EXCEPT ![c] = pc] /\ webPc \in [WebCalls -> WebPcs]
  BY DEF WebKnown, WebTypeOK, WebGoto
<1>2. /\ webPc' \in [WebCalls -> WebPcs] /\ webPc'[c] = pc
      /\ \A d \in WebCalls : d # c => webPc'[d] = webPc[d]
  BY <1>1
<1>3. AtWork' \in SUBSET (AtWork \cup {c})
  BY <1>2 DEF AtWork
<1>4. IsFiniteSet(AtWork \cup {c})
  BY FS_AddElement DEF WebKnown
<1>5. IsFiniteSet(AtWork')
  BY <1>3, <1>4, FS_Subset
<1> QED
  BY <1>2, <1>5

(* A row gets a date.                                                       *)
LEMMA DatedKept ==
  ASSUME WebKnown, NEW r \in Rows
  PROVE  Dated(r) \in Seq(Rows) /\ IsInjective(Dated(r)) /\ ToSet(Dated(r)) = ToSet(dates) \cup {r}
<1> DEFINE k == Kept(dates, Rows \ {r})
<1>1. dates \in Seq(Rows) /\ IsInjective(dates)
  BY DEF WebKnown, WebTypeOK
<1>2. k \in Seq(Rows) /\ ToSet(k) = ToSet(dates) \cap (Rows \ {r}) /\ IsInjective(k)
  BY <1>1, KeptRows
<1>3. ToSet(dates) \subseteq Rows
  BY <1>1 DEF ToSet
<1> HIDE DEF k
<1>4. /\ Append(k, r) \in Seq(Rows) /\ ToSet(Append(k, r)) = ToSet(k) \cup {r}
      /\ IsInjective(Append(k, r)) <=> IsInjective(k) /\ r \notin ToSet(k)
  BY <1>2, AtTheEnd
<1>5. Dated(r) = Append(k, r)
  BY DEF Dated, k
<1> QED
  BY <1>2, <1>3, <1>4, <1>5

(* A row loses its date.                                                    *)
LEMMA UndatedKept ==
  ASSUME WebKnown, NEW r
  PROVE  /\ Kept(dates, Rows \ {r}) \in Seq(Rows) /\ IsInjective(Kept(dates, Rows \ {r}))
         /\ ToSet(Kept(dates, Rows \ {r})) = ToSet(dates) \ {r}
<1>1. dates \in Seq(Rows) /\ IsInjective(dates)
  BY DEF WebKnown, WebTypeOK
<1>2. /\ Kept(dates, Rows \ {r}) \in Seq(Rows) /\ IsInjective(Kept(dates, Rows \ {r}))
      /\ ToSet(Kept(dates, Rows \ {r})) = ToSet(dates) \cap (Rows \ {r})
  BY <1>1, KeptRows
<1>3. ToSet(dates) \subseteq Rows
  BY <1>1 DEF ToSet
<1> QED
  BY <1>2, <1>3

(* What is listed of a table are its rows, each once.                       *)
LEMMA ListedRows ==
  ASSUME WebKnown, DatesThere, NEW t
  PROVE  /\ Listed(t) \in Seq(Rows) /\ ToSet(Listed(t)) = InTableOf(t)
         /\ IsFiniteSet(InTableOf(t)) /\ Len(Listed(t)) = Cardinality(InTableOf(t))
<1> DEFINE K == {r \in stored : InTable(t, r)}
<1>1. dates \in Seq(Rows) /\ IsInjective(dates)
  BY DEF WebKnown, WebTypeOK
<1>2. /\ Kept(dates, K) \in Seq(Rows) /\ ToSet(Kept(dates, K)) = ToSet(dates) \cap K
      /\ IsFiniteSet(ToSet(dates)) /\ Len(Kept(dates, K)) = Cardinality(ToSet(dates) \cap K)
  BY <1>1, KeptRows
<1>3. ToSet(dates) \cap K = InTableOf(t)
  BY DEF DatesThere, InTableOf, InTable
<1>4. IsFiniteSet(InTableOf(t))
  <2>1. InTableOf(t) \in SUBSET ToSet(dates)
    BY <1>3
  <2> QED
    BY <1>2, <2>1, FS_Subset
<1>5. Listed(t) = Kept(dates, K)
  BY DEF Listed
<1> QED
  BY <1>2, <1>3, <1>4, <1>5

(* No more values than places.                                              *)
LEMMA NoMoreThanPlaces ==
  ASSUME NEW S, NEW s \in Seq(S), NEW n \in Nat, n <= Len(s)
  PROVE  LET T == {s[i] : i \in (n + 1)..Len(s)} IN
         IsFiniteSet(T) /\ Cardinality(T) <= Len(s) - n
<1> DEFINE I == (n + 1)..Len(s)
           T == {s[i] : i \in I}
           f == [i \in I |-> s[i]]
<1>1. Len(s) \in Nat /\ n + 1 \in Int /\ Len(s) \in Int
  OBVIOUS
<1>2. IsFiniteSet(I) /\ Cardinality(I) = IF n + 1 > Len(s) THEN 0 ELSE Len(s) - (n + 1) + 1
  BY <1>1, FS_Interval
<1>3. Cardinality(I) = Len(s) - n
  BY <1>1, <1>2
<1>4. f \in Surjection(I, T)
  BY DEF Surjection
<1> HIDE DEF f, I
<1>5. IsFiniteSet(T) /\ Cardinality(T) <= Cardinality(I)
  BY <1>2, <1>4, FS_Surjection
<1> QED
  BY <1>3, <1>5 DEF I

(* What the policy lists to remove leaves no more than the maximum.         *)
LEMMA ListedSurplus ==
  ASSUME WebKnown, DatesThere, NEW t \in ToSet(Tables), NEW n \in ToRemove(t),
         NEW gone, gone = SubSeq(Listed(t), 1, n)
  PROVE  /\ gone \in Seq(Rows) /\ ToSet(gone) \subseteq InTableOf(t) /\ n \in Nat
         /\ (gone = <<>> <=> n = 0)
         /\ Cardinality(InTableOf(t) \ ToSet(gone)) <= Keep[t]
<1> DEFINE l == Listed(t)
           m == Len(l)
<1>1. /\ l \in Seq(Rows) /\ ToSet(l) = InTableOf(t) /\ m \in Nat
      /\ IsFiniteSet(InTableOf(t)) /\ Keep[t] \in Nat
  BY ListedRows, WebAssumption
<1>2. n \in Nat /\ n <= m /\ m - n <= Keep[t]
  <2>1. Surplus(t) = IF m > Keep[t] THEN m - Keep[t] ELSE 0
    BY DEF Surplus
  <2>2. n \in Surplus(t)..m
    <3>1. Surplus(t) \in Nat /\ Surplus(t) <= m
      BY <1>1, <2>1
    <3> QED
      BY <1>1, <3>1 DEF ToRemove
  <2> QED
    BY <1>1, <2>1, <2>2
<1> HIDE DEF l
<1>3. gone = SubSeq(l, 1, n)
  BY DEF l
<1>4. gone \in Seq(Rows) /\ Len(gone) = n /\ DOMAIN gone = 1..n /\ \A i \in 1..n : gone[i] = l[i]
  BY <1>1, <1>2, <1>3
<1>5. ToSet(l) = {l[i] : i \in 1..m} /\ ToSet(gone) = {gone[i] : i \in 1..n}
  <2>1. DOMAIN l = 1..m
    BY <1>1
  <2>2. ToSet(l) = {l[i] : i \in 1..m}
    BY <2>1 DEF ToSet
  <2>3. ToSet(gone) = {gone[i] : i \in 1..n}
    BY <1>4 DEF ToSet
  <2> QED
    BY <2>2, <2>3
<1>6. ToSet(gone) \subseteq InTableOf(t)
  BY <1>1, <1>2, <1>4, <1>5
<1> DEFINE T == {l[i] : i \in (n + 1)..m}
<1>7. IsFiniteSet(T) /\ Cardinality(T) <= m - n
  BY <1>1, <1>2, NoMoreThanPlaces
<1>8. InTableOf(t) \ ToSet(gone) \in SUBSET T
  <2> SUFFICES ASSUME NEW r \in InTableOf(t), r \notin ToSet(gone) PROVE r \in T
    OBVIOUS
  <2>1. PICK i \in 1..m : r = l[i]
    BY <1>1, <1>5
  <2>2. i \notin 1..n
    BY <1>4, <1>5, <2>1
  <2>3. i \in (n + 1)..m
    BY <1>1, <1>2, <2>1, <2>2
  <2> QED
    BY <2>1, <2>3
<1> DEFINE left == Cardinality(InTableOf(t) \ ToSet(gone))
<1>9. left <= Cardinality(T) /\ left \in Nat /\ Cardinality(T) \in Nat
  <2>1. IsFiniteSet(InTableOf(t) \ ToSet(gone)) /\ left <= Cardinality(T)
    BY <1>7, <1>8, FS_Subset
  <2> QED
    BY <1>7, <2>1, FS_CardinalityType
<1> HIDE DEF T, left
<1>10. left <= Keep[t]
  BY <1>1, <1>2, <1>7, <1>9
<1>11. gone = <<>> <=> n = 0
  <2>1. gone \in Seq(Rows) /\ Len(gone) = n
    BY <1>4
  <2>2. (gone = <<>>) <=> (Len(gone) = 0)
    BY <2>1, NoPlaces
  <2> QED
    BY <2>1, <2>2
<1>12. Cardinality(InTableOf(t) \ ToSet(gone)) <= Keep[t]
  BY <1>10 DEF left
<1> QED
  BY <1>2, <1>4, <1>6, <1>11, <1>12

-----------------------------------------------------------------------------
(* The steps.                                                               *)

(* Only one call moves at a time.                                           *)
Alone(c) ==
  \A d \in WebCalls : d # c =>
    /\ webPc'[d] = webPc[d] /\ row'[d] = row[d] /\ sweepAt'[d] = sweepAt[d]
    /\ doomed'[d] = doomed[d] /\ whenSwept'[d] = whenSwept[d]

(* The six steps that store a row.                                          *)
Storing(c, r, then) ==
  /\ Store(c, r, then) /\ r \in Rows
  /\ UNCHANGED <<disk, doomed, shared, strays, setbacks>>
  /\ IF r[1] = "artifact" THEN UNCHANGED dates ELSE dates' = Dated(r)
  /\ bare' = IF webPc[c] = "bridge" /\ r \notin stored THEN bare \cup {r} ELSE bare
  /\ \/ /\ webPc[c] = "insert" /\ r = row[c]
        /\ then \in IF r[1] = "crawl" THEN {"pages"} ELSE {"end"}
     \/ webPc[c] = "bridge" /\ r = row[c] /\ then = "end"
     \/ webPc[c] = "pages" /\ r = row[c] /\ then \in {"remember", "end"}
     \/ webPc[c] = "remember" /\ r = <<"memory", c>> /\ then \in {"write", "end"}
StoresRow(c) == \E r \in Rows, then \in {"end", "pages", "remember", "write"} : Storing(c, r, then)

(* Each of the six is such a step.                                          *)
LEMMA StepsStore ==
  ASSUME WebKnown, \A d \in WebCalls : Life(d), NEW c \in WebCalls,
         StoreArtifact(c) \/ StoreState(c) \/ StoreJob(c) \/ Restored(c) \/ Crawled(c) \/ Remember(c)
  PROVE  StoresRow(c)
<1>0. row[c] \in Rows /\ Life(c) /\ row \in [WebCalls -> Rows]
  BY DEF WebKnown, WebTypeOK
<1>1. CASE StoreArtifact(c)
  <2>1. Storing(c, row[c], "end")
    BY <1>0, <1>1 DEF StoreArtifact, Storing
  <2> QED
    BY <1>0, <2>1 DEF StoresRow
<1>2. CASE StoreState(c)
  <2>1. Storing(c, row[c], "end")
    BY <1>0, <1>2 DEF StoreState, Storing
  <2> QED
    BY <1>0, <2>1 DEF StoresRow
<1>3. CASE StoreJob(c)
  <2> DEFINE then == IF row[c][1] = "crawl" THEN "pages" ELSE "end"
  <2>1. Storing(c, row[c], then)
    BY <1>0, <1>3 DEF StoreJob, Storing
  <2> QED
    BY <1>0, <2>1 DEF StoresRow
<1>4. CASE Restored(c)
  <2>1. row[c][1] # "artifact"
    BY <1>0, <1>4 DEF Life, Capturing, Restored
  <2>2. Storing(c, row[c], "end")
    BY <1>0, <1>4, <2>1 DEF Restored, Storing
  <2> QED
    BY <1>0, <2>2 DEF StoresRow
<1>5. CASE Crawled(c)
  <2>1. row[c][1] # "artifact"
    BY <1>0, <1>5 DEF Life, Capturing, Crawled
  <2>2. PICK then \in {"remember", "end"} : Store(c, row[c], then)
    BY <1>5 DEF Crawled
  <2>3. Storing(c, row[c], then)
    BY <1>0, <1>5, <2>1, <2>2 DEF Crawled, Storing
  <2> QED
    BY <1>0, <2>2, <2>3 DEF StoresRow
<1>6. CASE Remember(c)
  <2>1. <<"memory", c>> \in Rows
    BY TablesAre DEF Rows
  <2>2. PICK then \in {"write", "end"} : Store(c, <<"memory", c>>, then)
    BY <1>6 DEF Remember
  <2>3. Storing(c, <<"memory", c>>, then)
    BY <1>6, <2>1, <2>2 DEF Remember, Storing
  <2> QED
    BY <2>1, <2>2, <2>3 DEF StoresRow
<1> QED
  BY <1>1, <1>2, <1>3, <1>4, <1>5, <1>6

(* The latest state is a state that is stored.                              *)
LEMMA LatestState ==
  ASSUME WebKnown, DatesThere, Listed("state") # <<>>
  PROVE  /\ Last(Listed("state")) \in stored /\ Last(Listed("state")) \in Rows
         /\ Last(Listed("state"))[1] = "state"
<1> DEFINE l == Listed("state")
<1>1. l \in Seq(Rows) /\ ToSet(l) = InTableOf("state")
  BY ListedRows
<1>2. Len(l) \in Nat /\ Len(l) # 0
  BY <1>1, NoPlaces
<1>3. Len(l) \in DOMAIN l /\ l[Len(l)] \in Rows
  BY <1>1, <1>2
<1>4. l[Len(l)] \in ToSet(l)
  BY <1>3 DEF ToSet
<1>5. Last(l) = l[Len(l)]
  BY DEF Last
<1> QED
  BY <1>1, <1>3, <1>4, <1>5 DEF InTableOf

(* A row is stored.                                                         *)
LEMMA StoreKept ==
  ASSUME WebKnown, NEW c \in WebCalls, NEW r \in Rows,
         NEW then \in {"end", "pages", "remember", "write"}, Storing(c, r, then)
  PROVE  WebKnown' /\ Alone(c) /\ webPc'[c] = "list" /\ row'[c] = r /\ whenSwept'[c] = then /\ sweepAt'[c] = 1
<1>1. /\ WebGoto(c, "list") /\ row' = [row EXCEPT ![c] = r] /\ whenSwept' = [whenSwept EXCEPT ![c] = then]
      /\ sweepAt' = [sweepAt EXCEPT ![c] = 1] /\ stored' = stored \cup {r}
      /\ UNCHANGED <<disk, doomed, shared, strays, setbacks>>
      /\ dates' \in {dates, Dated(r)}
  BY DEF Storing, Store
<1>2. /\ row \in [WebCalls -> Rows] /\ whenSwept \in [WebCalls -> {"end", "pages", "remember", "write"}]
      /\ sweepAt \in [WebCalls -> DOMAIN Tables] /\ dates \in Seq(Rows) /\ IsInjective(dates)
      /\ doomed \in [WebCalls -> Seq(Rows)] /\ stored \subseteq Rows
  BY DEF WebKnown, WebTypeOK
<1>3. "list" \in WebPcs /\ 1 \in DOMAIN Tables
  BY TablesAre DEF WebPcs
<1>4. /\ webPc' \in [WebCalls -> WebPcs] /\ webPc'[c] = "list" /\ IsFiniteSet(AtWork')
      /\ \A d \in WebCalls : d # c => webPc'[d] = webPc[d]
  BY <1>1, <1>3, GotoKept
<1>5. /\ row' \in [WebCalls -> Rows] /\ whenSwept' \in [WebCalls -> {"end", "pages", "remember", "write"}]
      /\ sweepAt' \in [WebCalls -> DOMAIN Tables]
      /\ row'[c] = r /\ whenSwept'[c] = then /\ sweepAt'[c] = 1
      /\ \A d \in WebCalls : d # c =>
           row'[d] = row[d] /\ whenSwept'[d] = whenSwept[d] /\ sweepAt'[d] = sweepAt[d]
  BY <1>1, <1>2, <1>3
<1>6. dates' \in Seq(Rows) /\ IsInjective(dates')
  BY <1>1, <1>2, DatedKept
<1>7. stored' \subseteq Rows /\ bare' \subseteq Rows
  <2>1. bare \subseteq Rows
    BY DEF WebKnown, WebTypeOK
  <2>2. bare' \in {bare, bare \cup {r}}
    BY DEF Storing
  <2> QED
    BY <1>1, <1>2, <2>1, <2>2
<1>8. /\ disk' \subseteq Files /\ shared' \cup strays' \subseteq Files /\ setbacks' \in 0..MaxSetbacks
      /\ doomed' \in [WebCalls -> Seq(Rows)]
  BY <1>1, <1>2 DEF WebKnown, WebTypeOK
<1>9. WebKnown'
  BY <1>4, <1>5, <1>6, <1>7, <1>8 DEF WebKnown, WebTypeOK
<1> QED
  BY <1>1, <1>4, <1>5, <1>9 DEF Alone

(* A call begins.                                                           *)
LEMMA BeginKept ==
  ASSUME WebKnown, DatesThere, NEW c \in WebCalls, Begin(c)
  PROVE  /\ WebKnown' /\ Alone(c) /\ webPc[c] = "idle"
         /\ UNCHANGED <<stored, disk, sweepAt, doomed, whenSwept, shared, strays, bare, setbacks>>
         /\ \/ /\ WebTool[c] \in (Capturing \ {"start"}) \cup {"persist"}
               /\ webPc'[c] = "write" /\ row'[c] = row[c] /\ dates' = dates
            \/ /\ WebTool[c] = "start"
               /\ webPc'[c] = "write" /\ row'[c] = row[c] /\ dates' = Dated(row[c])
            \/ /\ WebTool[c] = "restore" /\ dates' = dates
               /\ \/ webPc'[c] = "end" /\ row'[c] = row[c]
                  \/ webPc'[c] = "read" /\ row'[c] \in stored /\ row'[c][1] = "state"
            \/ /\ WebTool[c] = "crawl"
               /\ webPc'[c] = "insert" /\ row'[c] = row[c] /\ dates' = dates
            \/ /\ WebTool[c] = "watch"
               /\ webPc'[c] \in {"insert", "end"} /\ row'[c] = row[c] /\ dates' = dates
<1>1. /\ row \in [WebCalls -> Rows] /\ dates \in Seq(Rows) /\ IsInjective(dates)
      /\ doomed \in [WebCalls -> Seq(Rows)]
  BY DEF WebKnown, WebTypeOK
<1>2. ASSUME NEW pc \in {"write", "insert", "read", "end"}, StartCall(c, pc), row' \in [WebCalls -> Rows],
             dates' \in Seq(Rows), IsInjective(dates'),
             \A d \in WebCalls : d # c => row'[d] = row[d]
      PROVE  /\ WebKnown' /\ Alone(c) /\ webPc[c] = "idle" /\ webPc'[c] = pc
             /\ UNCHANGED <<stored, disk, sweepAt, doomed, whenSwept, shared, strays, bare, setbacks>>
  <2>1. pc \in WebPcs
    BY <1>2 DEF WebPcs
  <2>2. /\ WebGoto(c, pc) /\ webPc[c] = "idle"
        /\ UNCHANGED <<stored, disk, sweepAt, doomed, whenSwept, shared, strays, bare, setbacks>>
    BY <1>2 DEF StartCall
  <2>3. /\ webPc' \in [WebCalls -> WebPcs] /\ webPc'[c] = pc /\ IsFiniteSet(AtWork')
        /\ \A d \in WebCalls : d # c => webPc'[d] = webPc[d]
    BY <2>1, <2>2, GotoKept
  <2>4. WebKnown'
    BY <1>1, <1>2, <2>2, <2>3 DEF WebKnown, WebTypeOK
  <2> QED
    BY <1>2, <2>2, <2>3, <2>4 DEF Alone
<1>3. CASE BeginCapture(c) \/ BeginPersist(c)
  <2>1. StartCall(c, "write") /\ UNCHANGED <<dates, row>>
    BY <1>3 DEF BeginCapture, BeginPersist
  <2>2. WebTool[c] \in (Capturing \ {"start"}) \cup {"persist"}
    BY <1>3 DEF BeginCapture, BeginPersist
  <2> QED
    BY <1>1, <1>2, <2>1, <2>2
<1>4. CASE BeginStart(c)
  <2>1. StartCall(c, "write") /\ dates' = Dated(row[c]) /\ UNCHANGED row /\ WebTool[c] = "start"
    BY <1>4 DEF BeginStart
  <2>2. row[c] \in Rows
    BY <1>1
  <2>3. dates' \in Seq(Rows) /\ IsInjective(dates')
    BY <2>1, <2>2, DatedKept
  <2> QED
    BY <1>1, <1>2, <2>1, <2>3
<1>5. CASE BeginRestore(c)
  <2>1. WebTool[c] = "restore" /\ UNCHANGED dates
    BY <1>5 DEF BeginRestore
  <2>2. CASE Listed("state") = <<>>
    <3>1. StartCall(c, "end") /\ UNCHANGED row
      BY <1>5, <2>2 DEF BeginRestore
    <3> QED
      BY <1>1, <1>2, <2>1, <3>1
  <2>3. CASE Listed("state") # <<>>
    <3> DEFINE r == Last(Listed("state"))
    <3>1. StartCall(c, "read") /\ row' = [row EXCEPT ![c] = r]
      BY <1>5, <2>3 DEF BeginRestore
    <3>2. r \in stored /\ r \in Rows /\ r[1] = "state"
      BY <2>3, LatestState
    <3> HIDE DEF r
    <3>3. row' \in [WebCalls -> Rows] /\ row'[c] = r /\ \A d \in WebCalls : d # c => row'[d] = row[d]
      BY <1>1, <3>1, <3>2
    <3> QED
      BY <1>1, <1>2, <2>1, <3>1, <3>2, <3>3
  <2> QED
    BY <2>2, <2>3
<1>6. CASE BeginCrawl(c)
  <2>1. StartCall(c, "insert") /\ UNCHANGED <<dates, row>> /\ WebTool[c] = "crawl"
    BY <1>6 DEF BeginCrawl
  <2> QED
    BY <1>1, <1>2, <2>1
<1>7. CASE BeginWatch(c)
  <2>1. /\ StartCall(c, "insert") \/ StartCall(c, "end")
        /\ UNCHANGED <<dates, row>> /\ WebTool[c] = "watch"
    BY <1>7 DEF BeginWatch
  <2> QED
    BY <1>1, <1>2, <2>1
<1> QED
  BY <1>3, <1>4, <1>5, <1>6, <1>7 DEF Begin

(* A file is written.                                                       *)
LEMMA PutKept ==
  ASSUME WebKnown, NEW c \in WebCalls, PutFile(c)
  PROVE  /\ disk' = disk \cup {FileOf[c]} /\ disk' \subseteq Files
         /\ shared \subseteq shared' /\ shared' \subseteq shared \cup {FileOf[c]}
         /\ shared' \cup strays \subseteq Files
         /\ \A d \in WebCalls \ {c} : FileOf[d] = FileOf[c] /\ webPc[d] # "idle" => FileOf[c] \in shared'
<1>1. disk \subseteq Files /\ shared \cup strays \subseteq Files /\ FileOf[c] \in Files
  BY DEF WebKnown, WebTypeOK, Files
<1> QED
  BY <1>1 DEF PutFile

(* A call writes its file.                                                  *)
LEMMA WriteKept ==
  ASSUME WebKnown, NEW c \in WebCalls, Write(c)
  PROVE  /\ WebKnown' /\ Alone(c) /\ webPc[c] = "write" /\ PutFile(c)
         /\ webPc'[c] = IF WebTool[c] \in {"start", "persist"} THEN "insert" ELSE "check"
         /\ row'[c] = IF WebTool[c] = "crawl" THEN <<"artifact", c>> ELSE row[c]
         /\ UNCHANGED <<stored, dates, sweepAt, doomed, whenSwept, strays, bare, setbacks>>
<1> DEFINE pc == IF WebTool[c] \in {"start", "persist"} THEN "insert" ELSE "check"
<1>1. row \in [WebCalls -> Rows]
  BY DEF WebKnown, WebTypeOK
<1>2. /\ webPc[c] = "write" /\ PutFile(c) /\ WebGoto(c, pc)
      /\ row' = IF WebTool[c] = "crawl" THEN [row EXCEPT ![c] = <<"artifact", c>>] ELSE row
      /\ UNCHANGED <<stored, dates, sweepAt, doomed, whenSwept, strays, bare, setbacks>>
  BY DEF Write
<1>3. <<"artifact", c>> \in Rows /\ pc \in WebPcs
  BY TablesAre DEF Rows, WebPcs
<1> HIDE DEF pc
<1>4. /\ webPc' \in [WebCalls -> WebPcs] /\ webPc'[c] = pc /\ IsFiniteSet(AtWork')
      /\ \A d \in WebCalls : d # c => webPc'[d] = webPc[d]
  BY <1>2, <1>3, GotoKept
<1>5. /\ row' \in [WebCalls -> Rows]
      /\ row'[c] = IF WebTool[c] = "crawl" THEN <<"artifact", c>> ELSE row[c]
      /\ \A d \in WebCalls : d # c => row'[d] = row[d]
  <2>1. CASE WebTool[c] = "crawl"
    BY <1>1, <1>2, <1>3, <2>1
  <2>2. CASE WebTool[c] # "crawl"
    BY <1>1, <1>2, <2>2
  <2> QED
    BY <2>1, <2>2
<1>6. disk' \subseteq Files /\ shared' \cup strays \subseteq Files
  BY <1>2, PutKept
<1>7. WebKnown'
  BY <1>2, <1>4, <1>5, <1>6 DEF WebKnown, WebTypeOK
<1> QED
  BY <1>2, <1>4, <1>5, <1>7 DEF Alone, pc

(* A file is checked, or the file of a state read.                          *)
LEMMA CheckKept ==
  ASSUME WebKnown, NEW c \in WebCalls, Check(c) \/ ReadState(c)
  PROVE  /\ WebKnown' /\ Alone(c) /\ row' = row
         /\ \/ webPc[c] = "check" /\ webPc'[c] = "insert" /\ dates' = Dated(row[c])
            \/ webPc[c] = "read" /\ webPc'[c] \in {"bridge", "end"} /\ dates' = dates
         /\ UNCHANGED <<stored, disk, row, sweepAt, doomed, whenSwept, shared, strays, bare, setbacks>>
<1>1. row[c] \in Rows /\ dates \in Seq(Rows) /\ IsInjective(dates)
  BY DEF WebKnown, WebTypeOK
<1>2. PICK pc \in WebPcs :
        /\ WebGoto(c, pc)
        /\ \/ webPc[c] = "check" /\ pc = "insert" /\ dates' = Dated(row[c])
           \/ webPc[c] = "read" /\ pc \in {"bridge", "end"} /\ dates' = dates
  <2>1. {"insert", "bridge", "end"} \subseteq WebPcs
    BY DEF WebPcs
  <2> QED
    BY <2>1 DEF Check, ReadState
<1>3. UNCHANGED <<stored, disk, row, sweepAt, doomed, whenSwept, shared, strays, bare, setbacks>>
  BY DEF Check, ReadState
<1>4. /\ webPc' \in [WebCalls -> WebPcs] /\ webPc'[c] = pc /\ IsFiniteSet(AtWork')
      /\ \A d \in WebCalls : d # c => webPc'[d] = webPc[d]
  BY <1>2, GotoKept
<1>5. dates' \in Seq(Rows) /\ IsInjective(dates')
  BY <1>1, <1>2, DatedKept
<1>6. WebKnown'
  BY <1>3, <1>4, <1>5 DEF WebKnown, WebTypeOK
<1> QED
  BY <1>2, <1>3, <1>4, <1>6 DEF Alone

(* The policy goes on to the next table, or is through.                     *)
LEMMA ProceedKept ==
  ASSUME WebKnown, NEW c \in WebCalls, Proceed(c)
  PROVE  /\ webPc' \in [WebCalls -> WebPcs] /\ sweepAt' \in [WebCalls -> DOMAIN Tables]
         /\ IsFiniteSet(AtWork')
         /\ \A d \in WebCalls : d # c => webPc'[d] = webPc[d] /\ sweepAt'[d] = sweepAt[d]
         /\ \/ webPc'[c] = "list" /\ sweepAt'[c] = sweepAt[c] + 1
            \/ webPc'[c] = whenSwept[c] /\ sweepAt[c] = Len(Tables)
<1>1. /\ sweepAt \in [WebCalls -> 1..5] /\ whenSwept[c] \in WebPcs /\ sweepAt[c] \in 1..5
  BY TablesAre DEF WebKnown, WebTypeOK, WebPcs
<1>2. CASE sweepAt[c] < Len(Tables)
  <2>1. WebGoto(c, "list") /\ sweepAt' = [sweepAt EXCEPT ![c] = sweepAt[c] + 1]
    BY <1>2 DEF Proceed
  <2>2. "list" \in WebPcs /\ sweepAt[c] + 1 \in 1..5
    BY <1>1, <1>2, TablesAre DEF WebPcs
  <2>3. /\ webPc' \in [WebCalls -> WebPcs] /\ webPc'[c] = "list" /\ IsFiniteSet(AtWork')
        /\ \A d \in WebCalls : d # c => webPc'[d] = webPc[d]
    BY <2>1, <2>2, GotoKept
  <2>4. /\ sweepAt' \in [WebCalls -> 1..5] /\ sweepAt'[c] = sweepAt[c] + 1
        /\ \A d \in WebCalls : d # c => sweepAt'[d] = sweepAt[d]
    BY <1>1, <2>1, <2>2
  <2> QED
    BY <2>3, <2>4, TablesAre
<1>3. CASE ~ (sweepAt[c] < Len(Tables))
  <2>1. WebGoto(c, whenSwept[c]) /\ sweepAt' = [sweepAt EXCEPT ![c] = 1]
    BY <1>3 DEF Proceed
  <2>2. sweepAt[c] = Len(Tables)
    BY <1>1, <1>3, TablesAre
  <2>3. /\ webPc' \in [WebCalls -> WebPcs] /\ webPc'[c] = whenSwept[c] /\ IsFiniteSet(AtWork')
        /\ \A d \in WebCalls : d # c => webPc'[d] = webPc[d]
    BY <1>1, <2>1, GotoKept
  <2>4. /\ sweepAt' \in [WebCalls -> 1..5]
        /\ \A d \in WebCalls : d # c => sweepAt'[d] = sweepAt[d]
    BY <1>1, <2>1
  <2> QED
    BY <2>2, <2>3, <2>4, TablesAre
<1> QED
  BY <1>2, <1>3

(* Where a call is when it has left a table.                                *)
Onward(c) ==
  \/ webPc'[c] = "list" /\ sweepAt'[c] = sweepAt[c] + 1
  \/ webPc'[c] = whenSwept[c] /\ sweepAt[c] = Len(Tables)

(* The policy lists a table.                                                *)
LEMMA ListKept ==
  ASSUME WebKnown, DatesThere, NEW c \in WebCalls, List(c)
  PROVE  LET t == Tables[sweepAt[c]] IN
         /\ WebKnown' /\ Alone(c) /\ webPc[c] = "list" /\ t \in ToSet(Tables)
         /\ ToSet(doomed'[c]) \subseteq InTableOf(t)
         /\ Cardinality(InTableOf(t) \ ToSet(doomed'[c])) <= Keep[t]
         /\ \/ doomed'[c] = <<>> /\ Onward(c)
            \/ /\ doomed'[c] # <<>> /\ sweepAt'[c] = sweepAt[c]
               /\ webPc'[c] = IF t \in {"artifact", "state"} THEN "unlink" ELSE "delete"
         /\ UNCHANGED <<stored, dates, disk, row, whenSwept, shared, strays, bare, setbacks>>
<1> DEFINE t == Tables[sweepAt[c]]
           pc == IF t \in {"artifact", "state"} THEN "unlink" ELSE "delete"
<1>1. /\ sweepAt \in [WebCalls -> DOMAIN Tables] /\ doomed \in [WebCalls -> Seq(Rows)]
      /\ sweepAt[c] \in DOMAIN Tables
  BY DEF WebKnown, WebTypeOK
<1>2. t \in ToSet(Tables)
  BY <1>1 DEF ToSet
<1>3. PICK n \in ToRemove(t) :
        /\ doomed' = [doomed EXCEPT ![c] = SubSeq(Listed(t), 1, n)]
        /\ IF n = 0 THEN Proceed(c) ELSE WebGoto(c, pc) /\ UNCHANGED sweepAt
  BY DEF List
<1>4. /\ webPc[c] = "list"
      /\ UNCHANGED <<stored, dates, disk, row, whenSwept, shared, strays, bare, setbacks>>
  BY DEF List
<1> DEFINE gone == SubSeq(Listed(t), 1, n)
<1> HIDE DEF t
<1>5. /\ gone \in Seq(Rows) /\ ToSet(gone) \subseteq InTableOf(t) /\ n \in Nat
      /\ ((gone = <<>>) <=> (n = 0))
      /\ Cardinality(InTableOf(t) \ ToSet(gone)) <= Keep[t]
  BY <1>2, ListedSurplus
<1> HIDE DEF gone
<1>6. /\ doomed' \in [WebCalls -> Seq(Rows)] /\ doomed'[c] = gone
      /\ \A d \in WebCalls : d # c => doomed'[d] = doomed[d]
  BY <1>1, <1>3, <1>5 DEF gone
<1>7. /\ webPc' \in [WebCalls -> WebPcs] /\ sweepAt' \in [WebCalls -> DOMAIN Tables]
      /\ IsFiniteSet(AtWork')
      /\ \A d \in WebCalls : d # c => webPc'[d] = webPc[d] /\ sweepAt'[d] = sweepAt[d]
      /\ \/ n = 0 /\ Onward(c)
         \/ n # 0 /\ sweepAt'[c] = sweepAt[c] /\ webPc'[c] = pc
  <2>1. CASE n = 0
    <3>1. Proceed(c)
      BY <1>3, <2>1
    <3> QED
      BY <2>1, <3>1, ProceedKept DEF Onward
  <2>2. CASE n # 0
    <3>1. WebGoto(c, pc) /\ UNCHANGED sweepAt
      BY <1>3, <2>2
    <3>2. pc \in WebPcs
      BY DEF WebPcs
    <3> HIDE DEF pc
    <3>3. /\ webPc' \in [WebCalls -> WebPcs] /\ webPc'[c] = pc /\ IsFiniteSet(AtWork')
          /\ \A d \in WebCalls : d # c => webPc'[d] = webPc[d]
      BY <3>1, <3>2, GotoKept
    <3> QED
      BY <1>1, <2>2, <3>1, <3>3
  <2> QED
    BY <2>1, <2>2
<1>8. WebKnown'
  BY <1>4, <1>6, <1>7 DEF WebKnown, WebTypeOK
<1>9. Alone(c)
  BY <1>4, <1>6, <1>7 DEF Alone
<1> QED
  BY <1>2, <1>4, <1>5, <1>6, <1>7, <1>8, <1>9 DEF t

(* A file is removed, or stays behind.                                      *)
LEMMA UnlinkKept ==
  ASSUME WebKnown, SweepShape, NEW c \in WebCalls, Unlink(c)
  PROVE  LET r == Head(doomed[c]) IN
         /\ WebKnown' /\ Alone(c) /\ webPc[c] = "unlink" /\ webPc'[c] = "delete"
         /\ r \in Rows /\ r \in ToSet(doomed[c])
         /\ \/ disk' = disk \ {File(r)} /\ strays' = strays /\ setbacks' = setbacks
            \/ disk' = disk /\ strays' = strays \cup {File(r)} /\ setbacks' = setbacks + 1
         /\ UNCHANGED <<stored, dates, row, sweepAt, doomed, whenSwept, shared, bare>>
<1> DEFINE r == Head(doomed[c])
<1>1. doomed[c] \in Seq(Rows) /\ doomed[c] # <<>>
  BY DEF WebKnown, SweepShape, Removing, Unlink
<1>2. r = doomed[c][1] /\ 1 \in DOMAIN doomed[c] /\ r \in Rows
  BY <1>1
<1>3. r \in ToSet(doomed[c])
  BY <1>2 DEF ToSet
<1> HIDE DEF r
<1>4. /\ webPc[c] = "unlink" /\ WebGoto(c, "delete")
      /\ UNCHANGED <<stored, dates, row, sweepAt, doomed, whenSwept, shared, bare>>
      /\ \/ disk' = disk \ {File(r)} /\ strays' = strays /\ setbacks' = setbacks
         \/ /\ setbacks < MaxSetbacks
            /\ disk' = disk /\ strays' = strays \cup {File(r)} /\ setbacks' = setbacks + 1
  BY DEF Unlink, RemoveFile, r
<1>5. "delete" \in WebPcs
  BY DEF WebPcs
<1>6. /\ webPc' \in [WebCalls -> WebPcs] /\ webPc'[c] = "delete" /\ IsFiniteSet(AtWork')
      /\ \A d \in WebCalls : d # c => webPc'[d] = webPc[d]
  BY <1>4, <1>5, GotoKept
<1>7. File(r) \in Files
  BY <1>2, TablesAre DEF File, Files, Rows
<1>8. setbacks' \in 0..MaxSetbacks
  BY <1>4, WebAssumption DEF WebKnown, WebTypeOK
<1>9. disk' \subseteq Files /\ shared' \cup strays' \subseteq Files
  BY <1>4, <1>7 DEF WebKnown, WebTypeOK
<1>10. WebKnown'
  BY <1>4, <1>6, <1>8, <1>9 DEF WebKnown, WebTypeOK
<1> QED
  BY <1>2, <1>3, <1>4, <1>6, <1>10 DEF Alone, r

(* A row is removed.                                                        *)
LEMMA DeleteKept ==
  ASSUME WebKnown, SweepShape, NEW c \in WebCalls, Delete(c)
  PROVE  LET r == Head(doomed[c]) IN
         /\ WebKnown' /\ Alone(c) /\ webPc[c] = "delete"
         /\ r \in Rows /\ ToSet(doomed[c]) = {r} \cup ToSet(doomed'[c])
         /\ stored' = stored \ {r} /\ ToSet(dates') = ToSet(dates) \ {r}
         /\ \/ doomed'[c] = <<>> /\ Onward(c)
            \/ /\ doomed'[c] # <<>> /\ sweepAt'[c] = sweepAt[c]
               /\ webPc'[c] = IF Filed(r) THEN "unlink" ELSE "delete"
         /\ UNCHANGED <<disk, row, whenSwept, shared, strays, bare, setbacks>>
<1> DEFINE r == Head(doomed[c])
           pc == IF Filed(r) THEN "unlink" ELSE "delete"
           s == doomed[c]
<1>1. s \in Seq(Rows) /\ s # <<>> /\ doomed \in [WebCalls -> Seq(Rows)]
  BY DEF WebKnown, SweepShape, Removing, Delete
<1>2. /\ Len(s) \in Nat \ {0} /\ r = s[1] /\ r \in Rows /\ DOMAIN s = 1..Len(s)
      /\ Tail(s) \in Seq(Rows) /\ Len(Tail(s)) = Len(s) - 1 /\ DOMAIN Tail(s) = 1..(Len(s) - 1)
      /\ \A i \in 1..(Len(s) - 1) : Tail(s)[i] = s[i + 1]
  BY <1>1
<1>3. ToSet(s) = {r} \cup ToSet(Tail(s))
  <2>1. ToSet(s) = {s[i] : i \in 1..Len(s)} /\ ToSet(Tail(s)) = {Tail(s)[i] : i \in 1..(Len(s) - 1)}
    BY <1>2 DEF ToSet
  <2>2. ASSUME NEW i \in 1..Len(s) PROVE s[i] \in {r} \cup ToSet(Tail(s))
    <3>1. CASE i = 1
      BY <1>2, <3>1
    <3>2. CASE i # 1
      <4>1. i - 1 \in 1..(Len(s) - 1) /\ (i - 1) + 1 = i
        BY <1>2, <3>2
      <4>2. Tail(s)[i - 1] = s[i]
        BY <1>2, <4>1
      <4> QED
        BY <2>1, <4>1, <4>2
    <3> QED
      BY <3>1, <3>2
  <2>3. ASSUME NEW i \in 1..(Len(s) - 1) PROVE Tail(s)[i] \in ToSet(s)
    <3>1. i + 1 \in 1..Len(s)
      BY <1>2
    <3> QED
      BY <1>2, <2>1, <3>1
  <2>4. r \in ToSet(s)
    <3>1. 1 \in 1..Len(s)
      BY <1>2
    <3> QED
      BY <1>2, <2>1, <3>1
  <2> QED
    BY <2>1, <2>2, <2>3, <2>4
<1>4. Tail(s) = <<>> <=> Len(s) = 1
  <2>1. (Tail(s) = <<>>) <=> (Len(Tail(s)) = 0)
    BY <1>2, NoPlaces
  <2> QED
    BY <1>2, <2>1
<1>5. /\ webPc[c] = "delete" /\ stored' = stored \ {r} /\ dates' = Kept(dates, Rows \ {r})
      /\ doomed' = [doomed EXCEPT ![c] = Tail(s)]
      /\ IF Len(s) = 1 THEN Proceed(c) ELSE WebGoto(c, pc) /\ UNCHANGED sweepAt
      /\ UNCHANGED <<disk, row, whenSwept, shared, strays, bare, setbacks>>
  BY DEF Delete
<1> HIDE DEF r, s
<1>6. /\ doomed' \in [WebCalls -> Seq(Rows)] /\ doomed'[c] = Tail(s)
      /\ \A d \in WebCalls : d # c => doomed'[d] = doomed[d]
  BY <1>1, <1>2, <1>5
<1>7. /\ webPc' \in [WebCalls -> WebPcs] /\ sweepAt' \in [WebCalls -> DOMAIN Tables]
      /\ IsFiniteSet(AtWork')
      /\ \A d \in WebCalls : d # c => webPc'[d] = webPc[d] /\ sweepAt'[d] = sweepAt[d]
      /\ \/ Len(s) = 1 /\ Onward(c)
         \/ Len(s) # 1 /\ sweepAt'[c] = sweepAt[c] /\ webPc'[c] = pc
  <2>0. sweepAt \in [WebCalls -> DOMAIN Tables]
    BY DEF WebKnown, WebTypeOK
  <2>1. CASE Len(s) = 1
    <3>1. Proceed(c)
      BY <1>5, <2>1
    <3> QED
      BY <2>1, <3>1, ProceedKept DEF Onward
  <2>2. CASE Len(s) # 1
    <3>1. WebGoto(c, pc) /\ UNCHANGED sweepAt
      BY <1>5, <2>2
    <3>2. pc \in WebPcs
      BY DEF WebPcs
    <3> HIDE DEF pc
    <3>3. /\ webPc' \in [WebCalls -> WebPcs] /\ webPc'[c] = pc /\ IsFiniteSet(AtWork')
          /\ \A d \in WebCalls : d # c => webPc'[d] = webPc[d]
      BY <3>1, <3>2, GotoKept
    <3> QED
      BY <2>0, <2>2, <3>1, <3>3
  <2> QED
    BY <2>1, <2>2
<1>8. dates' \in Seq(Rows) /\ IsInjective(dates') /\ ToSet(dates') = ToSet(dates) \ {r}
  BY <1>5, UndatedKept
<1>9. WebKnown'
  BY <1>5, <1>6, <1>7, <1>8 DEF WebKnown, WebTypeOK
<1>10. Alone(c)
  BY <1>5, <1>6, <1>7 DEF Alone
<1>11. ToSet(s) = {r} \cup ToSet(doomed'[c])
  BY <1>3, <1>6
<1> QED
  BY <1>2, <1>4, <1>5, <1>6, <1>7, <1>8, <1>9, <1>10, <1>11 DEF r, s

(* A call fails, or is given up.                                            *)
LEMMA SetbackKept ==
  ASSUME WebKnown, SweepShape, NEW c \in WebCalls, Setback(c)
  PROVE  /\ WebKnown' /\ Alone(c) /\ webPc[c] \notin {"idle", "end"} /\ doomed'[c] = <<>>
         /\ \/ webPc'[c] = "end"
            \/ Sweeping(c) /\ row[c][1] = "memory" /\ webPc'[c] = whenSwept[c]
         /\ IF webPc[c] = "write" THEN PutFile(c) ELSE UNCHANGED <<disk, shared>>
         /\ strays' = IF webPc[c] \in {"write", "check"} \/ (webPc[c] = "insert" /\ Filed(row[c]))
                      THEN strays \cup {FileOf[c]} ELSE strays
         /\ bare' = IF webPc[c] = "delete" THEN bare \cup {Head(doomed[c])} ELSE bare
         /\ setbacks' = setbacks + 1
         /\ UNCHANGED <<stored, dates, row, sweepAt, whenSwept>>
<1>1. /\ doomed \in [WebCalls -> Seq(Rows)] /\ whenSwept[c] \in WebPcs /\ bare \subseteq Rows
      /\ disk \subseteq Files /\ shared \cup strays \subseteq Files
  BY DEF WebKnown, WebTypeOK, WebPcs
<1>2. /\ webPc[c] \notin {"idle", "end"} /\ doomed' = [doomed EXCEPT ![c] = <<>>]
      /\ IF webPc[c] = "write" THEN PutFile(c) ELSE UNCHANGED <<disk, shared>>
      /\ strays' = IF webPc[c] \in {"write", "check"} \/ (webPc[c] = "insert" /\ Filed(row[c]))
                   THEN strays \cup {FileOf[c]} ELSE strays
      /\ bare' = IF webPc[c] = "delete" THEN bare \cup {Head(doomed[c])} ELSE bare
      /\ setbacks < MaxSetbacks /\ setbacks' = setbacks + 1
      /\ UNCHANGED <<stored, dates, row, sweepAt, whenSwept>>
  BY DEF Setback, AtWork
<1>3. PICK pc \in WebPcs :
        /\ WebGoto(c, pc)
        /\ \/ pc = "end"
           \/ Sweeping(c) /\ row[c][1] = "memory" /\ pc = whenSwept[c]
  <2>1. "end" \in WebPcs
    BY DEF WebPcs
  <2>2. \/ WebGoto(c, "end")
        \/ Sweeping(c) /\ row[c][1] = "memory" /\ WebGoto(c, whenSwept[c])
    BY DEF Setback
  <2> QED
    BY <1>1, <2>1, <2>2
<1>4. /\ webPc' \in [WebCalls -> WebPcs] /\ webPc'[c] = pc /\ IsFiniteSet(AtWork')
      /\ \A d \in WebCalls : d # c => webPc'[d] = webPc[d]
  BY <1>3, GotoKept
<1>5. /\ doomed' \in [WebCalls -> Seq(Rows)] /\ doomed'[c] = <<>>
      /\ \A d \in WebCalls : d # c => doomed'[d] = doomed[d]
  <2>1. <<>> \in Seq(Rows)
    OBVIOUS
  <2> QED
    BY <1>1, <1>2, <2>1
<1>6. bare' \subseteq Rows
  <2>1. CASE webPc[c] = "delete"
    <3>1. doomed[c] \in Seq(Rows) /\ doomed[c] # <<>>
      BY <1>1, <2>1 DEF SweepShape, Removing
    <3>2. Head(doomed[c]) \in Rows
      BY <3>1
    <3> QED
      BY <1>1, <1>2, <2>1, <3>2
  <2>2. CASE webPc[c] # "delete"
    BY <1>1, <1>2, <2>2
  <2> QED
    BY <2>1, <2>2
<1>7. disk' \subseteq Files /\ shared' \cup strays' \subseteq Files
  <2>1. FileOf[c] \in Files
    BY DEF Files
  <2>2. strays' \subseteq Files
    BY <1>1, <1>2, <2>1
  <2>3. disk' \subseteq Files /\ shared' \subseteq Files
    <3>1. CASE webPc[c] = "write"
      BY <1>2, <3>1, PutKept
    <3>2. CASE webPc[c] # "write"
      BY <1>1, <1>2, <3>2
    <3> QED
      BY <3>1, <3>2
  <2> QED
    BY <2>2, <2>3
<1>8. setbacks' \in 0..MaxSetbacks
  BY <1>2, WebAssumption DEF WebKnown, WebTypeOK
<1>9. WebKnown'
  BY <1>2, <1>4, <1>5, <1>6, <1>7, <1>8 DEF WebKnown, WebTypeOK
<1>10. Alone(c)
  BY <1>2, <1>4, <1>5 DEF Alone
<1> QED
  BY <1>2, <1>3, <1>4, <1>5, <1>9, <1>10

-----------------------------------------------------------------------------
(* Every step keeps the types and moves one call.                           *)
LEMMA WebTypesKept ==
  ASSUME WebKnown, \A d \in WebCalls : Life(d), SweepShape, DatesThere,
         NEW c \in WebCalls, Begin(c) \/ WebStep(c) \/ Setback(c)
  PROVE  WebKnown' /\ Alone(c)
<1>1. CASE Begin(c)
  BY <1>1, BeginKept
<1>2. CASE Write(c)
  BY <1>2, WriteKept
<1>3. CASE Check(c) \/ ReadState(c)
  BY <1>3, CheckKept
<1>4. CASE StoresRow(c)
  BY <1>4, StoreKept DEF StoresRow
<1>5. CASE List(c)
  BY <1>5, ListKept
<1>6. CASE Unlink(c)
  BY <1>6, UnlinkKept
<1>7. CASE Delete(c)
  BY <1>7, DeleteKept
<1>8. CASE Setback(c)
  BY <1>8, SetbackKept
<1> QED
  BY <1>1, <1>2, <1>3, <1>4, <1>5, <1>6, <1>7, <1>8, StepsStore DEF WebStep

(* Every step is one of these.                                              *)
LEMMA WebSteps ==
  ASSUME WebKnown, \A d \in WebCalls : Life(d), NEW c \in WebCalls,
         Begin(c) \/ WebStep(c) \/ Setback(c)
  PROVE  \/ Begin(c) \/ Write(c) \/ Check(c) \/ ReadState(c) \/ StoresRow(c)
         \/ List(c) \/ Unlink(c) \/ Delete(c) \/ Setback(c)
BY StepsStore DEF WebStep

(* A call of a tool goes through what such a call goes through.             *)
LEMMA LivesKept ==
  ASSUME WebInv, NEW c \in WebCalls, Begin(c) \/ WebStep(c) \/ Setback(c)
  PROVE  \A d \in WebCalls : Life(d)'
<1> USE DEF WebInv
<1>1. Alone(c) /\ WebKnown
  BY WebTypesKept
<1>2. ASSUME NEW d \in WebCalls, d # c PROVE Life(d)'
  <2>1. /\ webPc'[d] = webPc[d] /\ row'[d] = row[d] /\ whenSwept'[d] = whenSwept[d] /\ Life(d)
    BY <1>1, <1>2 DEF Alone
  <2> QED
    BY <2>1 DEF Life, Sweeping
<1>3. Life(c)
  OBVIOUS
<1>4. WebTool[c] \in Capturing \cup {"persist", "restore", "crawl", "watch"}
  BY WebAssumption
<1>5. Life(c)'
  <2>1. CASE Begin(c)
    <3>1. /\ webPc[c] = "idle" /\ whenSwept'[c] = whenSwept[c]
          /\ \/ /\ WebTool[c] \in (Capturing \ {"start"}) \cup {"persist"}
                /\ webPc'[c] = "write" /\ row'[c] = row[c]
             \/ /\ WebTool[c] = "start"
                /\ webPc'[c] = "write" /\ row'[c] = row[c]
             \/ /\ WebTool[c] = "restore"
                /\ \/ webPc'[c] = "end" /\ row'[c] = row[c]
                   \/ webPc'[c] = "read" /\ row'[c][1] = "state"
             \/ /\ WebTool[c] = "crawl"
                /\ webPc'[c] = "insert" /\ row'[c] = row[c]
             \/ /\ WebTool[c] = "watch"
                /\ webPc'[c] \in {"insert", "end"} /\ row'[c] = row[c]
      BY <2>1, BeginKept
    <3> QED
      BY <1>3, <3>1 DEF Life, Capturing, Sweeping
  <2>2. CASE Write(c)
    <3>1. /\ webPc[c] = "write" /\ whenSwept'[c] = whenSwept[c]
          /\ webPc'[c] = IF WebTool[c] \in {"start", "persist"} THEN "insert" ELSE "check"
          /\ row'[c] = IF WebTool[c] = "crawl" THEN <<"artifact", c>> ELSE row[c]
      BY <2>2, WriteKept
    <3> QED
      BY <1>3, <3>1 DEF Life, Capturing, Sweeping
  <2>3. CASE Check(c) \/ ReadState(c)
    <3>1. /\ whenSwept'[c] = whenSwept[c] /\ row'[c] = row[c]
          /\ \/ webPc[c] = "check" /\ webPc'[c] = "insert"
             \/ webPc[c] = "read" /\ webPc'[c] \in {"bridge", "end"}
      BY <2>3, CheckKept
    <3> QED
      BY <1>3, <3>1 DEF Life, Capturing, Sweeping
  <2>4. CASE StoresRow(c)
    <3>1. PICK r \in Rows, then \in {"end", "pages", "remember", "write"} : Storing(c, r, then)
      BY <2>4 DEF StoresRow
    <3>2. webPc'[c] = "list" /\ row'[c] = r /\ whenSwept'[c] = then
      BY <3>1, StoreKept
    <3>3. \/ /\ webPc[c] = "insert" /\ r = row[c]
             /\ then \in IF r[1] = "crawl" THEN {"pages"} ELSE {"end"}
          \/ webPc[c] = "bridge" /\ r = row[c] /\ then = "end"
          \/ webPc[c] = "pages" /\ r = row[c] /\ then \in {"remember", "end"}
          \/ webPc[c] = "remember" /\ r = <<"memory", c>> /\ then \in {"write", "end"}
      BY <3>1 DEF Storing
    <3>5. CASE webPc[c] = "insert"
      <4>1. /\ webPc'[c] = "list" /\ row'[c] = row[c]
            /\ whenSwept'[c] = IF row[c][1] = "crawl" THEN "pages" ELSE "end"
        BY <3>2, <3>3, <3>5
      <4>2. CASE WebTool[c] = "crawl"
        BY <1>3, <3>5, <4>1, <4>2 DEF Life, Capturing, Sweeping
      <4>3. CASE WebTool[c] # "crawl"
        BY <1>3, <3>5, <4>1, <4>3 DEF Life, Capturing, Sweeping
      <4> QED
        BY <4>2, <4>3
    <3>6. CASE webPc[c] = "bridge"
      BY <1>3, <3>2, <3>3, <3>6 DEF Life, Capturing, Sweeping
    <3>7. CASE webPc[c] = "pages"
      BY <1>3, <3>2, <3>3, <3>7 DEF Life, Capturing, Sweeping
    <3>8. CASE webPc[c] = "remember"
      BY <1>3, <3>2, <3>3, <3>8 DEF Life, Capturing, Sweeping
    <3> QED
      BY <3>3, <3>5, <3>6, <3>7, <3>8
  <2>5. CASE List(c) \/ Unlink(c) \/ Delete(c)
    <3>1. /\ Sweeping(c) /\ whenSwept'[c] = whenSwept[c] /\ row'[c] = row[c]
          /\ webPc'[c] \in {"list", "unlink", "delete", whenSwept[c]}
      BY <2>5, ListKept, UnlinkKept, DeleteKept DEF Sweeping, Onward
    <3> QED
      BY <1>3, <3>1 DEF Life, Capturing, Sweeping
  <2>6. CASE Setback(c)
    <3>1. /\ webPc[c] # "idle" /\ row'[c] = row[c] /\ whenSwept'[c] = whenSwept[c]
          /\ \/ webPc'[c] = "end"
             \/ Sweeping(c) /\ row[c][1] = "memory" /\ webPc'[c] = whenSwept[c]
      BY <2>6, SetbackKept
    <3> QED
      BY <1>3, <3>1 DEF Life, Capturing, Sweeping
  <2> QED
    BY <1>1, <1>3, <2>1, <2>2, <2>3, <2>4, <2>5, <2>6, WebSteps
<1> QED
  BY <1>2, <1>5

(* Where the steps lead, as far as the removal goes.                        *)
LEMMA SweepMoves ==
  ASSUME WebInv, NEW c \in WebCalls, Begin(c) \/ WebStep(c) \/ Setback(c)
  PROVE  \/ /\ Begin(c) \/ Write(c) \/ Check(c) \/ ReadState(c) \/ StoresRow(c)
            /\ ~ Removing(c) /\ ~ Removing(c)' /\ doomed'[c] = doomed[c]
         \/ List(c) \/ Unlink(c) \/ Delete(c)
         \/ Setback(c) /\ ~ Removing(c)' /\ doomed'[c] = <<>>
<1> USE DEF WebInv
<1>0. whenSwept[c] \in {"end", "pages", "remember", "write"} /\ WebKnown
  BY DEF WebKnown, WebTypeOK
<1>1. CASE Begin(c)
  BY <1>1, BeginKept DEF Removing
<1>2. CASE Write(c)
  BY <1>2, WriteKept DEF Removing
<1>3. CASE Check(c) \/ ReadState(c)
  BY <1>3, CheckKept DEF Removing
<1>4. CASE StoresRow(c)
  <2>1. PICK r \in Rows, then \in {"end", "pages", "remember", "write"} : Storing(c, r, then)
    BY <1>4 DEF StoresRow
  <2>2. webPc'[c] = "list"
    BY <2>1, StoreKept
  <2>3. webPc[c] \in {"insert", "bridge", "pages", "remember"} /\ doomed' = doomed
    BY <2>1 DEF Storing
  <2> QED
    BY <1>4, <2>2, <2>3 DEF Removing
<1>5. CASE Setback(c)
  BY <1>0, <1>5, SetbackKept DEF Removing
<1> QED
  BY <1>0, <1>1, <1>2, <1>3, <1>4, <1>5, WebSteps

(* What is to be removed is of the table the policy is at.                  *)
LEMMA SweepKept ==
  ASSUME WebInv, NEW c \in WebCalls, Begin(c) \/ WebStep(c) \/ Setback(c)
  PROVE  SweepShape'
<1> USE DEF WebInv
<1>1. Alone(c) /\ WebKnown /\ SweepShape
  BY WebTypesKept
<1>2. ASSUME NEW d \in WebCalls, d # c
      PROVE  /\ Removing(d)' => doomed'[d] # <<>>
             /\ ~ Removing(d)' => doomed'[d] = <<>>
             /\ \A r \in ToSet(doomed'[d]) : r[1] = Tables[sweepAt'[d]]
             /\ webPc'[d] = "unlink" => Tables[sweepAt'[d]] \in {"artifact", "state"}
  <2>1. webPc'[d] = webPc[d] /\ doomed'[d] = doomed[d] /\ sweepAt'[d] = sweepAt[d]
    BY <1>1, <1>2 DEF Alone
  <2> QED
    BY <1>1, <2>1 DEF SweepShape, Removing
<1>3. /\ Removing(c)' => doomed'[c] # <<>>
      /\ ~ Removing(c)' => doomed'[c] = <<>>
      /\ \A r \in ToSet(doomed'[c]) : r[1] = Tables[sweepAt'[c]]
      /\ webPc'[c] = "unlink" => Tables[sweepAt'[c]] \in {"artifact", "state"}
  <2>0. ToSet(<<>>) = {} /\ whenSwept[c] \in {"end", "pages", "remember", "write"}
    BY DEF ToSet, WebKnown, WebTypeOK
  <2>1. CASE ~ Removing(c)' /\ doomed'[c] = <<>>
    BY <2>0, <2>1 DEF Removing
  <2>2. CASE List(c)
    <3> DEFINE t == Tables[sweepAt[c]]
    <3>1. /\ ToSet(doomed'[c]) \subseteq InTableOf(t)
          /\ \/ doomed'[c] = <<>> /\ Onward(c)
             \/ /\ doomed'[c] # <<>> /\ sweepAt'[c] = sweepAt[c]
                /\ webPc'[c] = IF t \in {"artifact", "state"} THEN "unlink" ELSE "delete"
      BY <2>2, ListKept
    <3> QED
      BY <2>0, <3>1 DEF InTableOf, Onward, Removing
  <2>3. CASE Unlink(c)
    BY <1>1, <2>3, UnlinkKept DEF SweepShape, Removing
  <2>4. CASE Delete(c)
    <3> DEFINE h == Head(doomed[c])
    <3>1. /\ ToSet(doomed[c]) = {h} \cup ToSet(doomed'[c]) /\ webPc[c] = "delete"
          /\ \/ doomed'[c] = <<>> /\ Onward(c)
             \/ /\ doomed'[c] # <<>> /\ sweepAt'[c] = sweepAt[c]
                /\ webPc'[c] = IF Filed(h) THEN "unlink" ELSE "delete"
      BY <2>4, DeleteKept
    <3> HIDE DEF h
    <3>2. h[1] = Tables[sweepAt[c]] /\ \A r \in ToSet(doomed'[c]) : r[1] = Tables[sweepAt[c]]
      BY <1>1, <3>1 DEF SweepShape
    <3> QED
      BY <2>0, <3>1, <3>2 DEF Onward, Removing, Filed
  <2> QED
    BY <1>1, <2>1, <2>2, <2>3, <2>4, SweepMoves DEF SweepShape
<1> QED
  BY <1>2, <1>3 DEF SweepShape

(* What is to be removed first.                                             *)
LEMMA HeadDoomed ==
  ASSUME WebKnown, SweepShape, NEW c \in WebCalls, Removing(c)
  PROVE  /\ Head(doomed[c]) \in Rows /\ Head(doomed[c]) \in ToSet(doomed[c])
         /\ Head(doomed[c])[1] = Tables[sweepAt[c]]
<1>1. doomed[c] \in Seq(Rows) /\ doomed[c] # <<>>
  BY DEF WebKnown, SweepShape
<1>2. Head(doomed[c]) = doomed[c][1] /\ 1 \in DOMAIN doomed[c] /\ Head(doomed[c]) \in Rows
  BY <1>1
<1>3. Head(doomed[c]) \in ToSet(doomed[c])
  BY <1>2 DEF ToSet
<1> QED
  BY <1>2, <1>3 DEF SweepShape

(* A call that makes a row of an artifact or a state makes its own.         *)
LEMMA OwnRow ==
  ASSUME WebInv, NEW c \in WebCalls, webPc[c] \in {"write", "check", "insert"}
  PROVE  /\ WebTool[c] # "restore"
         /\ Filed(row[c]) => row[c][2] = c /\ row[c] \in Rows
         /\ webPc[c] = "check" => Filed(row[c])
         /\ webPc[c] = "write" /\ WebTool[c] # "crawl" => Filed(row[c])
<1>1. Life(c) /\ row[c] \in Rows
  BY DEF WebInv, WebKnown, WebTypeOK
<1>2. <<"artifact", c>>[1] = "artifact" /\ <<"state", c>>[1] = "state" /\ <<"watch", c>>[1] = "watch"
      /\ <<"crawl", c>>[1] = "crawl" /\ <<"memory", c>>[1] = "memory"
      /\ <<"artifact", c>>[2] = c /\ <<"state", c>>[2] = c
  OBVIOUS
<1> QED
  BY <1>1, <1>2 DEF Life, Capturing, Filed

(* A row that is stored was made by a call that is through with it.         *)
LEMMA Settled ==
  ASSUME WebInv, NEW r \in Rows, Filed(r), Old(r)
  PROVE  /\ r[2] \in WebCalls /\ webPc[r[2]] \in {"list", "unlink", "delete", "end"}
         /\ row[r[2]] = r /\ WebTool[r[2]] # "restore"
         /\ whenSwept[r[2]] = "end" \/ webPc[r[2]] = "end"
<1>1. r[2] \in WebCalls
  BY DEF Rows
<1>2. /\ webPc[r[2]] \in {"list", "unlink", "delete", "end"} /\ row[r[2]] = r
      /\ WebTool[r[2]] # "restore" /\ Life(r[2])
  BY <1>1 DEF WebInv, OwnersSettled
<1>3. whenSwept[r[2]] = "end" \/ webPc[r[2]] = "end"
  BY <1>2 DEF Life, Filed, Sweeping
<1> QED
  BY <1>1, <1>2, <1>3

(* What is stored keeps its date.                                           *)
LEMMA DatesKept ==
  ASSUME WebInv, NEW c \in WebCalls, Begin(c) \/ WebStep(c) \/ Setback(c)
  PROVE  DatesThere'
<1> USE DEF WebInv
<1>1. Alone(c) /\ WebKnown /\ DatesThere /\ SweepShape /\ Life(c) /\ row \in [WebCalls -> Rows]
  BY WebTypesKept DEF WebKnown, WebTypeOK
<1>a. whenSwept[c] \in {"end", "pages", "remember", "write"}
      /\ (whenSwept[c] = "write" => WebTool[c] = "crawl" \/ ~ Sweeping(c))
  BY <1>1 DEF Life, Sweeping, WebKnown, WebTypeOK
<1>2. ASSUME stored' \subseteq ToSet(dates'),
             \A d \in WebCalls :
               d # c /\ row[d] \in ToSet(dates) /\ webPc[d] \in {"insert", "write"} /\ row[d] = <<"artifact", d>>
               => row[d] \in ToSet(dates'),
             \/ webPc'[c] = "insert" /\ row'[c][1] = "artifact"
             \/ webPc'[c] = "write" /\ WebTool[c] = "start"
             => row'[c] \in ToSet(dates')
      PROVE  DatesThere'
  <2>1. ASSUME NEW d \in WebCalls, d # c,
               \/ webPc'[d] = "insert" /\ row'[d][1] = "artifact"
               \/ webPc'[d] = "write" /\ WebTool[d] = "start"
        PROVE  row'[d] \in ToSet(dates')
    <3>1. webPc'[d] = webPc[d] /\ row'[d] = row[d]
      BY <1>1, <2>1 DEF Alone
    <3>2. row[d] \in ToSet(dates)
      BY <1>1, <2>1, <3>1 DEF DatesThere
    <3>3. row[d] = <<"artifact", d>> /\ webPc[d] \in {"insert", "write"}
      <4>1. Life(d)
        OBVIOUS
      <4> QED
        BY <2>1, <3>1, <4>1 DEF Life, Capturing
    <3> QED
      BY <1>2, <2>1, <3>1, <3>2, <3>3
  <2> QED
    BY <1>2, <2>1 DEF DatesThere
<1>3. CASE Begin(c)
  <2>1. /\ stored' = stored
        /\ \/ /\ WebTool[c] = "start" /\ row'[c] = row[c] /\ dates' = Dated(row[c])
           \/ /\ dates' = dates /\ ~ (webPc'[c] = "insert" /\ row'[c][1] = "artifact")
              /\ ~ (webPc'[c] = "write" /\ WebTool[c] = "start")
    <3>1. WebTool[c] = "crawl" /\ webPc[c] = "idle" => row[c][1] = "crawl"
      BY <1>1 DEF Life, Capturing
    <3>2. WebTool[c] = "watch" => row[c][1] = "watch"
      BY <1>1 DEF Life, Capturing
    <3>3. /\ webPc[c] = "idle" /\ stored' = stored
          /\ \/ /\ WebTool[c] \in (Capturing \ {"start"}) \cup {"persist"}
                /\ webPc'[c] = "write" /\ row'[c] = row[c] /\ dates' = dates
             \/ /\ WebTool[c] = "start"
                /\ webPc'[c] = "write" /\ row'[c] = row[c] /\ dates' = Dated(row[c])
             \/ /\ WebTool[c] = "restore" /\ dates' = dates
                /\ webPc'[c] \in {"end", "read"}
             \/ /\ WebTool[c] = "crawl"
                /\ webPc'[c] = "insert" /\ row'[c] = row[c] /\ dates' = dates
             \/ /\ WebTool[c] = "watch"
                /\ webPc'[c] \in {"insert", "end"} /\ row'[c] = row[c] /\ dates' = dates
      BY <1>1, <1>3, BeginKept
    <3> QED
      BY <3>1, <3>2, <3>3 DEF Capturing
  <2>2. ToSet(Dated(row[c])) = ToSet(dates) \cup {row[c]}
    BY <1>1, DatedKept
  <2> QED
    BY <1>1, <1>2, <2>1, <2>2 DEF DatesThere
<1>4. CASE Write(c)
  <2>1. /\ stored' = stored /\ dates' = dates /\ webPc[c] = "write" /\ webPc'[c] \in {"insert", "check"}
        /\ webPc'[c] = "insert" => WebTool[c] \in {"start", "persist"} /\ row'[c] = row[c]
    BY <1>1, <1>4, WriteKept
  <2>2. webPc'[c] = "insert" /\ row'[c][1] = "artifact" => row'[c] \in ToSet(dates)
    BY <1>1, <2>1 DEF DatesThere, Life, Capturing
  <2> QED
    BY <1>1, <1>2, <2>1, <2>2 DEF DatesThere
<1>5. CASE Check(c) \/ ReadState(c)
  <2>1. /\ stored' = stored /\ row'[c] = row[c]
        /\ \/ dates' = Dated(row[c]) /\ webPc'[c] = "insert"
           \/ dates' = dates /\ webPc'[c] \in {"bridge", "end"}
    BY <1>1, <1>5, CheckKept
  <2>2. ToSet(Dated(row[c])) = ToSet(dates) \cup {row[c]}
    BY <1>1, DatedKept
  <2> QED
    BY <1>1, <1>2, <2>1, <2>2 DEF DatesThere
<1>6. CASE StoresRow(c)
  <2>1. PICK r \in Rows, then \in {"end", "pages", "remember", "write"} : Storing(c, r, then)
    BY <1>6 DEF StoresRow
  <2>2. webPc'[c] = "list"
    BY <1>1, <2>1, StoreKept
  <2>3. stored' = stored \cup {r} /\ (dates' = dates \/ dates' = Dated(r))
        /\ (r[1] # "artifact" => dates' = Dated(r))
    BY <2>1 DEF Storing, Store
  <2>4. r[1] = "artifact" => r \in ToSet(dates)
    <3>1. r[1] = "artifact" => webPc[c] = "insert" /\ r = row[c]
      <4>1. <<"memory", c>>[1] # "artifact"
        OBVIOUS
      <4>2. webPc[c] = "bridge" \/ webPc[c] = "pages" => row[c][1] # "artifact"
        BY <1>1 DEF Life, Capturing
      <4> QED
        BY <2>1, <4>1, <4>2 DEF Storing
    <3> QED
      BY <1>1, <3>1 DEF DatesThere
  <2>5. ToSet(Dated(r)) = ToSet(dates) \cup {r}
    BY <1>1, DatedKept
  <2> QED
    BY <1>1, <1>2, <2>2, <2>3, <2>4, <2>5 DEF DatesThere
<1>7. CASE List(c) \/ Unlink(c) \/ Setback(c)
  <2>1. stored' = stored /\ dates' = dates /\ webPc'[c] \in {"list", "unlink", "delete", "end", whenSwept[c]}
        /\ (webPc'[c] = whenSwept[c] => Sweeping(c) \/ webPc'[c] = "end")
    BY <1>1, <1>7, ListKept, UnlinkKept, SetbackKept DEF Onward, Sweeping
  <2>2. webPc'[c] # "insert" /\ ~ (webPc'[c] = "write" /\ WebTool[c] = "start")
    BY <1>a, <2>1
  <2> QED
    BY <1>1, <1>2, <2>1, <2>2 DEF DatesThere
<1>8. CASE Delete(c)
  <2> DEFINE h == Head(doomed[c])
  <2>1. /\ stored' = stored \ {h} /\ ToSet(dates') = ToSet(dates) \ {h} /\ webPc[c] = "delete" /\ h \in Rows
        /\ ToSet(doomed[c]) = {h} \cup ToSet(doomed'[c])
        /\ webPc'[c] \in {"list", "unlink", "delete", whenSwept[c]}
    BY <1>1, <1>8, DeleteKept DEF Onward
  <2> HIDE DEF h
  <2>2. ASSUME NEW d \in WebCalls, webPc[d] \in {"insert", "write"}, row[d] = <<"artifact", d>>
        PROVE  row[d] # h
    <3> SUFFICES ASSUME h = <<"artifact", d>> PROVE FALSE
      BY <2>2
    <3>1. Filed(h) /\ h[2] = d
      BY DEF Filed
    <3>2. Old(h)
      BY <2>1 DEF Old
    <3> QED
      BY <2>1, <2>2, <3>1, <3>2, Settled
  <2>3. webPc'[c] # "insert" /\ ~ (webPc'[c] = "write" /\ WebTool[c] = "start")
    BY <1>a, <2>1 DEF Sweeping
  <2>4. stored' \subseteq ToSet(dates')
    BY <1>1, <2>1 DEF DatesThere
  <2>5. \A d \in WebCalls :
          d # c /\ row[d] \in ToSet(dates) /\ webPc[d] \in {"insert", "write"} /\ row[d] = <<"artifact", d>>
          => row[d] \in ToSet(dates')
    BY <2>1, <2>2
  <2> QED
    BY <1>2, <2>3, <2>4, <2>5
<1> QED
  BY <1>1, <1>3, <1>4, <1>5, <1>6, <1>7, <1>8, WebSteps

(* Where the rows that are or were stored come from.                        *)
LEMMA OldComes ==
  ASSUME WebInv, NEW c \in WebCalls, Begin(c) \/ WebStep(c) \/ Setback(c),
         NEW r \in Rows, Filed(r), Old(r)'
  PROVE  \/ Old(r)
         \/ webPc[c] = "insert" /\ r = row[c] /\ webPc'[c] = "list" /\ row'[c] = r
<1> USE DEF WebInv
<1>1. Alone(c) /\ WebKnown /\ DatesThere /\ SweepShape /\ Life(c)
  BY WebTypesKept
<1>a. whenSwept[c] \in {"end", "pages", "remember", "write"}
  BY <1>1 DEF WebKnown, WebTypeOK
<1>2. ASSUME stored' \subseteq stored, ToSet(doomed'[c]) \subseteq stored \cup ToSet(doomed[c]),
             webPc'[c] \in {"read", "bridge"} =>
               row'[c] \in stored \/ (webPc[c] \in {"read", "bridge"} /\ row'[c] = row[c])
      PROVE  Old(r)
  <2>1. CASE r \in stored'
    BY <1>2, <2>1 DEF Old
  <2>2. ASSUME NEW d \in WebCalls, r \in ToSet(doomed'[d]) PROVE Old(r)
    <3>1. d # c => doomed'[d] = doomed[d]
      BY <1>1 DEF Alone
    <3> QED
      BY <1>2, <2>2, <3>1 DEF Old
  <2>3. ASSUME NEW d \in WebCalls, webPc'[d] \in {"read", "bridge"}, r = row'[d] PROVE Old(r)
    <3>1. d # c => webPc'[d] = webPc[d] /\ row'[d] = row[d]
      BY <1>1 DEF Alone
    <3> QED
      BY <1>2, <2>3, <3>1 DEF Old
  <2> QED
    BY <2>1, <2>2, <2>3 DEF Old
<1>3. CASE Begin(c)
  <2>1. /\ stored' = stored /\ doomed' = doomed
        /\ webPc'[c] \in {"read", "bridge"} => row'[c] \in stored
    BY <1>1, <1>3, BeginKept
  <2> QED
    BY <1>2, <2>1
<1>4. CASE Write(c)
  <2>1. stored' = stored /\ doomed' = doomed /\ webPc'[c] \in {"insert", "check"}
    BY <1>1, <1>4, WriteKept
  <2> QED
    BY <1>2, <2>1
<1>5. CASE Check(c) \/ ReadState(c)
  <2>1. /\ stored' = stored /\ doomed' = doomed /\ row'[c] = row[c]
        /\ webPc'[c] = "insert" \/ webPc[c] = "read"
    BY <1>1, <1>5, CheckKept
  <2> QED
    BY <1>2, <2>1
<1>6. CASE StoresRow(c)
  <2>1. PICK q \in Rows, then \in {"end", "pages", "remember", "write"} : Storing(c, q, then)
    BY <1>6 DEF StoresRow
  <2>2. webPc'[c] = "list" /\ row'[c] = q
    BY <1>1, <2>1, StoreKept
  <2>3. stored' = stored \cup {q} /\ doomed' = doomed
    BY <2>1 DEF Storing, Store
  <2>4. CASE r \in stored
    BY <2>4 DEF Old
  <2>5. CASE r \in stored' /\ r \notin stored
    <3>1. r = q
      BY <2>3, <2>5
    <3>2. webPc[c] = "bridge" /\ q = row[c] => Old(r)
      BY <3>1 DEF Old
    <3>3. ~ (webPc[c] = "pages" /\ q = row[c])
      BY <1>1, <3>1 DEF Life, Capturing, Filed
    <3>4. q # <<"memory", c>>
      BY <3>1 DEF Filed
    <3>5. (webPc[c] = "insert" /\ q = row[c]) \/ Old(r)
      BY <2>1, <3>2, <3>3, <3>4 DEF Storing
    <3> QED
      BY <2>2, <3>1, <3>5
  <2>6. ASSUME NEW d \in WebCalls, r \in ToSet(doomed'[d]) PROVE Old(r)
    BY <2>3, <2>6 DEF Old
  <2>7. ASSUME NEW d \in WebCalls, webPc'[d] \in {"read", "bridge"}, r = row'[d] PROVE Old(r)
    <3>1. d # c
      BY <2>2, <2>7
    <3>2. webPc'[d] = webPc[d] /\ row'[d] = row[d]
      BY <1>1, <3>1 DEF Alone
    <3> QED
      BY <2>7, <3>2 DEF Old
  <2> QED
    BY <2>4, <2>5, <2>6, <2>7 DEF Old
<1>7. CASE List(c)
  <2>1. /\ stored' = stored /\ ToSet(doomed'[c]) \subseteq stored
        /\ webPc'[c] \in {"list", "unlink", "delete", whenSwept[c]}
    BY <1>1, <1>7, ListKept DEF Onward, InTableOf
  <2> QED
    BY <1>2, <1>a, <2>1
<1>8. CASE Unlink(c)
  <2>1. stored' = stored /\ doomed' = doomed /\ webPc'[c] = "delete"
    BY <1>1, <1>8, UnlinkKept
  <2> QED
    BY <1>2, <2>1
<1>9. CASE Delete(c)
  <2>1. /\ stored' \subseteq stored /\ ToSet(doomed'[c]) \subseteq ToSet(doomed[c])
        /\ webPc'[c] \in {"list", "unlink", "delete", whenSwept[c]}
    BY <1>1, <1>9, DeleteKept DEF Onward
  <2> QED
    BY <1>2, <1>a, <2>1
<1>10. CASE Setback(c)
  <2>1. ToSet(<<>>) = {}
    BY DEF ToSet
  <2>2. stored' = stored /\ ToSet(doomed'[c]) = {} /\ webPc'[c] \in {"end", whenSwept[c]}
    BY <1>1, <1>10, <2>1, SetbackKept
  <2> QED
    BY <1>2, <1>a, <2>2
<1> QED
  BY <1>1, <1>3, <1>4, <1>5, <1>6, <1>7, <1>8, <1>9, <1>10, WebSteps

(* Where the rows that are to be stored come from.                          *)
LEMMA NewComes ==
  ASSUME WebInv, NEW c \in WebCalls, Begin(c) \/ WebStep(c) \/ Setback(c),
         NEW r \in Rows, Filed(r), New(r)'
  PROVE  New(r) \/ (Write(c) /\ r[2] = c)
<1> USE DEF WebInv
<1>1. Alone(c) /\ WebKnown /\ DatesThere /\ SweepShape /\ Life(c)
  BY WebTypesKept
<1>a. whenSwept[c] \in {"end", "pages", "remember", "write"}
  BY <1>1 DEF WebKnown, WebTypeOK
<1>2. PICK d \in WebCalls : webPc'[d] \in {"check", "insert"} /\ r = row'[d]
  BY DEF New
<1>3. CASE d # c
  <2>1. webPc'[d] = webPc[d] /\ row'[d] = row[d]
    BY <1>1, <1>3 DEF Alone
  <2> QED
    BY <1>2, <2>1 DEF New
<1>4. CASE d = c
  <2>1. CASE Begin(c)
    <3>1. WebTool[c] \in {"crawl", "watch"} /\ row'[c] = row[c] /\ webPc[c] = "idle"
      BY <1>1, <1>2, <1>4, <2>1, BeginKept
    <3>2. ~ Filed(row[c])
      BY <1>1, <3>1 DEF Life, Capturing, Filed
    <3> QED
      BY <1>2, <1>4, <3>1, <3>2
  <2>2. CASE Write(c)
    <3>1. webPc[c] = "write" /\ row'[c] = IF WebTool[c] = "crawl" THEN <<"artifact", c>> ELSE row[c]
      BY <1>1, <2>2, WriteKept
    <3>2. WebTool[c] # "crawl" => row[c][2] = c
      BY <3>1, OwnRow
    <3> QED
      BY <1>2, <1>4, <2>2, <3>1, <3>2
  <2>3. CASE Check(c) \/ ReadState(c)
    <3>1. webPc[c] = "check" /\ row'[c] = row[c]
      BY <1>1, <1>2, <1>4, <2>3, CheckKept
    <3> QED
      BY <1>2, <1>4, <3>1 DEF New
  <2>4. CASE StoresRow(c)
    BY <1>1, <1>2, <1>4, <2>4, StoreKept DEF StoresRow
  <2>5. CASE List(c) \/ Unlink(c) \/ Delete(c) \/ Setback(c)
    <3>1. webPc'[c] \in {"list", "unlink", "delete", "end", whenSwept[c]}
      BY <1>1, <2>5, ListKept, UnlinkKept, DeleteKept, SetbackKept DEF Onward
    <3> QED
      BY <1>a, <1>2, <1>4, <3>1
  <2> QED
    BY <1>1, <2>1, <2>2, <2>3, <2>4, <2>5, WebSteps
<1> QED
  BY <1>3, <1>4

(* A call has nothing more to do with a row that is stored.                 *)
LEMMA OwnersKept ==
  ASSUME WebInv, NEW c \in WebCalls, Begin(c) \/ WebStep(c) \/ Setback(c)
  PROVE  OwnersSettled'
<1> USE DEF WebInv
<1>1. Alone(c) /\ WebKnown /\ DatesThere /\ SweepShape /\ Life(c)
  BY WebTypesKept
<1> SUFFICES ASSUME NEW r \in Rows, Filed(r), Old(r)'
             PROVE  /\ webPc'[r[2]] \in {"list", "unlink", "delete", "end"} /\ row'[r[2]] = r
                    /\ WebTool[r[2]] # "restore"
  BY DEF OwnersSettled
<1>2. CASE webPc[c] = "insert" /\ r = row[c] /\ webPc'[c] = "list" /\ row'[c] = r
  <2>1. r[2] = c /\ WebTool[c] # "restore"
    BY <1>2, OwnRow
  <2> QED
    BY <1>2, <2>1
<1>3. CASE Old(r)
  <2>1. /\ r[2] \in WebCalls /\ webPc[r[2]] \in {"list", "unlink", "delete", "end"}
        /\ row[r[2]] = r /\ WebTool[r[2]] # "restore"
        /\ whenSwept[r[2]] = "end" \/ webPc[r[2]] = "end"
    BY <1>3, Settled
  <2>2. CASE r[2] # c
    BY <1>1, <2>1, <2>2 DEF Alone
  <2>3. CASE r[2] = c
    <3>1. ~ (Begin(c) \/ Write(c) \/ Check(c) \/ ReadState(c) \/ StoresRow(c))
      BY <1>1, <2>1, <2>3, BeginKept, WriteKept, CheckKept DEF StoresRow, Storing
    <3>2. List(c) \/ Unlink(c) \/ Delete(c) \/ Setback(c)
      BY <1>1, <3>1, WebSteps
    <3>3. /\ webPc'[c] \in {"list", "unlink", "delete", "end", whenSwept[c]} /\ row'[c] = row[c]
          /\ webPc[c] # "end"
      BY <1>1, <3>2, ListKept, UnlinkKept, DeleteKept, SetbackKept DEF Onward
    <3> QED
      BY <2>1, <2>3, <3>3
  <2> QED
    BY <2>2, <2>3
<1> QED
  BY <1>2, <1>3, OldComes

(* What the files that are known to be shared or left behind become.        *)
LEMMA FilesGrow ==
  ASSUME WebInv, NEW c \in WebCalls, Begin(c) \/ WebStep(c) \/ Setback(c)
  PROVE  /\ shared \subseteq shared' /\ strays \subseteq strays' /\ bare \subseteq bare'
         /\ \/ disk' = disk
            \/ Unlink(c) /\ webPc[c] = "unlink" /\ disk' = disk \ {File(Head(doomed[c]))}
            \/ /\ webPc[c] = "write" /\ PutFile(c) /\ disk' = disk \cup {FileOf[c]}
               /\ Write(c) \/ FileOf[c] \in strays'
<1> USE DEF WebInv
<1>1. WebKnown /\ DatesThere /\ SweepShape /\ Life(c)
  BY WebTypesKept
<1>2. CASE Begin(c) \/ Check(c) \/ ReadState(c)
  BY <1>1, <1>2, BeginKept, CheckKept
<1>3. CASE Write(c)
  BY <1>1, <1>3, WriteKept, PutKept
<1>4. CASE StoresRow(c)
  <2>1. /\ disk' = disk /\ shared' = shared /\ strays' = strays
        /\ bare \subseteq bare'
    BY <1>4 DEF StoresRow, Storing
  <2> QED
    BY <2>1
<1>5. CASE List(c) \/ Unlink(c) \/ Delete(c)
  BY <1>1, <1>5, ListKept, UnlinkKept, DeleteKept
<1>6. CASE Setback(c)
  <2>1. /\ IF webPc[c] = "write" THEN PutFile(c) ELSE UNCHANGED <<disk, shared>>
        /\ strays' = IF webPc[c] \in {"write", "check"} \/ (webPc[c] = "insert" /\ Filed(row[c]))
                     THEN strays \cup {FileOf[c]} ELSE strays
        /\ bare' = IF webPc[c] = "delete" THEN bare \cup {Head(doomed[c])} ELSE bare
    BY <1>1, <1>6, SetbackKept
  <2>2. CASE webPc[c] = "write"
    <3>1. PutFile(c) /\ strays' = strays \cup {FileOf[c]} /\ bare \subseteq bare'
      BY <2>1, <2>2
    <3> QED
      BY <1>1, <2>2, <3>1, PutKept
  <2>3. CASE webPc[c] # "write"
    BY <2>1, <2>3
  <2> QED
    BY <2>2, <2>3
<1> QED
  BY <1>1, <1>2, <1>3, <1>4, <1>5, <1>6, WebSteps

(* A file that two calls write is known to be shared.                       *)
LEMMA SharedKept ==
  ASSUME WebInv, NEW c \in WebCalls, Begin(c) \/ WebStep(c) \/ Setback(c)
  PROVE  SharedFiles'
<1>0. WebKnown /\ SharedFiles
  BY DEF WebInv
<1>1. shared \subseteq shared'
  BY FilesGrow
<1>2. ASSUME NEW r \in Rows, Filed(r), (Old(r) \/ New(r))'
      PROVE  Old(r) \/ New(r) \/ (Write(c) /\ r[2] = c)
  <2>1. ASSUME webPc[c] = "insert", r = row[c] PROVE New(r)
    BY <2>1 DEF New
  <2> QED
    BY <1>2, <2>1, OldComes, NewComes
<1>3. ASSUME NEW q \in Rows, Filed(q), Old(q) \/ New(q)
      PROVE  q[2] \in WebCalls /\ webPc[q[2]] # "idle"
  <2>1. CASE Old(q)
    BY <1>3, <2>1, Settled
  <2>2. CASE New(q)
    <3>1. PICK d \in WebCalls : webPc[d] \in {"check", "insert"} /\ q = row[d]
      BY <2>2 DEF New
    <3>2. q[2] = d
      BY <1>3, <3>1, OwnRow
    <3> QED
      BY <3>1, <3>2
  <2> QED
    BY <1>3, <2>1, <2>2
<1>4. ASSUME NEW r \in Rows, NEW q \in Rows, Filed(q), r[2] # q[2], File(r) = File(q),
             Write(c), r[2] = c, Old(q) \/ New(q)
      PROVE  File(r) \in shared'
  <2>1. q[2] \in WebCalls \ {c} /\ webPc[q[2]] # "idle" /\ FileOf[q[2]] = FileOf[c]
    BY <1>3, <1>4 DEF File
  <2>2. PutFile(c)
    BY <1>4 DEF Write
  <2>3. FileOf[c] \in shared'
    BY <1>0, <2>1, <2>2, PutKept
  <2> QED
    BY <1>4, <2>3 DEF File
<1> SUFFICES ASSUME NEW r \in Rows, NEW q \in Rows, Filed(r), Filed(q),
                    (Old(r) \/ New(r))', (Old(q) \/ New(q))', r[2] # q[2], File(r) = File(q)
             PROVE  File(r) \in shared'
  BY DEF SharedFiles, Filed, File
<1>5. CASE (Old(r) \/ New(r)) /\ (Old(q) \/ New(q))
  <2>1. File(r) \in shared
    BY <1>0, <1>5 DEF SharedFiles
  <2> QED
    BY <1>1, <2>1
<1>6. CASE Write(c) /\ r[2] = c /\ (Old(q) \/ New(q))
  BY <1>4, <1>6
<1>7. CASE Write(c) /\ q[2] = c /\ (Old(r) \/ New(r))
  <2>1. File(q) \in shared'
    BY <1>4, <1>7
  <2> QED
    BY <2>1
<1> QED
  BY <1>2, <1>5, <1>6, <1>7

(* A row has its file, also when somebody removes one.                      *)
LEMMA RowsFilesKept ==
  ASSUME WebInv, NEW c \in WebCalls, Begin(c) \/ WebStep(c) \/ Setback(c)
  PROVE  RowsHaveFiles'
<1> USE DEF WebInv
<1>1. Alone(c) /\ WebKnown /\ DatesThere /\ SweepShape /\ Life(c) /\ RowsHaveFiles /\ SharedFiles
  BY WebTypesKept
<1>a. whenSwept[c] \in {"end", "pages", "remember", "write"}
  BY <1>1 DEF WebKnown, WebTypeOK
<1>2. /\ shared \subseteq shared' /\ bare \subseteq bare'
      /\ disk \subseteq disk' \/ (Unlink(c) /\ webPc[c] = "unlink" /\ disk' = disk \ {File(Head(doomed[c]))})
  BY FilesGrow
<1>3. ASSUME NEW r \in Rows, Filed(r), Old(r) \/ New(r), File(r) \in disk \cup shared
      PROVE  \/ File(r) \in disk' \cup shared'
             \/ webPc'[c] = "delete" /\ Head(doomed'[c]) = r
  <2>1. CASE disk \subseteq disk'
    BY <1>2, <1>3, <2>1
  <2>2. CASE Unlink(c) /\ webPc[c] = "unlink" /\ disk' = disk \ {File(Head(doomed[c]))}
    <3> DEFINE h == Head(doomed[c])
    <3>1. h \in Rows /\ h \in ToSet(doomed[c]) /\ h[1] = Tables[sweepAt[c]]
      BY <1>1, <2>2, HeadDoomed DEF Removing
    <3>2. Filed(h) /\ webPc'[c] = "delete" /\ doomed'[c] = doomed[c]
      BY <1>1, <2>2, <3>1, UnlinkKept DEF SweepShape, Filed
    <3>3. disk' = disk \ {File(h)} /\ Head(doomed'[c]) = h
      BY <2>2, <3>2
    <3>4. Old(h)
      BY <3>1 DEF Old
    <3> HIDE DEF h
    <3>5. CASE File(r) # File(h)
      BY <1>2, <1>3, <3>3, <3>5
    <3>6. CASE File(r) = File(h) /\ r[2] # h[2]
      BY <1>1, <1>2, <1>3, <3>1, <3>2, <3>4, <3>6 DEF SharedFiles
    <3>7. CASE r[2] = h[2]
      <4>1. webPc[h[2]] \in {"list", "unlink", "delete", "end"} /\ row[h[2]] = h
        BY <3>1, <3>2, <3>4, Settled
      <4>2. r = h
        <5>1. CASE Old(r)
          BY <1>3, <3>7, <4>1, <5>1, Settled
        <5>2. CASE New(r)
          <6>1. PICK d \in WebCalls : webPc[d] \in {"check", "insert"} /\ r = row[d]
            BY <5>2 DEF New
          <6>2. r[2] = d
            BY <1>3, <6>1, OwnRow
          <6> QED
            BY <3>7, <4>1, <6>1, <6>2
        <5> QED
          BY <1>3, <5>1, <5>2
      <4> QED
        BY <3>2, <3>3, <4>2
    <3> QED
      BY <3>5, <3>6, <3>7
  <2> QED
    BY <1>2, <2>1, <2>2
<1>4. ASSUME NEW r \in stored', Filed(r)
      PROVE  \/ File(r) \in disk' \cup shared' \/ r \in bare'
             \/ \E d \in WebCalls : webPc'[d] = "delete" /\ Head(doomed'[d]) = r
  <2>1. CASE r \in stored
    <3>1. r \in Rows /\ Old(r)
      BY <1>1, <2>1 DEF WebKnown, WebTypeOK, Old
    <3>2. CASE File(r) \in disk \cup shared
      BY <1>3, <1>4, <3>1, <3>2
    <3>3. CASE r \in bare
      BY <1>2, <3>3
    <3>4. ASSUME NEW d \in WebCalls, webPc[d] = "delete", Head(doomed[d]) = r
          PROVE  \/ r \in bare'
                 \/ webPc'[d] = "delete" /\ Head(doomed'[d]) = r
      <4>1. CASE d # c
        BY <1>1, <3>4, <4>1 DEF Alone
      <4>2. CASE d = c
        <5>1. ~ Delete(c)
          BY <1>1, <1>4, <3>4, <4>2, DeleteKept
        <5>2. ~ (List(c) \/ Unlink(c))
          BY <1>1, <3>4, <4>2, ListKept, UnlinkKept
        <5>3. ~ (Begin(c) \/ Write(c) \/ Check(c) \/ ReadState(c) \/ StoresRow(c))
          BY <1>1, <3>4, <4>2, BeginKept, WriteKept, CheckKept DEF StoresRow, Storing
        <5>4. Setback(c)
          BY <1>1, <5>1, <5>2, <5>3, WebSteps
        <5> QED
          BY <1>1, <3>4, <4>2, <5>4, SetbackKept
      <4> QED
        BY <4>1, <4>2
    <3> QED
      BY <1>1, <1>4, <2>1, <3>2, <3>3, <3>4 DEF RowsHaveFiles
  <2>2. CASE r \notin stored
    <3>1. ~ (Begin(c) \/ Write(c) \/ Check(c) \/ ReadState(c) \/ List(c) \/ Unlink(c) \/ Delete(c) \/ Setback(c))
      BY <1>1, <1>4, <2>2, BeginKept, WriteKept, CheckKept, ListKept, UnlinkKept, DeleteKept, SetbackKept
    <3>2. StoresRow(c)
      BY <1>1, <3>1, WebSteps
    <3>3. PICK q \in Rows, then \in {"end", "pages", "remember", "write"} : Storing(c, q, then)
      BY <3>2 DEF StoresRow
    <3>4. stored' = stored \cup {q}
      BY <3>3 DEF Storing, Store
    <3>5. r = q
      BY <1>4, <2>2, <3>4
    <3>6. CASE webPc[c] = "bridge"
      BY <2>2, <3>3, <3>5, <3>6 DEF Storing
    <3>7. CASE webPc[c] # "bridge"
      <4>1. webPc[c] = "insert" /\ r = row[c]
        <5>1. ~ (webPc[c] = "pages" /\ q = row[c])
          BY <1>1, <1>4, <3>5 DEF Life, Capturing, Filed
        <5>2. q # <<"memory", c>>
          BY <1>4, <3>5 DEF Filed
        <5> QED
          BY <3>3, <3>5, <3>7, <5>1, <5>2 DEF Storing
      <4>2. FileOf[c] \in disk \cup shared
        BY <1>1, <1>4, <4>1 DEF RowsHaveFiles
      <4>3. r[2] = c
        BY <1>4, <4>1, OwnRow
      <4>4. disk' = disk
        BY <3>3 DEF Storing
      <4> QED
        BY <1>2, <4>2, <4>3, <4>4 DEF File
    <3> QED
      BY <3>6, <3>7
  <2> QED
    BY <2>1, <2>2
<1>5. ASSUME NEW d \in WebCalls, webPc'[d] \in {"check", "insert"}, Filed(row'[d])
      PROVE  FileOf[d] \in disk' \cup shared'
  <2>1. CASE d # c \/ Check(c)
    <3>2. webPc[d] \in {"check", "insert"} /\ row'[d] = row[d]
      BY <1>1, <1>5, <2>1, CheckKept DEF Alone, Check
    <3>3. row[d] \in Rows /\ row[d][2] = d /\ New(row[d]) /\ Filed(row[d])
      BY <1>5, <3>2, OwnRow DEF New
    <3>4. FileOf[d] \in disk \cup shared /\ File(row[d]) = FileOf[d]
      BY <1>1, <3>2, <3>3 DEF RowsHaveFiles, File
    <3>5. CASE disk \subseteq disk'
      BY <1>2, <3>4, <3>5
    <3>6. CASE Unlink(c) /\ webPc[c] = "unlink"
      <4> DEFINE h == Head(doomed[c])
      <4>1. h \in Rows /\ h \in ToSet(doomed[c]) /\ doomed'[c] = doomed[c]
        BY <1>1, <3>6, UnlinkKept, HeadDoomed DEF Removing
      <4>2. Old(h) /\ Head(doomed'[c]) = h
        BY <4>1 DEF Old
      <4>3. Filed(h)
        BY <1>1, <3>6, HeadDoomed DEF SweepShape, Filed, Removing
      <4> HIDE DEF h
      <4>4. row[d] # h
        BY <3>2, <3>3, <4>1, <4>2, <4>3, Settled
      <4> QED
        BY <1>3, <3>3, <3>4, <4>2, <4>4
    <3> QED
      BY <1>2, <3>5, <3>6
  <2>2. CASE d = c /\ ~ Check(c)
    <3>1. CASE Begin(c)
      <4>1. WebTool[c] \in {"crawl", "watch"} /\ row'[c] = row[c] /\ webPc[c] = "idle"
        BY <1>1, <1>5, <2>2, <3>1, BeginKept
      <4>2. ~ Filed(row[c])
        BY <1>1, <4>1 DEF Life, Capturing, Filed
      <4> QED
        BY <1>5, <2>2, <4>1, <4>2
    <3>2. CASE Write(c)
      <4>1. PutFile(c)
        BY <1>1, <3>2, WriteKept
      <4>2. FileOf[c] \in disk'
        BY <1>1, <4>1, PutKept
      <4> QED
        BY <2>2, <4>2
    <3>3. ~ ReadState(c)
      BY <1>1, <1>5, <2>2 DEF ReadState, WebGoto, WebKnown, WebTypeOK
    <3>4. ~ StoresRow(c)
      BY <1>1, <1>5, <2>2, StoreKept DEF StoresRow
    <3>5. ~ (List(c) \/ Unlink(c) \/ Delete(c) \/ Setback(c))
      <4>1. List(c) \/ Unlink(c) \/ Delete(c) \/ Setback(c) =>
              webPc'[c] \in {"list", "unlink", "delete", "end", whenSwept[c]}
        BY <1>1, ListKept, UnlinkKept, DeleteKept, SetbackKept DEF Onward
      <4> QED
        BY <1>a, <1>5, <2>2, <4>1
    <3> QED
      BY <1>1, <2>2, <3>1, <3>2, <3>3, <3>4, <3>5, WebSteps
  <2> QED
    BY <2>1, <2>2
<1> QED
  BY <1>4, <1>5 DEF RowsHaveFiles, Filed, File

(* A file has its row, also when somebody removes one.                      *)
LEMMA FilesRowsKept ==
  ASSUME WebInv, NEW c \in WebCalls, Begin(c) \/ WebStep(c) \/ Setback(c)
  PROVE  FilesHaveRows'
<1> USE DEF WebInv
<1>1. Alone(c) /\ WebKnown /\ DatesThere /\ SweepShape /\ Life(c) /\ FilesHaveRows
  BY WebTypesKept
<1>2. /\ shared \subseteq shared' /\ strays \subseteq strays'
      /\ \/ disk' \subseteq disk
         \/ /\ webPc[c] = "write" /\ PutFile(c) /\ disk' = disk \cup {FileOf[c]}
            /\ Write(c) \/ FileOf[c] \in strays'
  BY FilesGrow
<1>3. ASSUME NEW f \in disk' \ (shared' \cup strays')
      PROVE  \/ \E r \in stored' : Filed(r) /\ File(r) = f
             \/ \E d \in WebCalls :
                  FileOf[d] = f /\ webPc'[d] \in {"check", "insert"} /\ Filed(row'[d])
  <2>1. CASE f \notin disk
    <3>1. Write(c) /\ f = FileOf[c] /\ webPc[c] = "write"
      BY <1>2, <1>3, <2>1
    <3>2. /\ webPc'[c] \in {"check", "insert"}
          /\ row'[c] = IF WebTool[c] = "crawl" THEN <<"artifact", c>> ELSE row[c]
      BY <1>1, <3>1, WriteKept
    <3>3. Filed(row'[c])
      <4>1. WebTool[c] # "crawl" => Filed(row[c])
        BY <3>1, OwnRow
      <4> QED
        BY <3>2, <4>1 DEF Filed
    <3> QED
      BY <3>1, <3>2, <3>3
  <2>2. CASE f \in disk
    <3>0. f \in disk \ (shared \cup strays)
      BY <1>2, <1>3, <2>2
    <3>1. ASSUME NEW r \in stored, Filed(r), File(r) = f PROVE r \in stored'
      <4>1. CASE Delete(c)
        <5> DEFINE h == Head(doomed[c])
        <5>1. stored' = stored \ {h} /\ webPc[c] = "delete"
          BY <1>1, <4>1, DeleteKept
        <5>2. Filed(h) => File(h) \notin disk \ (shared \cup strays)
          BY <1>1, <5>1 DEF FilesHaveRows
        <5> QED
          BY <3>0, <3>1, <5>1, <5>2
      <4>2. CASE ~ Delete(c)
        <5>1. CASE StoresRow(c)
          BY <5>1 DEF StoresRow, Storing, Store
        <5>2. CASE ~ StoresRow(c)
          BY <1>1, <4>2, <5>2, WebSteps, BeginKept, WriteKept, CheckKept, ListKept, UnlinkKept, SetbackKept
        <5> QED
          BY <5>1, <5>2
      <4> QED
        BY <4>1, <4>2
    <3>2. ASSUME NEW d \in WebCalls, FileOf[d] = f, webPc[d] \in {"check", "insert"}, Filed(row[d])
          PROVE  \/ \E r \in stored' : Filed(r) /\ File(r) = f
                 \/ FileOf[d] = f /\ webPc'[d] \in {"check", "insert"} /\ Filed(row'[d])
      <4>1. CASE d # c
        BY <1>1, <3>2, <4>1 DEF Alone
      <4>2. CASE d = c
        <5>1. CASE Check(c) \/ ReadState(c)
          BY <1>1, <3>2, <4>2, <5>1, CheckKept
        <5>2. CASE StoresRow(c)
          <6>1. PICK q \in Rows, then \in {"end", "pages", "remember", "write"} : Storing(c, q, then)
            BY <5>2 DEF StoresRow
          <6>2. stored' = stored \cup {q} /\ q = row[c]
            BY <3>2, <4>2, <6>1 DEF Storing, Store
          <6>3. File(row[c]) = f
            BY <3>2, <4>2, OwnRow DEF File
          <6> QED
            BY <3>2, <4>2, <6>2, <6>3
        <5>3. CASE Setback(c)
          <6>1. strays' = strays \cup {FileOf[c]}
            BY <1>1, <3>2, <4>2, <5>3, SetbackKept
          <6> QED
            BY <1>3, <3>2, <4>2, <6>1
        <5>4. ~ (Begin(c) \/ Write(c) \/ List(c) \/ Unlink(c) \/ Delete(c))
          BY <1>1, <3>2, <4>2, BeginKept, WriteKept, ListKept, UnlinkKept, DeleteKept
        <5> QED
          BY <1>1, <5>1, <5>2, <5>3, <5>4, WebSteps
      <4> QED
        BY <4>1, <4>2
    <3> QED
      BY <1>1, <3>0, <3>1, <3>2 DEF FilesHaveRows
  <2> QED
    BY <2>1, <2>2
<1>4. ASSUME NEW d \in WebCalls, webPc'[d] = "delete", Filed(Head(doomed'[d]))
      PROVE  File(Head(doomed'[d])) \notin disk' \ (shared' \cup strays')
  <2>1. CASE d # c
    <3> DEFINE h == Head(doomed[d])
    <3>1. webPc[d] = "delete" /\ doomed'[d] = doomed[d] /\ Head(doomed'[d]) = h
      BY <1>1, <1>4, <2>1 DEF Alone
    <3>2. h \in Rows /\ h \in ToSet(doomed[d]) /\ File(h) \notin disk \ (shared \cup strays) /\ Filed(h)
      BY <1>1, <1>4, <3>1, HeadDoomed DEF Removing, FilesHaveRows
    <3> HIDE DEF h
    <3>3. Old(h)
      BY <3>2 DEF Old
    <3>4. h[2] \in WebCalls /\ webPc[h[2]] \in {"list", "unlink", "delete", "end"}
      BY <3>2, <3>3, Settled
    <3>5. CASE disk' \subseteq disk
      BY <1>2, <3>1, <3>2, <3>5
    <3>6. CASE webPc[c] = "write" /\ PutFile(c) /\ disk' = disk \cup {FileOf[c]}
      <4>1. CASE File(h) = FileOf[c]
        <5>1. h[2] \in WebCalls \ {c} /\ FileOf[h[2]] = FileOf[c] /\ webPc[h[2]] # "idle"
          BY <3>4, <3>6, <4>1 DEF File
        <5>2. FileOf[c] \in shared'
          BY <1>1, <3>6, <5>1, PutKept
        <5> QED
          BY <3>1, <4>1, <5>2
      <4>2. CASE File(h) # FileOf[c]
        BY <1>2, <3>1, <3>2, <3>6, <4>2
      <4> QED
        BY <4>1, <4>2
    <3> QED
      BY <1>2, <3>5, <3>6
  <2>2. CASE d = c
    <3> DEFINE h == Head(doomed'[c])
    <3>1. WebKnown' /\ SweepShape'
      BY WebTypesKept, SweepKept
    <3>2. h \in ToSet(doomed'[c]) /\ h[1] = Tables[sweepAt'[c]]
      <4>1. doomed'[c] \in Seq(Rows) /\ doomed'[c] # <<>>
        BY <1>4, <2>2, <3>1 DEF WebKnown, SweepShape, Removing
      <4>2. h = doomed'[c][1] /\ 1 \in DOMAIN doomed'[c]
        BY <4>1
      <4>3. h \in ToSet(doomed'[c])
        BY <4>2 DEF ToSet
      <4> QED
        BY <3>1, <4>3 DEF SweepShape
    <3>3. CASE Unlink(c)
      <4>1. /\ doomed'[c] = doomed[c]
            /\ disk' = disk \ {File(Head(doomed[c]))} \/ File(Head(doomed[c])) \in strays'
        BY <1>1, <3>3, UnlinkKept
      <4> QED
        BY <2>2, <4>1
    <3>4. CASE List(c) \/ Delete(c)
      <4>1. /\ sweepAt'[c] = sweepAt[c]
            /\ ~ (Tables[sweepAt[c]] \in {"artifact", "state"})
        <5>1. CASE List(c)
          <6>0. whenSwept[c] # "delete"
            BY <1>1 DEF WebKnown, WebTypeOK
          <6>1. \/ Onward(c)
                \/ /\ sweepAt'[c] = sweepAt[c]
                   /\ webPc'[c] = IF Tables[sweepAt[c]] \in {"artifact", "state"} THEN "unlink" ELSE "delete"
            BY <1>1, <5>1, ListKept
          <6> QED
            BY <1>4, <2>2, <6>0, <6>1 DEF Onward
        <5>2. CASE Delete(c)
          <6>0. whenSwept[c] # "delete"
            BY <1>1 DEF WebKnown, WebTypeOK
          <6>1. /\ webPc[c] = "delete"
                /\ \/ Onward(c)
                   \/ /\ sweepAt'[c] = sweepAt[c]
                      /\ webPc'[c] = IF Filed(Head(doomed[c])) THEN "unlink" ELSE "delete"
            BY <1>1, <5>2, DeleteKept
          <6>2. Head(doomed[c])[1] = Tables[sweepAt[c]]
            BY <1>1, <6>1, HeadDoomed DEF Removing
          <6> QED
            BY <1>4, <2>2, <6>0, <6>1, <6>2 DEF Onward, Filed
        <5> QED
          BY <3>4, <5>1, <5>2
      <4> QED
        BY <1>4, <2>2, <3>2, <4>1 DEF Filed
    <3>5. List(c) \/ Unlink(c) \/ Delete(c)
      BY <1>4, <2>2, SweepMoves DEF Removing
    <3> QED
      BY <3>3, <3>4, <3>5
  <2> QED
    BY <2>1, <2>2
<1> QED
  BY <1>3, <1>4 DEF FilesHaveRows, Filed, File

-----------------------------------------------------------------------------
(* The tables.                                                              *)

(* What a step may add to a table, and what it must leave to be owed.       *)
LEMMA StillWithin ==
  ASSUME NEW A, NEW B, NEW P, NEW Q, NEW k \in Nat, NEW s \in Nat, NEW n \in Nat,
         IsFiniteSet(B), IsFiniteSet(P), IsFiniteSet(Q),
         Cardinality(B) <= k + Cardinality(P) + s,
         \/ A \subseteq B /\ P \subseteq Q /\ s <= n
         \/ s <= n /\ \E x, c : A \subseteq B \cup {x} /\ c \in Q /\ P \subseteq Q \ {c}
         \/ n = s + 1 /\ A \subseteq B /\ \E c : P \subseteq Q \cup {c}
  PROVE  Cardinality(A) <= k + Cardinality(Q) + n
<1>0. Cardinality(B) \in Nat /\ Cardinality(P) \in Nat /\ Cardinality(Q) \in Nat
  BY FS_CardinalityType
<1>1. CASE A \subseteq B /\ P \subseteq Q /\ s <= n
  <2>1. Cardinality(A) <= Cardinality(B) /\ Cardinality(P) <= Cardinality(Q) /\ Cardinality(A) \in Nat
    BY <1>1, FS_Subset, FS_CardinalityType
  <2> QED
    BY <1>0, <1>1, <2>1
<1>2. CASE s <= n /\ \E x, c : A \subseteq B \cup {x} /\ c \in Q /\ P \subseteq Q \ {c}
  <2>1. PICK x, c : A \subseteq B \cup {x} /\ c \in Q /\ P \subseteq Q \ {c}
    BY <1>2
  <2>2. /\ IsFiniteSet(B \cup {x})
        /\ Cardinality(B \cup {x}) = Cardinality(B) \/ Cardinality(B \cup {x}) = Cardinality(B) + 1
    BY FS_AddElement
  <2>3. IsFiniteSet(Q \ {c}) /\ Cardinality(Q \ {c}) = Cardinality(Q) - 1
    BY <2>1, FS_RemoveElement
  <2>4. /\ Cardinality(A) <= Cardinality(B \cup {x}) /\ Cardinality(A) \in Nat
        /\ Cardinality(P) <= Cardinality(Q \ {c})
    BY <2>1, <2>2, <2>3, FS_Subset, FS_CardinalityType
  <2> QED
    BY <1>0, <1>2, <2>2, <2>3, <2>4
<1>3. CASE n = s + 1 /\ A \subseteq B /\ \E c : P \subseteq Q \cup {c}
  <2>1. PICK c : P \subseteq Q \cup {c}
    BY <1>3
  <2>2. /\ IsFiniteSet(Q \cup {c})
        /\ Cardinality(Q \cup {c}) = Cardinality(Q) \/ Cardinality(Q \cup {c}) = Cardinality(Q) + 1
    BY FS_AddElement
  <2>3. /\ Cardinality(A) <= Cardinality(B) /\ Cardinality(A) \in Nat
        /\ Cardinality(P) <= Cardinality(Q \cup {c})
    BY <1>3, <2>1, <2>2, FS_Subset, FS_CardinalityType
  <2> QED
    BY <1>0, <1>3, <2>2, <2>3
<1> QED
  BY <1>1, <1>2, <1>3

(* The calls at the tables, and the tables, are finitely many.              *)
LEMMA OwingFinite ==
  ASSUME WebKnown, NEW t, NEW C
  PROVE  IsFiniteSet(Owing(t) \ C)
<1>1. Owing(t) \ C \in SUBSET AtWork
  BY DEF Owing, AtWork, Sweeping
<1>2. IsFiniteSet(AtWork)
  BY DEF WebKnown
<1> QED
  BY <1>1, <1>2, FS_Subset

(* A call that leaves another table than t owes t as before.                *)
LEMMA OnwardOwes ==
  ASSUME WebKnown, NEW c \in WebCalls, Onward(c), row'[c] = row[c],
         NEW t, Tables[sweepAt[c]] # t, c \in Owing(t)
  PROVE  c \in Owing(t)'
<1>1. sweepAt[c] \in 1..5 /\ Len(Tables) = 5
  BY TablesAre DEF WebKnown, WebTypeOK
<1>2. PICK i \in sweepAt[c]..5 : Tables[i] = t
  BY <1>1 DEF Owing
<1>3. row[c][1] = t
  BY DEF Owing
<1>4. i # sweepAt[c]
  BY <1>2
<1>5. i \in (sweepAt[c] + 1)..5
  BY <1>1, <1>2, <1>4
<1>6. webPc'[c] = "list" /\ sweepAt'[c] = sweepAt[c] + 1
  BY <1>1, <1>5 DEF Onward
<1>7. \E j \in sweepAt'[c]..Len(Tables) : Tables[j] = t
  BY <1>1, <1>2, <1>5, <1>6
<1> QED
  BY <1>3, <1>6, <1>7 DEF Owing, Sweeping

(* However the calls overlap, the tables stay within what is owed.          *)
LEMMA BoundedKept ==
  ASSUME WebInv, NEW c \in WebCalls, Begin(c) \/ WebStep(c) \/ Setback(c)
  PROVE  Bounded'
<1> USE DEF WebInv
<1>1. Alone(c) /\ WebKnown /\ WebKnown' /\ DatesThere /\ SweepShape /\ Life(c) /\ Bounded
  BY WebTypesKept
<1>a. /\ whenSwept[c] \in {"end", "pages", "remember", "write"} /\ sweepAt[c] \in 1..5
      /\ setbacks \in Nat /\ setbacks' \in Nat
  BY <1>1, TablesAre, WebAssumption DEF WebKnown, WebTypeOK
<1> SUFFICES ASSUME NEW t \in ToSet(Tables), NEW C \in SUBSET Removers(t)'
             PROVE  Cardinality((InTableOf(t) \ Removed(C))') <=
                      Keep[t] + Cardinality((Owing(t) \ C)') + setbacks'
  BY DEF Bounded
<1> DEFINE A == (InTableOf(t) \ Removed(C))'
           Q == (Owing(t) \ C)'
<1>2. IsFiniteSet(Q) /\ Keep[t] \in Nat /\ Cardinality(Q) \in Nat
  <2>1. IsFiniteSet(Q)
    <3>1. Q \in SUBSET (AtWork') /\ IsFiniteSet(AtWork')
      BY <1>1 DEF Owing, AtWork, Sweeping, WebKnown
    <3> QED
      BY <3>1, FS_Subset
  <2> QED
    BY <2>1, WebAssumption, FS_CardinalityType
<1>b. ASSUME NEW D \in SUBSET Removers(t)
      PROVE  /\ Cardinality(InTableOf(t) \ Removed(D)) <= Keep[t] + Cardinality(Owing(t) \ D) + setbacks
             /\ IsFiniteSet(InTableOf(t) \ Removed(D)) /\ IsFiniteSet(Owing(t) \ D)
  <2>1. Cardinality(InTableOf(t) \ Removed(D)) <= Keep[t] + Cardinality(Owing(t) \ D) + setbacks
    BY <1>1 DEF Bounded
  <2>2. IsFiniteSet(InTableOf(t) \ Removed(D))
    <3>1. IsFiniteSet(InTableOf(t))
      BY <1>1, ListedRows
    <3> QED
      BY <3>1, FS_Subset
  <2>3. IsFiniteSet(Owing(t) \ D)
    BY <1>1, OwingFinite
  <2> QED
    BY <2>1, <2>2, <2>3
<1> HIDE DEF A, Q
<1> DEFINE Within == Cardinality(A) <= Keep[t] + Cardinality(Q) + setbacks'
<1> SUFFICES Within
  BY DEF A, Q
<1>3. ASSUME NEW D \in SUBSET Removers(t), A \subseteq InTableOf(t) \ Removed(D),
             Owing(t) \ D \subseteq Q, setbacks <= setbacks'
      PROVE  Within
  <2> DEFINE B == InTableOf(t) \ Removed(D)
             P == Owing(t) \ D
  <2>1. Cardinality(B) <= Keep[t] + Cardinality(P) + setbacks /\ IsFiniteSet(B) /\ IsFiniteSet(P)
    BY <1>b
  <2>2. A \subseteq B /\ P \subseteq Q /\ setbacks <= setbacks'
    BY <1>3
  <2> HIDE DEF B, P
  <2> QED
    BY <1>a, <1>2, <2>1, <2>2, StillWithin
<1>c. ASSUME NEW D \in SUBSET Removers(t), NEW x, NEW e \in Q,
             A \subseteq (InTableOf(t) \ Removed(D)) \cup {x},
             Owing(t) \ D \subseteq Q \ {e}, setbacks <= setbacks'
      PROVE  Within
  <2> DEFINE B == InTableOf(t) \ Removed(D)
             P == Owing(t) \ D
  <2>1. Cardinality(B) <= Keep[t] + Cardinality(P) + setbacks /\ IsFiniteSet(B) /\ IsFiniteSet(P)
    BY <1>b
  <2>2. A \subseteq B \cup {x} /\ e \in Q /\ P \subseteq Q \ {e} /\ setbacks <= setbacks'
    BY <1>c
  <2> HIDE DEF B, P
  <2> QED
    BY <1>a, <1>2, <2>1, <2>2, StillWithin
<1>d. ASSUME NEW D \in SUBSET Removers(t), NEW e, A \subseteq InTableOf(t) \ Removed(D),
             Owing(t) \ D \subseteq Q \cup {e}, setbacks' = setbacks + 1
      PROVE  Within
  <2> DEFINE B == InTableOf(t) \ Removed(D)
             P == Owing(t) \ D
  <2>1. Cardinality(B) <= Keep[t] + Cardinality(P) + setbacks /\ IsFiniteSet(B) /\ IsFiniteSet(P)
    BY <1>b
  <2>2. A \subseteq B /\ P \subseteq Q \cup {e} /\ setbacks' = setbacks + 1
    BY <1>d
  <2> HIDE DEF B, P
  <2> QED
    BY <1>a, <1>2, <2>1, <2>2, StillWithin
<1>4. ASSUME stored' = stored, doomed' = doomed, setbacks' = setbacks,
             Removers(t)' = Removers(t), Owing(t) \subseteq Owing(t)'
      PROVE  Within
  <2>1. A = InTableOf(t) \ Removed(C)
    BY <1>4 DEF A, InTableOf, Removed
  <2>2. Owing(t) \ C \subseteq Q
    BY <1>4 DEF Q
  <2>3. C \in SUBSET Removers(t) /\ setbacks <= setbacks'
    BY <1>a, <1>4
  <2> QED
    BY <1>3, <2>1, <2>2, <2>3
<1>5. CASE Begin(c) \/ Write(c) \/ Check(c) \/ ReadState(c)
  <2>1. /\ stored' = stored /\ doomed' = doomed /\ setbacks' = setbacks /\ sweepAt' = sweepAt
        /\ webPc[c] \in {"idle", "write", "check", "read"}
        /\ webPc'[c] \in {"write", "read", "end", "insert", "check", "bridge"}
    BY <1>1, <1>5, BeginKept, WriteKept, CheckKept
  <2>2. Removers(t)' = Removers(t)
    BY <1>1, <2>1 DEF Removers, Removing, Alone
  <2>3. Owing(t) \subseteq Owing(t)'
    BY <1>1, <2>1 DEF Owing, Sweeping, Alone
  <2> QED
    BY <1>4, <2>1, <2>2, <2>3
<1>6. CASE StoresRow(c)
  <2>1. PICK r \in Rows, then \in {"end", "pages", "remember", "write"} : Storing(c, r, then)
    BY <1>6 DEF StoresRow
  <2>2. webPc'[c] = "list" /\ row'[c] = r /\ sweepAt'[c] = 1
    BY <1>1, <2>1, StoreKept
  <2>3. /\ stored' = stored \cup {r} /\ doomed' = doomed /\ setbacks' = setbacks
        /\ webPc[c] \in {"insert", "bridge", "pages", "remember"}
    BY <2>1 DEF Storing, Store
  <2>4. Removers(t)' = Removers(t)
    BY <1>1, <2>2, <2>3 DEF Removers, Removing, Alone
  <2>5. Owing(t) \subseteq Owing(t)' /\ c \notin Owing(t)
    BY <1>1, <2>3 DEF Owing, Sweeping, Alone
  <2>6. C \in SUBSET Removers(t) /\ c \notin C /\ setbacks <= setbacks'
    BY <1>a, <2>3, <2>4 DEF Removers, Removing
  <2>7. CASE r[1] = t
    <3>1. A \subseteq (InTableOf(t) \ Removed(C)) \cup {r}
      BY <2>3 DEF A, InTableOf, Removed
    <3>2. c \in Owing(t)'
      <4>1. PICK i \in 1..5 : Tables[i] = t
        BY TablesAre DEF ToSet
      <4>2. \E j \in sweepAt'[c]..Len(Tables) : Tables[j] = t
        BY <2>2, <4>1, TablesAre
      <4> QED
        BY <2>2, <2>7, <4>2 DEF Owing, Sweeping
    <3>3. c \in Q /\ Owing(t) \ C \subseteq Q \ {c}
      BY <2>5, <2>6, <3>2 DEF Q
    <3> QED
      BY <1>c, <2>6, <3>1, <3>3
  <2>8. CASE r[1] # t
    <3>1. A \subseteq InTableOf(t) \ Removed(C)
      BY <2>3, <2>8 DEF A, InTableOf, Removed
    <3>2. Owing(t) \ C \subseteq Q
      BY <2>5 DEF Q
    <3> QED
      BY <1>3, <2>6, <3>1, <3>2
  <2> QED
    BY <2>7, <2>8
<1>7. CASE List(c)
  <2> DEFINE u == Tables[sweepAt[c]]
  <2>1. /\ webPc[c] = "list" /\ u \in ToSet(Tables) /\ ToSet(doomed'[c]) \subseteq InTableOf(u)
        /\ Cardinality(InTableOf(u) \ ToSet(doomed'[c])) <= Keep[u]
        /\ \/ doomed'[c] = <<>> /\ Onward(c)
           \/ /\ doomed'[c] # <<>> /\ sweepAt'[c] = sweepAt[c]
              /\ webPc'[c] \in {"unlink", "delete"}
        /\ UNCHANGED <<stored, row, setbacks>>
    BY <1>1, <1>7, ListKept
  <2> HIDE DEF u
  <2>2. \A d \in C : d # c => d \in Removers(t) /\ doomed'[d] = doomed[d]
    BY <1>1 DEF Removers, Removing, Alone
  <2>3. \A d \in Owing(t) : d # c => d \in Owing(t)'
    BY <1>1 DEF Owing, Sweeping, Alone
  <2>4. CASE u = t /\ (c \in C \/ doomed'[c] = <<>>)
    <3>1. A \subseteq InTableOf(t) \ ToSet(doomed'[c])
      <4>1. InTableOf(t)' = InTableOf(t) /\ ToSet(<<>>) = {}
        BY <2>1 DEF InTableOf, ToSet
      <4>2. c \in C => ToSet(doomed'[c]) \subseteq Removed(C)'
        BY DEF Removed
      <4> QED
        BY <2>4, <4>1, <4>2 DEF A
    <3>2. IsFiniteSet(InTableOf(t) \ ToSet(doomed'[c]))
      <4>1. IsFiniteSet(InTableOf(t))
        BY <1>1, ListedRows
      <4> QED
        BY <4>1, FS_Subset
    <3>3. /\ Cardinality(A) <= Cardinality(InTableOf(t) \ ToSet(doomed'[c]))
          /\ Cardinality(A) \in Nat /\ Cardinality(InTableOf(t) \ ToSet(doomed'[c])) \in Nat
      BY <3>1, <3>2, FS_Subset, FS_CardinalityType
    <3>4. Cardinality(InTableOf(t) \ ToSet(doomed'[c])) <= Keep[t]
      BY <2>1, <2>4
    <3> QED
      BY <1>a, <1>2, <3>3, <3>4
  <2>5. CASE ~ (u = t /\ (c \in C \/ doomed'[c] = <<>>))
    <3>1. c \notin C
      <4> SUFFICES ASSUME c \in C PROVE FALSE
        OBVIOUS
      <4>1. webPc'[c] \in {"unlink", "delete"} /\ Tables[sweepAt'[c]] = t
        BY DEF Removers, Removing
      <4>2. sweepAt'[c] = sweepAt[c]
        BY <1>a, <2>1, <4>1 DEF Onward
      <4> QED
        BY <2>5, <4>1, <4>2 DEF u
    <3>2. C \in SUBSET Removers(t) /\ Removed(C)' = Removed(C)
      <4>1. \A d \in C : d \in Removers(t) /\ ToSet(doomed'[d]) = ToSet(doomed[d])
        BY <2>2, <3>1
      <4> QED
        BY <4>1 DEF Removed
    <3>3. c \in Owing(t) => c \in Owing(t)'
      <4>1. CASE Onward(c) /\ u # t
        BY <1>1, <2>1, <4>1, OnwardOwes DEF u
      <4>2. CASE sweepAt'[c] = sweepAt[c] /\ webPc'[c] \in {"unlink", "delete"}
        BY <2>1, <4>2 DEF Owing, Sweeping
      <4> QED
        BY <2>1, <2>5, <4>1, <4>2
    <3>4. Owing(t) \ C \subseteq Q
      BY <2>3, <3>3 DEF Q
    <3>5. A \subseteq InTableOf(t) \ Removed(C) /\ setbacks <= setbacks'
      BY <1>a, <2>1, <3>2 DEF A, InTableOf
    <3> QED
      BY <1>3, <3>2, <3>4, <3>5
  <2> QED
    BY <2>4, <2>5
<1>8. CASE Unlink(c)
  <2>1. /\ stored' = stored /\ doomed' = doomed /\ sweepAt' = sweepAt /\ row' = row
        /\ setbacks' \in {setbacks, setbacks + 1}
        /\ webPc[c] = "unlink" /\ webPc'[c] = "delete"
    BY <1>1, <1>8, UnlinkKept
  <2>2. Removers(t)' = Removers(t)
    BY <1>1, <2>1 DEF Removers, Removing, Alone
  <2>3. Owing(t) \subseteq Owing(t)'
    BY <1>1, <2>1 DEF Owing, Sweeping, Alone
  <2>4. A \subseteq InTableOf(t) \ Removed(C) /\ Owing(t) \ C \subseteq Q /\ setbacks <= setbacks'
    BY <1>a, <2>1, <2>3 DEF A, Q, InTableOf, Removed
  <2> QED
    BY <1>3, <2>2, <2>4
<1>9. CASE Delete(c)
  <2> DEFINE u == Tables[sweepAt[c]]
             h == Head(doomed[c])
  <2>1. /\ webPc[c] = "delete" /\ ToSet(doomed[c]) = {h} \cup ToSet(doomed'[c])
        /\ stored' = stored \ {h}
        /\ \/ doomed'[c] = <<>> /\ Onward(c)
           \/ /\ doomed'[c] # <<>> /\ sweepAt'[c] = sweepAt[c]
              /\ webPc'[c] \in {"unlink", "delete"}
        /\ UNCHANGED <<row, setbacks>>
    BY <1>1, <1>9, DeleteKept
  <2> HIDE DEF u, h
  <2>2. \A d \in C : d # c => d \in Removers(t) /\ doomed'[d] = doomed[d]
    BY <1>1 DEF Removers, Removing, Alone
  <2>3. \A d \in Owing(t) : d # c => d \in Owing(t)'
    BY <1>1 DEF Owing, Sweeping, Alone
  <2> DEFINE D == IF u = t THEN C \cup {c} ELSE C
  <2>4. c \in C => u = t
    <3>1. CASE doomed'[c] = <<>> /\ Onward(c)
      BY <1>a, <3>1 DEF Onward, Removers, Removing
    <3>2. CASE sweepAt'[c] = sweepAt[c]
      BY <3>2 DEF Removers, u
    <3> QED
      BY <2>1, <3>1, <3>2
  <2>5. u = t => c \in Removers(t)
    BY <2>1 DEF Removers, Removing, u
  <2>6. CASE doomed'[c] # <<>>
    <3>1. /\ sweepAt'[c] = sweepAt[c] /\ webPc'[c] \in {"unlink", "delete"}
      BY <2>1, <2>6
    <3>2. C \in SUBSET Removers(t)
      BY <2>2, <2>4, <2>5
    <3>3. Owing(t) \ C \subseteq Q
      <4>1. c \in Owing(t) => c \in Owing(t)'
        BY <2>1, <3>1 DEF Owing, Sweeping
      <4> QED
        BY <2>3, <4>1 DEF Q
    <3>4. A \subseteq InTableOf(t) \ Removed(C)
      <4> SUFFICES ASSUME NEW x \in A PROVE x \in InTableOf(t) /\ x \notin Removed(C)
        OBVIOUS
      <4>1. x \in InTableOf(t) /\ x # h /\ x \notin Removed(C)'
        BY <2>1 DEF A, InTableOf
      <4>2. ASSUME NEW d \in C PROVE x \notin ToSet(doomed[d])
        <5>1. x \notin ToSet(doomed'[d])
          BY <4>1, <4>2 DEF Removed
        <5>2. CASE d = c
          BY <2>1, <4>1, <5>1, <5>2
        <5>3. CASE d # c
          BY <2>2, <4>2, <5>1, <5>3
        <5> QED
          BY <5>2, <5>3
      <4> QED
        BY <4>1, <4>2 DEF Removed
    <3>5. setbacks <= setbacks'
      BY <1>a, <2>1
    <3> QED
      BY <1>3, <3>2, <3>3, <3>4, <3>5
  <2>7. CASE doomed'[c] = <<>>
    <3>1. Onward(c) /\ ToSet(doomed[c]) = {h}
      <4>1. ToSet(<<>>) = {}
        BY DEF ToSet
      <4> QED
        BY <2>1, <2>7, <4>1
    <3>2. c \notin C
      BY <1>a, <3>1 DEF Onward, Removers, Removing
    <3>3. D \in SUBSET Removers(t)
      BY <2>2, <2>5, <3>2
    <3>4. Owing(t) \ D \subseteq Q
      <4>1. c \in Owing(t) /\ u # t => c \in Owing(t)'
        BY <1>1, <2>1, <3>1, OnwardOwes DEF u
      <4> QED
        BY <2>3, <4>1 DEF Q
    <3>5. A \subseteq InTableOf(t) \ Removed(D)
      <4> SUFFICES ASSUME NEW x \in A PROVE x \in InTableOf(t) /\ x \notin Removed(D)
        OBVIOUS
      <4>1. x \in InTableOf(t) /\ x # h /\ x \notin Removed(C)'
        BY <2>1 DEF A, InTableOf
      <4>2. ASSUME NEW d \in D PROVE x \notin ToSet(doomed[d])
        <5>1. CASE d = c
          BY <3>1, <4>1, <5>1
        <5>2. CASE d # c
          <6>1. d \in C
            BY <4>2, <5>2
          <6>2. x \notin ToSet(doomed'[d])
            BY <4>1, <6>1 DEF Removed
          <6> QED
            BY <2>2, <5>2, <6>1, <6>2
        <5> QED
          BY <5>1, <5>2
      <4> HIDE DEF D
      <4> QED
        BY <4>1, <4>2 DEF Removed
    <3>6. setbacks <= setbacks'
      BY <1>a, <2>1
    <3> HIDE DEF D
    <3> QED
      BY <1>3, <3>3, <3>4, <3>5, <3>6
  <2> QED
    BY <2>6, <2>7
<1>10. CASE Setback(c)
  <2>1. /\ stored' = stored /\ sweepAt' = sweepAt /\ row' = row /\ setbacks' = setbacks + 1
        /\ webPc'[c] \in {"end", whenSwept[c]}
    BY <1>1, <1>10, SetbackKept
  <2>2. c \notin C /\ \A d \in C : d \in Removers(t) /\ doomed'[d] = doomed[d]
    <3>1. c \notin C
      BY <1>a, <2>1 DEF Removers, Removing
    <3>2. \A d \in C : d # c
      BY <3>1
    <3> QED
      BY <1>1, <3>1, <3>2 DEF Removers, Removing, Alone
  <2>3. Removed(C)' = Removed(C)
    <3>1. \A d \in C : ToSet(doomed'[d]) = ToSet(doomed[d])
      BY <2>2
    <3> QED
      BY <3>1 DEF Removed
  <2>4. \A d \in Owing(t) : d # c => d \in Owing(t)'
    BY <1>1 DEF Owing, Sweeping, Alone
  <2>5. A \subseteq InTableOf(t) \ Removed(C) /\ Owing(t) \ C \subseteq Q \cup {c}
    BY <2>1, <2>3, <2>4 DEF A, Q, InTableOf
  <2>6. C \in SUBSET Removers(t)
    BY <2>2
  <2> QED
    BY <1>d, <2>1, <2>5, <2>6
<1> QED
  BY <1>1, <1>5, <1>6, <1>7, <1>8, <1>9, <1>10, WebSteps

-----------------------------------------------------------------------------
(* At first there is nothing.                                               *)
LEMMA WebInitInv ==
  ASSUME WebInit
  PROVE  WebInv
<1>1. /\ stored = {} /\ dates = <<>> /\ disk = {} /\ shared = {} /\ strays = {} /\ bare = {} /\ setbacks = 0
      /\ row = [c \in WebCalls |-> HomeOf(c)] /\ sweepAt = [c \in WebCalls |-> 1]
      /\ doomed = [c \in WebCalls |-> <<>>] /\ whenSwept = [c \in WebCalls |-> "end"]
  BY DEF WebInit
<1>2. webPc \in [WebCalls -> {"idle", "end"}]
  BY DEF WebInit
<1>3. ASSUME NEW c \in WebCalls
      PROVE  /\ HomeOf(c) \in Rows /\ row[c] = HomeOf(c) /\ whenSwept[c] = "end" /\ doomed[c] = <<>>
             /\ webPc[c] \in {"idle", "end"} /\ Life(c)
  <2>1. WebTool[c] \in Capturing \cup {"persist", "restore", "crawl", "watch"}
    BY WebAssumption
  <2>2. row[c] = HomeOf(c) /\ whenSwept[c] = "end" /\ doomed[c] = <<>> /\ webPc[c] \in {"idle", "end"}
    BY <1>1, <1>2
  <2>3. \/ WebTool[c] \in Capturing /\ HomeOf(c) = <<"artifact", c>>
        \/ WebTool[c] \in {"persist", "restore"} /\ HomeOf(c) = <<"state", c>>
        \/ WebTool[c] = "crawl" /\ HomeOf(c) = <<"crawl", c>>
        \/ WebTool[c] = "watch" /\ HomeOf(c) = <<"watch", c>>
    BY <2>1 DEF HomeOf, Capturing
  <2>4. HomeOf(c) \in Rows
    BY <2>3, TablesAre DEF Rows
  <2>5. Life(c)
    BY <2>2, <2>3 DEF Life
  <2> QED
    BY <2>2, <2>4, <2>5
<1>4. AtWork = {}
  BY <1>3 DEF AtWork
<1>5. ToSet(<<>>) = {} /\ \A c \in WebCalls : ToSet(doomed[c]) = {}
  <2>1. ToSet(<<>>) = {}
    BY DEF ToSet
  <2> QED
    BY <1>3, <2>1
<1>6. WebKnown
  <2>1. dates \in Seq(Rows) /\ IsInjective(dates)
    <3>1. <<>> \in Seq(Rows) /\ IsInjective(<<>>)
      BY DEF IsInjective
    <3> QED
      BY <1>1, <3>1
  <2>2. doomed \in [WebCalls -> Seq(Rows)]
    <3>1. <<>> \in Seq(Rows)
      OBVIOUS
    <3> QED
      BY <1>1, <3>1
  <2>3. row \in [WebCalls -> Rows]
    BY <1>1, <1>3
  <2>4. sweepAt \in [WebCalls -> DOMAIN Tables]
    BY <1>1, TablesAre
  <2>5. webPc \in [WebCalls -> WebPcs] /\ whenSwept \in [WebCalls -> {"end", "pages", "remember", "write"}]
    BY <1>1, <1>2 DEF WebPcs
  <2>6. setbacks \in 0..MaxSetbacks
    BY <1>1, WebAssumption
  <2>7. IsFiniteSet(AtWork)
    BY <1>4, FS_EmptySet
  <2>8. WebTypeOK
    BY <1>1, <2>1, <2>2, <2>3, <2>4, <2>5, <2>6 DEF WebTypeOK
  <2> QED
    BY <2>2, <2>7, <2>8 DEF WebKnown
<1>7. \A r \in Rows : ~ Old(r) /\ ~ New(r)
  BY <1>1, <1>3, <1>5 DEF Old, New
<1>8. SweepShape
  BY <1>3, <1>5 DEF SweepShape, Removing
<1>9. OwnersSettled /\ SharedFiles
  BY <1>7 DEF OwnersSettled, SharedFiles
<1>10. DatesThere
  BY <1>1, <1>3 DEF DatesThere
<1>11. RowsHaveFiles /\ FilesHaveRows
  <2>1. \A c \in WebCalls : webPc[c] \notin {"check", "insert", "delete"}
    BY <1>3
  <2>2. RowsHaveFiles
    BY <1>1, <2>1 DEF RowsHaveFiles
  <2>3. FilesHaveRows
    BY <1>1, <2>1 DEF FilesHaveRows
  <2> QED
    BY <2>2, <2>3
<1>12. Bounded
  <2> SUFFICES ASSUME NEW t \in ToSet(Tables), NEW C \in SUBSET Removers(t)
               PROVE  Cardinality(InTableOf(t) \ Removed(C)) <= Keep[t] + Cardinality(Owing(t) \ C) + setbacks
    BY DEF Bounded
  <2>1. InTableOf(t) \ Removed(C) = {} /\ Owing(t) \ C = {} /\ setbacks = 0 /\ Keep[t] \in Nat
    BY <1>1, <1>3, WebAssumption DEF InTableOf, Owing, Sweeping
  <2> DEFINE A == InTableOf(t) \ Removed(C)
             Q == Owing(t) \ C
  <2>2. A = {} /\ Q = {} /\ setbacks = 0 /\ Keep[t] \in Nat
    BY <2>1
  <2> HIDE DEF A, Q
  <2>3. Cardinality(A) = 0 /\ Cardinality(Q) = 0
    BY <2>2, FS_EmptySet
  <2>4. Cardinality(A) <= Keep[t] + Cardinality(Q) + setbacks
    BY <2>2, <2>3
  <2> QED
    BY <2>4 DEF A, Q
<1> QED
  BY <1>3, <1>6, <1>8, <1>9, <1>10, <1>11, <1>12 DEF WebInv

(* Whatever the calls do, in whatever order.                                *)
LEMMA WebInvKept ==
  ASSUME WebInv, [WebNext]_webVars
  PROVE  WebInv'
<1>1. ASSUME NEW c \in WebCalls, Begin(c) \/ WebStep(c) \/ Setback(c)
      PROVE  WebInv'
  <2>1. WebKnown' /\ \A d \in WebCalls : Life(d)'
    BY <1>1, WebTypesKept, LivesKept DEF WebInv
  <2>2. SweepShape' /\ DatesThere' /\ OwnersSettled' /\ SharedFiles'
    BY <1>1, SweepKept, DatesKept, OwnersKept, SharedKept
  <2>3. RowsHaveFiles' /\ FilesHaveRows' /\ Bounded'
    BY <1>1, RowsFilesKept, FilesRowsKept, BoundedKept
  <2> QED
    BY <2>1, <2>2, <2>3 DEF WebInv
<1>2. CASE UNCHANGED webVars
  <2>1. /\ stored' = stored /\ dates' = dates /\ disk' = disk /\ webPc' = webPc /\ row' = row
        /\ sweepAt' = sweepAt /\ doomed' = doomed /\ whenSwept' = whenSwept /\ shared' = shared
        /\ strays' = strays /\ bare' = bare /\ setbacks' = setbacks
    BY <1>2 DEF webVars
  <2>2. WebKnown' /\ \A d \in WebCalls : Life(d)'
    <3>1. WebKnown'
      BY <2>1 DEF WebInv, WebKnown, WebTypeOK, AtWork
    <3>2. ASSUME NEW d \in WebCalls PROVE Life(d)'
      <4>1. Life(d)
        BY DEF WebInv
      <4> QED
        BY <2>1, <4>1 DEF Life, Sweeping
    <3> QED
      BY <3>1, <3>2
  <2>3. SweepShape' /\ DatesThere' /\ OwnersSettled' /\ SharedFiles'
    BY <2>1 DEF WebInv, SweepShape, Removing, DatesThere, OwnersSettled, SharedFiles, Old, New
  <2>4. RowsHaveFiles' /\ FilesHaveRows'
    BY <2>1 DEF WebInv, RowsHaveFiles, FilesHaveRows
  <2>5. Bounded'
    <3>1. ASSUME NEW t
          PROVE  /\ Removers(t)' = Removers(t) /\ Owing(t)' = Owing(t)
                 /\ InTableOf(t)' = InTableOf(t)
      BY <2>1 DEF Removers, Removing, InTableOf, Owing, Sweeping
    <3>2. ASSUME NEW C PROVE Removed(C)' = Removed(C)
      BY <2>1 DEF Removed
    <3> QED
      BY <2>1, <3>1, <3>2 DEF WebInv, Bounded
  <2> QED
    BY <2>2, <2>3, <2>4, <2>5 DEF WebInv
<1> QED
  BY <1>1, <1>2 DEF WebNext

(* The invariant of the web tools' storage.                                 *)
THEOREM WebInvHolds == WebSpec => []WebInv
<1>1. WebInit => WebInv
  BY WebInitInv
<1>2. WebInv /\ [WebNext]_webVars => WebInv'
  BY WebInvKept
<1> QED
  BY <1>1, <1>2, PTL DEF WebSpec

(* The types, for any calls.                                                *)
THEOREM WebTypes == WebSpec => []WebTypeOK
<1>1. WebInv => WebTypeOK
  BY DEF WebInv, WebKnown
<1> QED
  BY <1>1, WebInvHolds, PTL

(* A table has at most as many rows more than the policy allows as calls    *)
(* have stored one and not yet gone through it, and as calls failed.        *)
THEOREM TablesBounded == WebSpec => []StorageBounded
<1>1. WebInv => StorageBounded
  <2> SUFFICES ASSUME WebInv, NEW t \in DOMAIN Keep
               PROVE  Cardinality({r \in stored : r[1] = t}) <= Keep[t] + Cardinality(Owing(t)) + setbacks
    BY DEF StorageBounded, Owing
  <2>1. t \in ToSet(Tables)
    BY WebAssumption
  <2>2. {} \in SUBSET Removers(t) /\ Removed({}) = {}
    BY DEF Removed
  <2>3. Cardinality(InTableOf(t) \ Removed({})) <= Keep[t] + Cardinality(Owing(t) \ {}) + setbacks
    BY <2>1, <2>2 DEF WebInv, Bounded
  <2>4. InTableOf(t) \ Removed({}) = {r \in stored : r[1] = t} /\ Owing(t) \ {} = Owing(t)
    BY <2>2 DEF InTableOf
  <2> QED
    BY <2>3, <2>4
<1> QED
  BY <1>1, WebInvHolds, PTL

(* Rows have their files and files their rows, but for the moment between   *)
(* the removal of one and of the other, and but for what is excepted.       *)
THEOREM FilesAndRows == WebSpec => []FilesFollowRows
<1>1. WebInv => FilesFollowRows
  BY DEF WebInv, RowsHaveFiles, FilesHaveRows, FilesFollowRows
<1> QED
  BY <1>1, WebInvHolds, PTL
=============================================================================
