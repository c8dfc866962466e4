-------------------------- MODULE ToolCallsProofs --------------------------
(****************************************************************************)
(* Proofs about the calls of tools.                                         *)
(*                                                                          *)
(* ToolCalls, for any number of calls, workspaces, resources and keys, any  *)
(* tool, workspace and key of a call, and any number of requests given up.  *)
(*                                                                          *)
(* McpPool, the client of the browser's MCP server: for any number of       *)
(* operations of any kind, any number of clients that is enough for them,   *)
(* and any number of changes and faults.                                    *)
(****************************************************************************)
EXTENDS ToolCalls, McpPool, FiniteSetTheorems, TLAPS

(****************************************************************************)
(* The calls, their locks and their keys.                                   *)
(****************************************************************************)

(* A call that has the permit of its workspace's lock.                      *)
Holding == {"granted", "name"} \cup Behind \cup Leaving

(* The permit and the calls agree on who holds it.                          *)
PermitOwner ==
  /\ \A w \in Workspaces : permit[w] # None =>
       Locks(permit[w]) /\ WorkspaceOf[permit[w]] = w /\ at[permit[w]] \in Holding
  /\ \A c \in Calls : Locks(c) /\ at[c] \in Holding => permit[WorkspaceOf[c]] = c
  /\ \A c \in Calls : ~Locks(c) => at[c] \in {"idle", "check", "done"} \cup Behind

(* A queue holds calls that wait for its lock, each once.                   *)
QueueOfWaiters ==
  \A w \in Workspaces :
    /\ \A i \in 1..Len(queue[w]) :
         Locks(queue[w][i]) /\ WorkspaceOf[queue[w][i]] = w /\ at[queue[w][i]] = "queued"
    /\ \A i, j \in 1..Len(queue[w]) : queue[w][i] = queue[w][j] => i = j

(* The holder is counted and named from Count and Name to the guard's drop. *)
HolderListed ==
  \A w \in Workspaces :
    /\ activeHolders[w] =
         IF permit[w] # None /\ at[permit[w]] \in {"name", "uncount"} \cup Behind THEN 1 ELSE 0
    /\ permit[w] # None /\ at[permit[w]] \in {"uncount", "clear"} \cup Behind =>
         currentHolder[w] = permit[w]

Waiting(w) == {c \in Calls : WorkspaceOf[c] = w /\ at[c] \in {"queued", "granted"}}

(* Whoever waits is counted; whoever was dropped stays in the count.        *)
WaitersCounted ==
  \A w \in Workspaces :
    /\ IsFiniteSet(Waiting(w))
    /\ waitingRuns[w] >= Cardinality(Waiting(w))
    /\ giveUps = 0 => waitingRuns[w] = Cardinality(Waiting(w))

LockInv == CallTypeOK /\ PermitOwner /\ QueueOfWaiters /\ HolderListed /\ WaitersCounted

(* All calls with the key go through the lock of one workspace.             *)
Guarded(k) ==
  \A c, d \in Calls : KeyOf[c] = k /\ KeyOf[d] = k => Locks(c) /\ WorkspaceOf[c] = WorkspaceOf[d]

(* A key has taken effect once more than its result was forgotten only if   *)
(* its result is stored or its process runs; and nobody is about to make it *)
(* take effect who could have seen the result.                              *)
KeyOnce(k) ==
  k \notin broken =>
    /\ effects[k] <= 1 + forgotten[k]
    /\ effects[k] > forgotten[k] => k \in results \/ \E c \in Calls : KeyOf[c] = k /\ at[c] = "wait"
    /\ \A c \in Calls : KeyOf[c] = k /\ at[c] \in {"effect", "wait"} => k \notin results

KeysOnce == \A k \in IdemKeys : Guarded(k) => KeyOnce(k)

CallInv == LockInv /\ KeysOnce

-----------------------------------------------------------------------------
(* What RemoveAt leaves of a sequence.                                      *)
LEMMA RemovedAt ==
  ASSUME NEW S, NEW s \in Seq(S), NEW i \in 1..Len(s)
  PROVE  /\ RemoveAt(s, i) \in Seq(S)
         /\ Len(RemoveAt(s, i)) = Len(s) - 1
         /\ \A j \in 1..(Len(s) - 1) :
              RemoveAt(s, i)[j] = IF j < i THEN s[j] ELSE s[j + 1]
<1> DEFINE front == SubSeq(s, 1, i - 1)
           back == SubSeq(s, i + 1, Len(s))
<1>1. /\ front \in Seq(S) /\ Len(front) = i - 1
      /\ \A j \in 1..(i - 1) : front[j] = s[j]
  OBVIOUS
<1>2. /\ back \in Seq(S) /\ Len(back) = Len(s) - i
      /\ \A j \in 1..(Len(s) - i) : back[j] = s[i + j]
  OBVIOUS
<1>3. RemoveAt(s, i) = front \o back
  BY DEF RemoveAt
<1> HIDE DEF front, back
<1>4. /\ front \o back \in Seq(S)
      /\ Len(front \o back) = Len(s) - 1
  BY <1>1, <1>2
<1>5. ASSUME NEW j \in 1..(Len(s) - 1)
      PROVE  (front \o back)[j] = IF j < i THEN s[j] ELSE s[j + 1]
  <2>1. CASE j < i
    BY <1>1, <1>2, <2>1
  <2>2. CASE ~(j < i)
    <3>1. (front \o back)[j] = back[j - (i - 1)]
      BY <1>1, <1>2, <2>2
    <3>2. j - (i - 1) \in 1..(Len(s) - i) /\ i + (j - (i - 1)) = j + 1
      BY <2>2
    <3> QED
      BY <1>2, <2>2, <3>1, <3>2
  <2> QED
    BY <2>1, <2>2
<1> QED
  BY <1>3, <1>4, <1>5

(* The sets of places, and the places of a call that is not at the lock.    *)
LEMMA Places ==
  /\ Holding \subseteq Ats /\ Behind \subseteq Holding
  /\ Behind = {"lease", "lookup", "effect", "wait", "scan"}
  /\ Leaving = {"uncount", "clear", "release"}
  /\ "queued" \notin Holding /\ "enter" \notin Holding /\ "idle" \notin Holding
  /\ "check" \notin Holding /\ "done" \notin Holding
BY DEF Holding, Behind, Leaving, Ats

(* No call is on its way.                                                   *)
LEMMA CallInitInv == CallInit => CallInv
<1> SUFFICES ASSUME CallInit PROVE CallInv
  OBVIOUS
<1> USE CallAssumption DEF CallInit
<1>1. CallTypeOK
  <2>1. at \in [Calls -> Ats]
    BY DEF Ats
  <2>2. giveUps \in 0..MaxGiveUps
    OBVIOUS
  <2>3. queue \in [Workspaces -> Seq(Calls)] /\ waitingRuns \in [Workspaces -> Nat]
    OBVIOUS
  <2> QED
    BY <2>1, <2>2, <2>3 DEF CallTypeOK
<1>2. PermitOwner /\ QueueOfWaiters /\ HolderListed
  BY DEF PermitOwner, QueueOfWaiters, HolderListed, Holding, Behind, Leaving
<1>3. WaitersCounted
  <2>1. \A w \in Workspaces : Waiting(w) = {}
    BY DEF Waiting
  <2>2. \A w \in Workspaces : waitingRuns[w] = 0 /\ IsFiniteSet(Waiting(w)) /\ Cardinality(Waiting(w)) = 0
    BY <2>1, FS_EmptySet
  <2> QED
    BY <2>2 DEF WaitersCounted
<1>4. KeysOnce
  BY DEF KeysOnce, KeyOnce
<1> QED
  BY <1>1, <1>2, <1>3, <1>4 DEF CallInv, LockInv

-----------------------------------------------------------------------------
(* A step of one call that is outside the lock and stays there, or behind   *)
(* it and stays there or begins to drop its guard, leaves the lock alone.   *)
OutsideLock == {"idle", "check", "enter", "done"}
LockStay(c, to) ==
  \/ Locks(c) /\ at[c] \in OutsideLock /\ to \in OutsideLock
  \/ Locks(c) /\ at[c] \in Behind /\ to \in Behind \cup {"uncount"}
  \/ ~Locks(c) /\ to \in {"idle", "check", "done"} \cup Behind

(* What such a step keeps.                                                  *)
LEMMA LockStays ==
  ASSUME LockInv, NEW c \in Calls, NEW to, at' = [at EXCEPT ![c] = to], LockStay(c, to),
         UNCHANGED lockVars, giveUps' = 0 => giveUps = 0
  PROVE  PermitOwner' /\ QueueOfWaiters' /\ HolderListed' /\ WaitersCounted'
<1> USE DEF LockInv, lockVars
<1>1. at'[c] = to /\ \A d \in Calls : d # c => at'[d] = at[d]
  BY DEF CallTypeOK
<1>2. /\ at[c] # "queued" /\ to # "queued" /\ at[c] # "granted" /\ to # "granted"
      /\ Locks(c) => (at[c] \in Holding <=> to \in Holding)
      /\ ~Locks(c) => to \in {"idle", "check", "done"} \cup Behind
  BY DEF LockStay, OutsideLock, PermitOwner, Holding, Behind, Leaving
<1>3. /\ Locks(c) => (at[c] \in {"name", "uncount"} \cup Behind <=> to \in {"name", "uncount"} \cup Behind)
      /\ Locks(c) => (to \in {"uncount", "clear"} \cup Behind => at[c] \in {"uncount", "clear"} \cup Behind)
  BY DEF LockStay, OutsideLock, Behind, Leaving
<1>4. PermitOwner'
  BY <1>1, <1>2 DEF PermitOwner, CallTypeOK, Locks
<1>5. QueueOfWaiters'
  BY <1>1, <1>2 DEF QueueOfWaiters, CallTypeOK, Locks
<1>6. HolderListed'
  BY <1>1, <1>3 DEF HolderListed, PermitOwner, CallTypeOK
<1>7. WaitersCounted'
  <2>1. \A w \in Workspaces : Waiting(w)' = Waiting(w)
    BY <1>1, <1>2 DEF Waiting
  <2> QED
    BY <2>1 DEF WaitersCounted
<1> QED
  BY <1>4, <1>5, <1>6, <1>7

(* One waiter less, or one more.                                            *)
LEMMA WaiterLeaves ==
  ASSUME LockInv, NEW c \in Calls, at[c] \in {"queued", "granted"},
         \A v \in Workspaces : Waiting(v)' = Waiting(v) \ {c},
         \A v \in Workspaces \ {WorkspaceOf[c]} : waitingRuns'[v] = waitingRuns[v],
         \/ waitingRuns'[WorkspaceOf[c]] = waitingRuns[WorkspaceOf[c]] - 1 /\ giveUps' = giveUps
         \/ waitingRuns'[WorkspaceOf[c]] = waitingRuns[WorkspaceOf[c]] /\ giveUps' # 0
  PROVE  WaitersCounted' /\ waitingRuns'[WorkspaceOf[c]] \in Nat
<1> DEFINE w == WorkspaceOf[c]
<1> USE DEF LockInv
<1>1. w \in Workspaces /\ waitingRuns[w] \in Nat /\ Waiting(w)' = Waiting(w) \ {c}
  BY CallAssumption DEF CallTypeOK
<1>2. c \in Waiting(w) /\ IsFiniteSet(Waiting(w))
  BY <1>1 DEF Waiting, WaitersCounted
<1>3. /\ IsFiniteSet(Waiting(w)') /\ Cardinality(Waiting(w)') = Cardinality(Waiting(w)) - 1
      /\ Cardinality(Waiting(w)) \in Nat /\ Cardinality(Waiting(w)') \in Nat
  BY <1>1, <1>2, FS_RemoveElement, FS_CardinalityType
<1>4. /\ waitingRuns[w] >= Cardinality(Waiting(w))
      /\ giveUps = 0 => waitingRuns[w] = Cardinality(Waiting(w))
  BY <1>1 DEF WaitersCounted
<1>5. /\ waitingRuns'[w] >= Cardinality(Waiting(w)') /\ waitingRuns'[w] \in Nat
      /\ giveUps' = 0 => waitingRuns'[w] = Cardinality(Waiting(w)')
  BY <1>1, <1>3, <1>4
<1>6. giveUps' = 0 => giveUps = 0
  OBVIOUS
<1> HIDE DEF w
<1>7. ASSUME NEW v \in Workspaces, v # w
      PROVE  /\ IsFiniteSet(Waiting(v)') /\ waitingRuns'[v] >= Cardinality(Waiting(v)')
             /\ giveUps' = 0 => waitingRuns'[v] = Cardinality(Waiting(v)')
  <2>1. Waiting(v)' = Waiting(v)
    BY <1>7 DEF Waiting, w
  <2> QED
    BY <1>6, <1>7, <2>1 DEF WaitersCounted, w
<1> QED
  BY <1>3, <1>5, <1>7 DEF WaitersCounted, w

(* The permit, when the queue is empty and when it is not.                  *)
LEMMA PermitPassed ==
  ASSUME CallTypeOK, PermitOwner, QueueOfWaiters, NEW c \in Calls, Locks(c), at[c] \in Holding,
         NEW goes \in {"done"}, PassOn(c, goes)
  PROVE  LET w == WorkspaceOf[c] IN
           /\ w \in Workspaces /\ permit[w] = c
           /\ \/ /\ permit' = [permit EXCEPT ![w] = None] /\ queue' = queue
                 /\ at' = [at EXCEPT ![c] = goes]
              \/ \E d \in Calls \ {c} :
                   /\ Locks(d) /\ WorkspaceOf[d] = w /\ at[d] = "queued"
                   /\ \A i \in 1..Len(queue[w]) : queue[w][i] = d <=> i = 1
                   /\ queue[w] # <<>> /\ queue' = [queue EXCEPT ![w] = Tail(queue[w])]
                   /\ permit' = [permit EXCEPT ![w] = d]
                   /\ at' = [at EXCEPT ![c] = goes, ![d] = "granted"]
<1> DEFINE w == WorkspaceOf[c]
<1>1. w \in Workspaces /\ permit[w] = c
  BY CallAssumption DEF PermitOwner
<1>2. CASE queue[w] = <<>>
  BY <1>1, <1>2 DEF PassOn
<1>3. CASE queue[w] # <<>>
  <2> DEFINE d == Head(queue[w])
  <2>1. queue[w] \in Seq(Calls) /\ Len(queue[w]) >= 1 /\ d = queue[w][1] /\ d \in Calls
    BY <1>1, <1>3 DEF CallTypeOK
  <2>2. Locks(d) /\ WorkspaceOf[d] = w /\ at[d] = "queued"
    BY <1>1, <2>1 DEF QueueOfWaiters
  <2>3. \A i \in 1..Len(queue[w]) : queue[w][i] = d <=> i = 1
    BY <1>1, <2>1 DEF QueueOfWaiters
  <2>4. d # c
    BY <2>2, Places
  <2> QED
    BY <1>1, <1>3, <2>1, <2>2, <2>3, <2>4 DEF PassOn
<1> QED
  BY <1>2, <1>3

(* What it makes of the lock: the first waiter, if there is one, holds it,  *)
(* and is neither counted nor named yet.                                    *)
LEMMA LockPasses ==
  ASSUME LockInv, NEW c \in Calls, Locks(c), at[c] \in {"granted", "release"},
         PassOn(c, "done"), UNCHANGED <<activeHolders, currentHolder>>
  PROVE  /\ at' \in [Calls -> Ats] /\ queue' \in [Workspaces -> Seq(Calls)]
         /\ permit' \in [Workspaces -> Calls \cup {None}]
         /\ PermitOwner' /\ QueueOfWaiters' /\ HolderListed'
         /\ \A w \in Workspaces : Waiting(w)' = Waiting(w) \ {c}
         /\ \A d \in Calls : at'[d] \in {"effect", "wait"} => at[d] = at'[d]
         /\ \A d \in Calls : at[d] \in {"effect", "wait"} => at[d] = at'[d]
<1> DEFINE w == WorkspaceOf[c]
<1> USE DEF LockInv
<1>1. c \in Calls /\ at[c] \in Holding /\ "done" \in {"done"}
  BY DEF Holding, Leaving
<1>2. /\ w \in Workspaces /\ permit[w] = c
      /\ \/ /\ permit' = [permit EXCEPT ![w] = None] /\ queue' = queue
            /\ at' = [at EXCEPT ![c] = "done"]
         \/ \E d \in Calls \ {c} :
              /\ Locks(d) /\ WorkspaceOf[d] = w /\ at[d] = "queued"
              /\ \A i \in 1..Len(queue[w]) : queue[w][i] = d <=> i = 1
              /\ queue[w] # <<>> /\ queue' = [queue EXCEPT ![w] = Tail(queue[w])]
              /\ permit' = [permit EXCEPT ![w] = d]
              /\ at' = [at EXCEPT ![c] = "done", ![d] = "granted"]
  BY <1>1, PermitPassed
<1>3. activeHolders[w] = 0 /\ activeHolders'[w] = 0
  BY <1>2 DEF HolderListed, Behind
<1> HIDE DEF w
<1>4. None \notin Calls
  BY CallAssumption
<1>5. CASE /\ permit' = [permit EXCEPT ![w] = None] /\ queue' = queue
           /\ at' = [at EXCEPT ![c] = "done"]
  <2>1. at'[c] = "done" /\ \A d \in Calls : d # c => at'[d] = at[d]
    BY <1>5 DEF CallTypeOK
  <2>2. permit'[w] = None /\ \A v \in Workspaces : v # w => permit'[v] = permit[v]
    BY <1>2, <1>5 DEF CallTypeOK
  <2>3. /\ at' \in [Calls -> Ats] /\ queue' \in [Workspaces -> Seq(Calls)]
        /\ permit' \in [Workspaces -> Calls \cup {None}]
    BY <1>5 DEF CallTypeOK, Ats
  <2>8. ASSUME NEW v \in Workspaces, v # w, permit[v] # None
        PROVE  permit[v] \in Calls \ {c} /\ at'[permit[v]] = at[permit[v]]
    BY <1>2, <2>1, <2>8 DEF PermitOwner, CallTypeOK, w
  <2>4. PermitOwner'
    <3>1. ASSUME NEW v \in Workspaces, permit'[v] # None
          PROVE  Locks(permit'[v]) /\ WorkspaceOf[permit'[v]] = v /\ at'[permit'[v]] \in Holding
      BY <2>2, <2>8, <3>1 DEF PermitOwner
    <3>2. ASSUME NEW e \in Calls, Locks(e), at'[e] \in Holding PROVE permit'[WorkspaceOf[e]] = e
      <4>1. e # c /\ WorkspaceOf[e] \in Workspaces
        BY <2>1, <3>2, Places, CallAssumption
      <4> QED
        BY <1>2, <2>1, <2>2, <3>2, <4>1 DEF PermitOwner
    <3>3. \A e \in Calls : ~Locks(e) => at'[e] \in {"idle", "check", "done"} \cup Behind
      BY <2>1 DEF PermitOwner
    <3> QED
      BY <3>1, <3>2, <3>3 DEF PermitOwner, Locks
  <2>5. QueueOfWaiters'
    <3>1. ASSUME NEW v \in Workspaces, NEW i \in 1..Len(queue[v])
          PROVE  Locks(queue[v][i]) /\ WorkspaceOf[queue[v][i]] = v /\ at'[queue[v][i]] = "queued"
      <4>1. queue[v][i] \in Calls /\ at[queue[v][i]] = "queued" /\ at[c] # "queued"
        BY <3>1 DEF QueueOfWaiters, CallTypeOK
      <4> QED
        BY <2>1, <3>1, <4>1 DEF QueueOfWaiters
    <3>2. \A v \in Workspaces : \A i, j \in 1..Len(queue[v]) : queue[v][i] = queue[v][j] => i = j
      BY DEF QueueOfWaiters
    <3> QED
      BY <1>5, <3>1, <3>2 DEF QueueOfWaiters, Locks
  <2>6. HolderListed'
    BY <1>2, <1>3, <2>2, <2>8 DEF HolderListed
  <2>7. \A v \in Workspaces : Waiting(v)' = Waiting(v) \ {c}
    BY <2>1 DEF Waiting
  <2> QED
    BY <2>1, <2>3, <2>4, <2>5, <2>6, <2>7
<1>6. ASSUME NEW d \in Calls \ {c},
             /\ Locks(d) /\ WorkspaceOf[d] = w /\ at[d] = "queued"
             /\ \A i \in 1..Len(queue[w]) : queue[w][i] = d <=> i = 1
             /\ queue[w] # <<>> /\ queue' = [queue EXCEPT ![w] = Tail(queue[w])]
             /\ permit' = [permit EXCEPT ![w] = d]
             /\ at' = [at EXCEPT ![c] = "done", ![d] = "granted"]
      PROVE  /\ at' \in [Calls -> Ats] /\ queue' \in [Workspaces -> Seq(Calls)]
             /\ permit' \in [Workspaces -> Calls \cup {None}]
             /\ PermitOwner' /\ QueueOfWaiters' /\ HolderListed'
             /\ \A v \in Workspaces : Waiting(v)' = Waiting(v) \ {c}
             /\ \A e \in Calls : at'[e] \in {"effect", "wait"} => at[e] = at'[e]
             /\ \A e \in Calls : at[e] \in {"effect", "wait"} => at[e] = at'[e]
  <2>1. /\ at'[c] = "done" /\ at'[d] = "granted"
        /\ \A e \in Calls : e # c /\ e # d => at'[e] = at[e]
    BY <1>6 DEF CallTypeOK
  <2>2. permit'[w] = d /\ \A v \in Workspaces : v # w => permit'[v] = permit[v]
    BY <1>2, <1>6 DEF CallTypeOK
  <2>3. /\ queue[w] \in Seq(Calls) /\ Tail(queue[w]) \in Seq(Calls)
        /\ Len(Tail(queue[w])) = Len(queue[w]) - 1
        /\ \A i \in 1..Len(Tail(queue[w])) : Tail(queue[w])[i] = queue[w][i + 1]
    BY <1>2, <1>6 DEF CallTypeOK
  <2>4. /\ queue'[w] = Tail(queue[w]) /\ \A v \in Workspaces : v # w => queue'[v] = queue[v]
        /\ queue' \in [Workspaces -> Seq(Calls)]
    <3>1. queue \in [Workspaces -> Seq(Calls)]
      BY DEF CallTypeOK
    <3>2. w \in Workspaces /\ queue' = [queue EXCEPT ![w] = Tail(queue[w])]
      BY <1>2, <1>6
    <3>3. Tail(queue[w]) \in Seq(Calls)
      BY <2>3
    <3> QED
      BY <3>1, <3>2, <3>3
  <2>5. at' \in [Calls -> Ats] /\ permit' \in [Workspaces -> Calls \cup {None}]
    BY <1>6 DEF CallTypeOK, Ats
  <2>10. ASSUME NEW v \in Workspaces, v # w, permit[v] # None
         PROVE  permit[v] \in Calls \ {c, d} /\ at'[permit[v]] = at[permit[v]]
    BY <1>2, <1>6, <2>1, <2>10, Places DEF PermitOwner, CallTypeOK, w
  <2>6. PermitOwner'
    <3>1. \A v \in Workspaces : permit'[v] # None =>
            Locks(permit'[v]) /\ WorkspaceOf[permit'[v]] = v /\ at'[permit'[v]] \in Holding
      <4> TAKE v \in Workspaces
      <4>1. CASE v = w
        BY <1>6, <2>1, <2>2, <4>1 DEF Holding
      <4>2. CASE v # w
        BY <2>2, <2>10, <4>2 DEF PermitOwner
      <4> QED
        BY <4>1, <4>2
    <3>2. \A e \in Calls : Locks(e) /\ at'[e] \in Holding => permit'[WorkspaceOf[e]] = e
      <4> TAKE e \in Calls
      <4>1. WorkspaceOf[e] \in Workspaces
        BY CallAssumption
      <4>2. CASE e = d
        BY <1>6, <2>2, <4>2
      <4>3. CASE e = c
        BY <2>1, <4>3, Places
      <4>4. CASE e # d /\ e # c
        BY <1>2, <2>1, <2>2, <4>1, <4>4 DEF PermitOwner, w
      <4> QED
        BY <4>2, <4>3, <4>4
    <3>3. \A e \in Calls : ~Locks(e) => at'[e] \in {"idle", "check", "done"} \cup Behind
      BY <1>6, <2>1 DEF PermitOwner
    <3> QED
      BY <3>1, <3>2, <3>3 DEF PermitOwner, Locks
  <2>7. QueueOfWaiters'
    <3>4. ASSUME NEW i \in 1..Len(queue'[w])
          PROVE  i + 1 \in 1..Len(queue[w]) /\ queue'[w][i] = queue[w][i + 1] /\ i + 1 # 1
      BY <2>3, <2>4, <3>4
    <3>1. ASSUME NEW v \in Workspaces, v # w
          PROVE  \A i \in 1..Len(queue'[v]) : queue'[v][i] # c /\ queue'[v][i] # d
      BY <1>6, <2>4, <3>1 DEF QueueOfWaiters
    <3>2. \A i \in 1..Len(queue'[w]) : queue'[w][i] # c /\ queue'[w][i] # d
      <4> SUFFICES ASSUME NEW i \in 1..Len(queue'[w]) PROVE queue'[w][i] # c /\ queue'[w][i] # d
        OBVIOUS
      <4>1. i + 1 \in 1..Len(queue[w]) /\ queue'[w][i] = queue[w][i + 1] /\ i + 1 # 1
        BY <3>4
      <4>2. at[queue[w][i + 1]] = "queued"
        BY <1>2, <4>1 DEF QueueOfWaiters
      <4>3. queue[w][i + 1] # c
        BY <1>1, <4>2, Places
      <4>4. queue[w][i + 1] # d
        BY <1>6, <4>1
      <4> QED
        BY <4>1, <4>3, <4>4
    <3>3. ASSUME NEW v \in Workspaces, NEW i \in 1..Len(queue'[v])
          PROVE  /\ Locks(queue'[v][i]) /\ WorkspaceOf[queue'[v][i]] = v
                 /\ at[queue'[v][i]] = "queued" /\ queue'[v][i] \in Calls
                 /\ \A j \in 1..Len(queue'[v]) : queue'[v][i] = queue'[v][j] => i = j
      <4>1. CASE v = w
        <5>1. i \in 1..Len(queue'[w])
          BY <3>3, <4>1
        <5>2. /\ Locks(queue'[w][i]) /\ WorkspaceOf[queue'[w][i]] = w /\ at[queue'[w][i]] = "queued"
              /\ queue'[w][i] \in Calls
          BY <1>2, <2>3, <3>4, <5>1 DEF QueueOfWaiters
        <5>3. ASSUME NEW j \in 1..Len(queue'[w]), queue'[w][i] = queue'[w][j] PROVE i = j
          <6>1. i + 1 = j + 1
            BY <1>2, <3>4, <5>1, <5>3 DEF QueueOfWaiters
          <6>2. i \in Nat /\ j \in Nat
            BY <2>3, <2>4, <5>1, <5>3
          <6> QED
            BY <6>1, <6>2
        <5> QED
          BY <4>1, <5>2, <5>3
      <4>2. CASE v # w
        <5>1. queue'[v] = queue[v] /\ queue[v] \in Seq(Calls) /\ i \in 1..Len(queue[v])
          BY <2>4, <3>3, <4>2 DEF CallTypeOK
        <5> QED
          BY <5>1 DEF QueueOfWaiters
      <4> QED
        BY <4>1, <4>2
    <3> QED
      BY <2>1, <3>1, <3>2, <3>3 DEF QueueOfWaiters, Locks
  <2>8. HolderListed'
    <3>1. ASSUME NEW v \in Workspaces, v # w
          PROVE  /\ activeHolders'[v] =
                      IF permit'[v] # None /\ at'[permit'[v]] \in {"name", "uncount"} \cup Behind THEN 1 ELSE 0
                 /\ permit'[v] # None /\ at'[permit'[v]] \in {"uncount", "clear"} \cup Behind =>
                      currentHolder'[v] = permit'[v]
      BY <2>2, <2>10, <3>1 DEF HolderListed
    <3>2. at'[permit'[w]] \notin {"name", "uncount", "clear"} \cup Behind
      BY <2>1, <2>2 DEF Behind
    <3> QED
      BY <1>3, <3>1, <3>2 DEF HolderListed
  <2>9. \A v \in Workspaces : Waiting(v)' = Waiting(v) \ {c}
    BY <1>6, <2>1 DEF Waiting
  <2> QED
    BY <1>6, <2>1, <2>4, <2>5, <2>6, <2>7, <2>8, <2>9
<1> QED
  BY <1>2, <1>5, <1>6

-----------------------------------------------------------------------------
(* The steps of a call on the lock, one after the other.                    *)

(* acquire: the permit if it is free, the end of the queue if not.          *)
LEMMA EnterKeepsLock ==
  ASSUME LockInv, NEW c \in Calls, Locks(c), Enter(c)
  PROVE  LockInv'
<1> DEFINE w == WorkspaceOf[c]
<1> USE DEF LockInv
<1>1. w \in Workspaces /\ None \notin Calls /\ at[c] = "enter"
  BY CallAssumption DEF Enter, Move
<1>2. UNCHANGED <<activeHolders, currentHolder, callLease, results, shells, effects, broken, forgotten, giveUps>>
  BY DEF Enter, effectVars
<1>3. waitingRuns' = [waitingRuns EXCEPT ![w] = waitingRuns[w] + 1]
  BY DEF Enter
<1> HIDE DEF w
<1>4. WaitersCounted' /\ waitingRuns' \in [Workspaces -> Nat]
  <2>1. \E to \in {"granted", "queued"} : at' = [at EXCEPT ![c] = to]
    BY DEF Enter, Move
  <2>2. at'[c] \in {"granted", "queued"} /\ \A d \in Calls : d # c => at'[d] = at[d]
    BY <2>1 DEF CallTypeOK
  <2>3. Waiting(w)' = Waiting(w) \cup {c} /\ c \notin Waiting(w)
    BY <1>1, <2>2 DEF Waiting, w
  <2>4. \A v \in Workspaces : v # w => Waiting(v)' = Waiting(v)
    BY <2>2 DEF Waiting, w
  <2>5. /\ IsFiniteSet(Waiting(w)') /\ Cardinality(Waiting(w)') = Cardinality(Waiting(w)) + 1
        /\ Cardinality(Waiting(w)) \in Nat
    BY <1>1, <2>3, FS_AddElement, FS_CardinalityType DEF WaitersCounted
  <2>6. waitingRuns'[w] = waitingRuns[w] + 1 /\ \A v \in Workspaces : v # w => waitingRuns'[v] = waitingRuns[v]
    BY <1>1, <1>3 DEF CallTypeOK
  <2>7. waitingRuns' \in [Workspaces -> Nat] /\ waitingRuns[w] \in Nat
    BY <1>1, <1>3 DEF CallTypeOK
  <2>8. /\ waitingRuns'[w] >= Cardinality(Waiting(w)')
        /\ giveUps' = 0 => waitingRuns'[w] = Cardinality(Waiting(w)')
    BY <1>1, <1>2, <2>5, <2>6, <2>7 DEF WaitersCounted
  <2> QED
    BY <1>2, <2>4, <2>5, <2>6, <2>7, <2>8 DEF WaitersCounted
<1>5. CASE permit[w] = None
  <2>1. /\ at' = [at EXCEPT ![c] = "granted"] /\ permit' = [permit EXCEPT ![w] = c] /\ queue' = queue
    BY <1>5 DEF Enter, Move, w
  <2>2. at'[c] = "granted" /\ \A d \in Calls : d # c => at'[d] = at[d]
    BY <2>1 DEF CallTypeOK
  <2>3. permit'[w] = c /\ \A v \in Workspaces : v # w => permit'[v] = permit[v]
    BY <1>1, <2>1 DEF CallTypeOK
  <2>4. ASSUME NEW v \in Workspaces, v # w, permit[v] # None
        PROVE  permit[v] \in Calls \ {c} /\ at'[permit[v]] = at[permit[v]]
    BY <2>2, <2>4 DEF PermitOwner, CallTypeOK, w
  <2>5. PermitOwner'
    <3>1. ASSUME NEW v \in Workspaces, permit'[v] # None
          PROVE  Locks(permit'[v]) /\ WorkspaceOf[permit'[v]] = v /\ at'[permit'[v]] \in Holding
      <4>1. CASE v = w
        BY <2>2, <2>3, <4>1 DEF Holding, w
      <4>2. CASE v # w
        BY <2>3, <2>4, <3>1, <4>2 DEF PermitOwner
      <4> QED
        BY <4>1, <4>2
    <3>2. ASSUME NEW e \in Calls, Locks(e), at'[e] \in Holding PROVE permit'[WorkspaceOf[e]] = e
      <4>1. WorkspaceOf[e] \in Workspaces
        BY CallAssumption
      <4> QED
        BY <1>5, <1>1, <2>2, <2>3, <3>2, <4>1 DEF PermitOwner, w
    <3>3. \A e \in Calls : ~Locks(e) => at'[e] \in {"idle", "check", "done"} \cup Behind
      BY <2>2 DEF PermitOwner
    <3> QED
      BY <3>1, <3>2, <3>3 DEF PermitOwner, Locks
  <2>6. QueueOfWaiters'
    BY <1>1, <2>1, <2>2 DEF QueueOfWaiters, CallTypeOK, Locks
  <2>7. HolderListed'
    <3>1. at'[permit'[w]] \notin {"name", "uncount", "clear"} \cup Behind
      BY <2>2, <2>3 DEF Behind
    <3> QED
      BY <1>2, <1>5, <2>3, <2>4, <3>1 DEF HolderListed
  <2>8. CallTypeOK'
    <3>1. at' \in [Calls -> Ats] /\ permit' \in [Workspaces -> Calls \cup {None}]
      BY <2>1 DEF CallTypeOK, Ats
    <3> QED
      BY <1>2, <1>4, <2>1, <3>1 DEF CallTypeOK
  <2> QED
    BY <1>4, <2>5, <2>6, <2>7, <2>8
<1>6. CASE permit[w] # None
  <2>1. /\ at' = [at EXCEPT ![c] = "queued"] /\ permit' = permit
        /\ queue' = [queue EXCEPT ![w] = Append(queue[w], c)]
    BY <1>6 DEF Enter, Move, w
  <2>2. at'[c] = "queued" /\ \A d \in Calls : d # c => at'[d] = at[d]
    BY <2>1 DEF CallTypeOK
  <2>3. ASSUME NEW v \in Workspaces, permit[v] # None
        PROVE  permit[v] \in Calls \ {c} /\ at'[permit[v]] = at[permit[v]]
    BY <1>1, <2>2, <2>3, Places DEF PermitOwner, CallTypeOK
  <2>4. PermitOwner'
    BY <2>1, <2>2, <2>3, Places DEF PermitOwner, Locks
  <2>5. HolderListed'
    BY <1>2, <2>1, <2>3 DEF HolderListed
  <2>6. /\ queue[w] \in Seq(Calls) /\ queue'[w] = Append(queue[w], c)
        /\ queue' \in [Workspaces -> Seq(Calls)]
        /\ \A v \in Workspaces : v # w => queue'[v] = queue[v]
    BY <1>1, <2>1 DEF CallTypeOK
  <2>7. QueueOfWaiters'
    <3>1. ASSUME NEW v \in Workspaces, NEW i \in 1..Len(queue[v])
          PROVE  queue[v][i] # c /\ queue[v][i] \in Calls
      BY <1>1, <3>1 DEF QueueOfWaiters, CallTypeOK
    <3>2. ASSUME NEW v \in Workspaces, v # w
          PROVE  /\ \A i \in 1..Len(queue'[v]) :
                      Locks(queue'[v][i]) /\ WorkspaceOf[queue'[v][i]] = v /\ at'[queue'[v][i]] = "queued"
                 /\ \A i, j \in 1..Len(queue'[v]) : queue'[v][i] = queue'[v][j] => i = j
      BY <2>2, <2>6, <3>1, <3>2 DEF QueueOfWaiters
    <3>3. \A i \in 1..Len(queue'[w]) :
            /\ i \in Nat
            /\ \/ i \in 1..Len(queue[w]) /\ queue'[w][i] = queue[w][i]
               \/ i = Len(queue[w]) + 1 /\ queue'[w][i] = c
      BY <2>6
    <3>4. \A i \in 1..Len(queue'[w]) :
            Locks(queue'[w][i]) /\ WorkspaceOf[queue'[w][i]] = w /\ at'[queue'[w][i]] = "queued"
      BY <1>1, <2>2, <3>1, <3>3 DEF QueueOfWaiters, w
    <3>5. \A i, j \in 1..Len(queue'[w]) : queue'[w][i] = queue'[w][j] => i = j
      BY <1>1, <3>1, <3>3 DEF QueueOfWaiters
    <3> QED
      BY <3>2, <3>4, <3>5 DEF QueueOfWaiters, Locks
  <2>8. CallTypeOK'
    <3>1. at' \in [Calls -> Ats]
      BY <2>1 DEF CallTypeOK, Ats
    <3> QED
      BY <1>2, <1>4, <2>1, <2>6, <3>1 DEF CallTypeOK
  <2> QED
    BY <1>4, <2>4, <2>5, <2>7, <2>8
<1> QED
  BY <1>5, <1>6

(* Out of the queue: what is left of it are waiters, each once.             *)
LEMMA QueueLeft ==
  ASSUME LockInv, NEW c \in Calls, Locks(c), Move(c, "queued", "done"), LeaveQueue(c),
         UNCHANGED <<permit, activeHolders, currentHolder>>
  PROVE  /\ at' \in [Calls -> Ats] /\ queue' \in [Workspaces -> Seq(Calls)]
         /\ PermitOwner' /\ QueueOfWaiters' /\ HolderListed'
         /\ \A w \in Workspaces : Waiting(w)' = Waiting(w) \ {c}
<1> DEFINE w == WorkspaceOf[c]
<1> USE DEF LockInv
<1>1. w \in Workspaces /\ at[c] = "queued" /\ at' = [at EXCEPT ![c] = "done"]
  BY CallAssumption DEF Move
<1>2. PICK i \in 1..Len(queue[w]) : queue[w][i] = c /\ queue' = [queue EXCEPT ![w] = RemoveAt(queue[w], i)]
  BY DEF LeaveQueue
<1> HIDE DEF w
<1>3. at'[c] = "done" /\ (\A d \in Calls : d # c => at'[d] = at[d]) /\ at' \in [Calls -> Ats]
  BY <1>1 DEF CallTypeOK, Ats
<1>4. queue[w] \in Seq(Calls) /\ i \in 1..Len(queue[w])
  BY <1>1, <1>2 DEF CallTypeOK
<1>5. /\ RemoveAt(queue[w], i) \in Seq(Calls)
      /\ Len(RemoveAt(queue[w], i)) = Len(queue[w]) - 1
      /\ \A j \in 1..(Len(queue[w]) - 1) :
           RemoveAt(queue[w], i)[j] = IF j < i THEN queue[w][j] ELSE queue[w][j + 1]
  BY <1>4, RemovedAt
<1>6. /\ queue'[w] = RemoveAt(queue[w], i) /\ queue' \in [Workspaces -> Seq(Calls)]
      /\ \A v \in Workspaces : v # w => queue'[v] = queue[v]
  BY <1>1, <1>2, <1>5 DEF CallTypeOK
<1>7. ASSUME NEW v \in Workspaces, permit[v] # None
      PROVE  permit[v] \in Calls \ {c} /\ at'[permit[v]] = at[permit[v]]
  BY <1>1, <1>3, <1>7, Places DEF PermitOwner, CallTypeOK
<1>8. PermitOwner'
  BY <1>3, <1>7, Places DEF PermitOwner, Locks
<1>9. HolderListed'
  BY <1>7 DEF HolderListed
<1>10. QueueOfWaiters'
  <2>1. ASSUME NEW j \in 1..Len(queue'[w])
        PROVE  \E k \in 1..Len(queue[w]) :
                 k # i /\ queue'[w][j] = queue[w][k] /\ k = IF j < i THEN j ELSE j + 1
    <3> DEFINE k == IF j < i THEN j ELSE j + 1
    <3>1. j \in 1..(Len(queue[w]) - 1) /\ k \in 1..Len(queue[w]) /\ k # i
      BY <1>4, <1>5, <1>6, <2>1
    <3>2. queue'[w][j] = queue[w][k]
      BY <1>5, <1>6, <3>1
    <3> QED
      BY <3>1, <3>2
  <2>2. \A j \in 1..Len(queue'[w]) :
          /\ Locks(queue'[w][j]) /\ WorkspaceOf[queue'[w][j]] = w /\ at'[queue'[w][j]] = "queued"
    BY <1>1, <1>2, <1>3, <1>4, <2>1 DEF QueueOfWaiters
  <2>3. ASSUME NEW j \in 1..Len(queue'[w]), NEW l \in 1..Len(queue'[w]), queue'[w][j] = queue'[w][l]
        PROVE  j = l
    <3>1. (IF j < i THEN j ELSE j + 1) = (IF l < i THEN l ELSE l + 1)
      BY <1>1, <2>1, <2>3 DEF QueueOfWaiters
    <3>2. j \in Nat /\ l \in Nat /\ i \in Nat
      BY <1>4, <1>6, <2>3
    <3> QED
      BY <3>1, <3>2
  <2>4. ASSUME NEW v \in Workspaces, v # w, NEW j \in 1..Len(queue[v])
        PROVE  queue[v][j] # c /\ queue[v][j] \in Calls
    BY <2>4 DEF QueueOfWaiters, CallTypeOK, w
  <2>5. ASSUME NEW v \in Workspaces, v # w
        PROVE  /\ \A j \in 1..Len(queue'[v]) :
                    Locks(queue'[v][j]) /\ WorkspaceOf[queue'[v][j]] = v /\ at'[queue'[v][j]] = "queued"
               /\ \A j, l \in 1..Len(queue'[v]) : queue'[v][j] = queue'[v][l] => j = l
    <3>1. queue'[v] = queue[v]
      BY <1>6, <2>5
    <3>2. ASSUME NEW j \in 1..Len(queue[v])
          PROVE  /\ Locks(queue[v][j]) /\ WorkspaceOf[queue[v][j]] = v
                 /\ at'[queue[v][j]] = at[queue[v][j]] /\ at[queue[v][j]] = "queued"
      BY <1>3, <2>4, <2>5 DEF QueueOfWaiters
    <3>3. \A j, l \in 1..Len(queue[v]) : queue[v][j] = queue[v][l] => j = l
      BY DEF QueueOfWaiters
    <3> QED
      BY <3>1, <3>2, <3>3
  <2>6. ASSUME NEW v \in Workspaces
        PROVE  /\ \A j \in 1..Len(queue'[v]) :
                    Locks(queue'[v][j]) /\ WorkspaceOf[queue'[v][j]] = v /\ at'[queue'[v][j]] = "queued"
               /\ \A j, l \in 1..Len(queue'[v]) : queue'[v][j] = queue'[v][l] => j = l
    BY <2>2, <2>3, <2>5
  <2> QED
    BY <2>6 DEF QueueOfWaiters, Locks
<1>11. \A v \in Workspaces : Waiting(v)' = Waiting(v) \ {c}
  BY <1>3 DEF Waiting
<1> QED
  BY <1>3, <1>6, <1>8, <1>9, <1>10, <1>11

(* Only a call of a tool that needs the lock is at the lock.                *)
LEMMA AtTheLock ==
  ASSUME LockInv, NEW c \in Calls,
         at[c] \in {"enter", "queued", "granted", "name"} \cup Leaving
  PROVE  Locks(c)
BY DEF LockInv, PermitOwner, Behind, Leaving

(* The holder goes on: it stays the holder, and the others what they are.   *)
LEMMA HolderGoesOn ==
  ASSUME LockInv, NEW c \in Calls, Locks(c), at[c] \in Holding, NEW to \in Holding,
         at' = [at EXCEPT ![c] = to], UNCHANGED <<queue, permit>>
  PROVE  /\ WorkspaceOf[c] \in Workspaces /\ permit[WorkspaceOf[c]] = c /\ at'[c] = to
         /\ at' \in [Calls -> Ats] /\ PermitOwner' /\ QueueOfWaiters'
         /\ \A v \in Workspaces : v # WorkspaceOf[c] /\ permit[v] # None =>
              at'[permit[v]] = at[permit[v]]
         /\ to # "granted" => \A v \in Workspaces : Waiting(v)' = Waiting(v) \ {c}
<1> USE DEF LockInv
<1>1. WorkspaceOf[c] \in Workspaces /\ permit[WorkspaceOf[c]] = c
  BY CallAssumption DEF PermitOwner
<1>2. at'[c] = to /\ (\A d \in Calls : d # c => at'[d] = at[d]) /\ at' \in [Calls -> Ats]
  BY Places DEF CallTypeOK
<1>3. ASSUME NEW v \in Workspaces, permit[v] # None
      PROVE  permit[v] \in Calls /\ (v # WorkspaceOf[c] => permit[v] # c)
  BY <1>3 DEF PermitOwner, CallTypeOK
<1>4. PermitOwner'
  <2>1. \A v \in Workspaces : permit'[v] # None =>
          Locks(permit'[v]) /\ WorkspaceOf[permit'[v]] = v /\ at'[permit'[v]] \in Holding
    BY <1>2, <1>3 DEF PermitOwner
  <2>2. \A e \in Calls : Locks(e) /\ at'[e] \in Holding => permit'[WorkspaceOf[e]] = e
    BY <1>1, <1>2 DEF PermitOwner
  <2>3. \A e \in Calls : ~Locks(e) => at'[e] \in {"idle", "check", "done"} \cup Behind
    BY <1>2 DEF PermitOwner
  <2> QED
    BY <2>1, <2>2, <2>3 DEF PermitOwner, Locks
<1>5. QueueOfWaiters'
  BY <1>2, Places DEF QueueOfWaiters, CallTypeOK, Locks
<1>6. to # "granted" => \A v \in Workspaces : Waiting(v)' = Waiting(v) \ {c}
  BY <1>2, Places DEF Waiting
<1>7. \A v \in Workspaces : v # WorkspaceOf[c] /\ permit[v] # None => at'[permit[v]] = at[permit[v]]
  BY <1>2, <1>3
<1> QED
  BY <1>1, <1>2, <1>4, <1>5, <1>6, <1>7

(* Waiters are counted as before when no waiter moved.                      *)
LEMMA WaitersStay ==
  ASSUME LockInv, NEW c \in Calls, at[c] \notin {"queued", "granted"},
         \A w \in Workspaces : Waiting(w)' = Waiting(w) \ {c}, UNCHANGED waitingRuns,
         giveUps' = 0 => giveUps = 0
  PROVE  WaitersCounted'
<1>1. \A w \in Workspaces : Waiting(w)' = Waiting(w)
  BY DEF Waiting
<1> QED
  BY <1>1 DEF LockInv, WaitersCounted

(* The waiter that times out counts itself out.                             *)
LEMMA TimeoutKeepsLock ==
  ASSUME LockInv, NEW c \in Calls, LockTimeout(c)
  PROVE  LockInv'
<1> DEFINE w == WorkspaceOf[c]
<1>1. /\ Locks(c) /\ w \in Workspaces /\ at[c] = "queued"
      /\ waitingRuns' = [waitingRuns EXCEPT ![w] = waitingRuns[w] - 1]
  BY AtTheLock, CallAssumption DEF LockTimeout, Move
<1>2. /\ at' \in [Calls -> Ats] /\ queue' \in [Workspaces -> Seq(Calls)]
      /\ PermitOwner' /\ QueueOfWaiters' /\ HolderListed'
      /\ \A v \in Workspaces : Waiting(v)' = Waiting(v) \ {c}
  BY <1>1, QueueLeft DEF LockTimeout
<1>3. WaitersCounted' /\ waitingRuns'[w] \in Nat
  <2>1. waitingRuns'[w] = waitingRuns[w] - 1 /\ \A v \in Workspaces : v # w => waitingRuns'[v] = waitingRuns[v]
    BY <1>1 DEF LockInv, CallTypeOK
  <2>2. /\ at[c] \in {"queued", "granted"}
        /\ \/ waitingRuns'[w] = waitingRuns[w] - 1 /\ giveUps' = giveUps
           \/ waitingRuns'[w] = waitingRuns[w] /\ giveUps' # 0
    BY <1>1, <2>1 DEF LockTimeout
  <2>3. \A v \in Workspaces \ {w} : waitingRuns'[v] = waitingRuns[v]
    BY <2>1
  <2> QED
    BY <1>2, <2>2, <2>3, WaiterLeaves
<1>4. waitingRuns' \in [Workspaces -> Nat]
  BY <1>1, <1>3 DEF LockInv, CallTypeOK
<1> QED
  BY <1>2, <1>3, <1>4 DEF LockTimeout, LockInv, CallTypeOK, effectVars

(* The new holder is counted out of the waiters and into the holders.       *)
LEMMA CountKeepsLock ==
  ASSUME LockInv, NEW c \in Calls, Count(c)
  PROVE  LockInv'
<1> DEFINE w == WorkspaceOf[c]
<1>1. /\ Locks(c) /\ at[c] = "granted" /\ at' = [at EXCEPT ![c] = "name"]
      /\ waitingRuns' = [waitingRuns EXCEPT ![w] = waitingRuns[w] - 1]
      /\ activeHolders' = [activeHolders EXCEPT ![w] = activeHolders[w] + 1]
  BY AtTheLock DEF Count, Move
<1>2. /\ w \in Workspaces /\ permit[w] = c /\ at'[c] = "name"
      /\ at' \in [Calls -> Ats] /\ PermitOwner' /\ QueueOfWaiters'
      /\ \A v \in Workspaces : v # w /\ permit[v] # None => at'[permit[v]] = at[permit[v]]
      /\ \A v \in Workspaces : Waiting(v)' = Waiting(v) \ {c}
  <2>1. "granted" \in Holding /\ "name" \in Holding /\ "name" # "granted"
    BY DEF Holding
  <2> QED
    BY <1>1, <2>1, HolderGoesOn DEF Count
<1>3. WaitersCounted' /\ waitingRuns'[w] \in Nat
  <2>1. waitingRuns'[w] = waitingRuns[w] - 1 /\ \A v \in Workspaces : v # w => waitingRuns'[v] = waitingRuns[v]
    BY <1>1, <1>2 DEF LockInv, CallTypeOK
  <2>2. /\ at[c] \in {"queued", "granted"}
        /\ \/ waitingRuns'[w] = waitingRuns[w] - 1 /\ giveUps' = giveUps
           \/ waitingRuns'[w] = waitingRuns[w] /\ giveUps' # 0
    BY <1>1, <2>1 DEF Count
  <2>3. \A v \in Workspaces \ {w} : waitingRuns'[v] = waitingRuns[v]
    BY <2>1
  <2> QED
    BY <1>2, <2>2, <2>3, WaiterLeaves
<1>4. waitingRuns' \in [Workspaces -> Nat]
  BY <1>1, <1>2, <1>3 DEF LockInv, CallTypeOK
<1>5. HolderListed' /\ activeHolders' \in [Workspaces -> Nat]
  <2>1. activeHolders[w] = 0
    BY <1>1, <1>2 DEF LockInv, HolderListed, Behind
  <2>2. /\ activeHolders'[w] = 1 /\ activeHolders' \in [Workspaces -> Nat]
        /\ \A v \in Workspaces : v # w => activeHolders'[v] = activeHolders[v]
    BY <1>1, <1>2, <2>1 DEF LockInv, CallTypeOK
  <2>3. permit' = permit /\ currentHolder' = currentHolder /\ c # None
    BY CallAssumption DEF Count
  <2>4. "name" \notin {"uncount", "clear"} \cup Behind
    BY DEF Behind
  <2> HIDE DEF w
  <2> QED
    BY <1>2, <2>2, <2>3, <2>4 DEF LockInv, HolderListed
<1> QED
  BY <1>2, <1>3, <1>4, <1>5 DEF Count, LockInv, CallTypeOK, effectVars

(* The new holder is named.                                                 *)
LEMMA NameKeepsLock ==
  ASSUME LockInv, NEW c \in Calls, Name(c)
  PROVE  LockInv'
<1> DEFINE w == WorkspaceOf[c]
<1>1. /\ Locks(c) /\ at[c] = "name" /\ at' = [at EXCEPT ![c] = "lease"]
      /\ currentHolder' = [currentHolder EXCEPT ![w] = c]
  BY AtTheLock DEF Name, Move
<1>2. /\ w \in Workspaces /\ permit[w] = c /\ at'[c] = "lease"
      /\ at' \in [Calls -> Ats] /\ PermitOwner' /\ QueueOfWaiters'
      /\ \A v \in Workspaces : v # w /\ permit[v] # None => at'[permit[v]] = at[permit[v]]
      /\ \A v \in Workspaces : Waiting(v)' = Waiting(v) \ {c}
  <2>1. "name" \in Holding /\ "lease" \in Holding /\ "lease" # "granted"
    BY DEF Holding, Behind
  <2> QED
    BY <1>1, <2>1, HolderGoesOn DEF Name
<1>3. WaitersCounted'
  BY <1>1, <1>2, WaitersStay DEF Name
<1>4. HolderListed' /\ currentHolder' \in [Workspaces -> Calls \cup {None}]
  <2>1. /\ currentHolder'[w] = c /\ currentHolder' \in [Workspaces -> Calls \cup {None}]
        /\ \A v \in Workspaces : v # w => currentHolder'[v] = currentHolder[v]
    BY <1>1, <1>2 DEF LockInv, CallTypeOK
  <2>2. permit' = permit /\ activeHolders' = activeHolders /\ c # None
    BY CallAssumption DEF Name
  <2>3. "lease" \in Behind
    BY DEF Behind
  <2> HIDE DEF w
  <2> QED
    BY <1>1, <1>2, <2>1, <2>2, <2>3 DEF LockInv, HolderListed
<1> QED
  BY <1>2, <1>3, <1>4 DEF Name, LockInv, CallTypeOK, effectVars

(* The three steps of a guard's drop.                                       *)
LEMMA DropKeepsLock ==
  ASSUME LockInv, NEW c \in Calls, DropGuard(c)
  PROVE  LockInv'
<1> DEFINE w == WorkspaceOf[c]
<1>1. /\ Locks(c) /\ c # None
      /\ DropOrder["uncount"] = "clear" /\ DropOrder["clear"] = "release" /\ DropOrder["release"] = "done"
      /\ UNCHANGED <<waitingRuns, callLease, results, shells, effects, broken, forgotten, giveUps>>
  BY AtTheLock, CallAssumption DEF DropGuard, DropOrder, effectVars
<1>2. CASE /\ at[c] = "uncount" /\ at' = [at EXCEPT ![c] = "clear"]
           /\ activeHolders' = [activeHolders EXCEPT ![w] = activeHolders[w] - 1]
           /\ UNCHANGED <<queue, permit, currentHolder>>
  <2>1. /\ w \in Workspaces /\ permit[w] = c /\ at'[c] = "clear"
        /\ at' \in [Calls -> Ats] /\ PermitOwner' /\ QueueOfWaiters'
        /\ \A v \in Workspaces : v # w /\ permit[v] # None => at'[permit[v]] = at[permit[v]]
        /\ \A v \in Workspaces : Waiting(v)' = Waiting(v) \ {c}
    <3>1. "uncount" \in Holding /\ "clear" \in Holding /\ "clear" # "granted"
      BY DEF Holding, Leaving
    <3> QED
      BY <1>1, <1>2, <3>1, HolderGoesOn
  <2>2. WaitersCounted'
    BY <1>1, <1>2, <2>1, WaitersStay
  <2>3. HolderListed' /\ activeHolders' \in [Workspaces -> Nat]
    <3>1. activeHolders[w] = 1 /\ currentHolder[w] = c
      BY <1>1, <1>2, <2>1 DEF LockInv, HolderListed
    <3>2. /\ activeHolders'[w] = 0 /\ activeHolders' \in [Workspaces -> Nat]
          /\ \A v \in Workspaces : v # w => activeHolders'[v] = activeHolders[v]
      BY <1>2, <2>1, <3>1 DEF LockInv, CallTypeOK
    <3>3. "clear" \notin {"name", "uncount"} \cup Behind
      BY DEF Behind
    <3> HIDE DEF w
    <3> QED
      BY <1>2, <2>1, <3>1, <3>2, <3>3 DEF LockInv, HolderListed
  <2> QED
    BY <1>1, <1>2, <2>1, <2>2, <2>3 DEF LockInv, CallTypeOK
<1>3. CASE /\ at[c] = "clear" /\ at' = [at EXCEPT ![c] = "release"]
           /\ currentHolder' = [currentHolder EXCEPT ![w] = None]
           /\ UNCHANGED <<queue, permit, activeHolders>>
  <2>1. /\ w \in Workspaces /\ permit[w] = c /\ at'[c] = "release"
        /\ at' \in [Calls -> Ats] /\ PermitOwner' /\ QueueOfWaiters'
        /\ \A v \in Workspaces : v # w /\ permit[v] # None => at'[permit[v]] = at[permit[v]]
        /\ \A v \in Workspaces : Waiting(v)' = Waiting(v) \ {c}
    <3>1. "clear" \in Holding /\ "release" \in Holding /\ "release" # "granted"
      BY DEF Holding, Leaving
    <3> QED
      BY <1>1, <1>3, <3>1, HolderGoesOn
  <2>2. WaitersCounted'
    BY <1>1, <1>3, <2>1, WaitersStay
  <2>3. HolderListed' /\ currentHolder' \in [Workspaces -> Calls \cup {None}]
    <3>1. /\ currentHolder' \in [Workspaces -> Calls \cup {None}]
          /\ \A v \in Workspaces : v # w => currentHolder'[v] = currentHolder[v]
      BY <1>3, <2>1 DEF LockInv, CallTypeOK
    <3>2. "release" \notin {"name", "uncount", "clear"} \cup Behind /\ "clear" \notin {"name", "uncount"} \cup Behind
      BY DEF Behind
    <3> HIDE DEF w
    <3> QED
      BY <1>3, <2>1, <3>1, <3>2 DEF LockInv, HolderListed
  <2> QED
    BY <1>1, <1>3, <2>1, <2>2, <2>3 DEF LockInv, CallTypeOK
<1>4. CASE at[c] = "release" /\ PassOn(c, "done") /\ UNCHANGED <<activeHolders, currentHolder>>
  <2>1. /\ at' \in [Calls -> Ats] /\ queue' \in [Workspaces -> Seq(Calls)]
        /\ permit' \in [Workspaces -> Calls \cup {None}]
        /\ PermitOwner' /\ QueueOfWaiters' /\ HolderListed'
        /\ \A v \in Workspaces : Waiting(v)' = Waiting(v) \ {c}
    BY <1>1, <1>4, LockPasses
  <2>2. WaitersCounted'
    BY <1>1, <1>4, <2>1, WaitersStay
  <2> QED
    BY <1>1, <1>4, <2>1, <2>2 DEF LockInv, CallTypeOK
<1> QED
  BY <1>1, <1>2, <1>3, <1>4 DEF DropGuard, Move

(* The data of a call keep their types.                                     *)
LEMMA CallData ==
  ASSUME CallTypeOK, NEW c \in Calls
  PROVE  /\ LeaseDropped(c) => callLease' \in [Resources -> Calls \cup {None}]
         /\ KeySet(c) \subseteq IdemKeys
         /\ TakesEffect(c) => effects' \in [IdemKeys -> Nat]
<1>1. LeaseDropped(c) => callLease' \in [Resources -> Calls \cup {None}]
  BY DEF LeaseDropped, CallTypeOK
<1>2. KeySet(c) \subseteq IdemKeys
  BY CallAssumption DEF KeySet
<1>3. TakesEffect(c) => effects' \in [IdemKeys -> Nat]
  BY DEF TakesEffect, CallTypeOK
<1> QED
  BY <1>1, <1>2, <1>3

(* Where a call goes when it has its guard to drop, or has none.            *)
LEMMA HomeStays ==
  ASSUME LockInv, NEW c \in Calls, at[c] \in Behind
  PROVE  Home(c) \in Ats /\ LockStay(c, Home(c)) /\ Home(c) \notin {"effect", "wait"}
BY DEF LockStay, Home, Ats, Leaving, LockInv

(* A call goes on behind the lock.                                          *)
LEMMA BehindStays ==
  ASSUME LockInv, NEW c \in Calls, at[c] \in Behind, NEW to \in Behind
  PROVE  to \in Ats /\ LockStay(c, to)
BY DEF LockStay, Ats, LockInv

(* A dropped request leaves the queue, passes the permit on, or drops its   *)
(* guard later; the waiters stay counted.                                   *)
LEMMA GiveUpKeepsLock ==
  ASSUME LockInv, NEW c \in Calls, GiveUpCall(c)
  PROVE  LockInv'
<1>1. /\ giveUps' \in 0..MaxGiveUps /\ giveUps' # 0 /\ giveUps \in Nat
      /\ UNCHANGED <<waitingRuns, activeHolders, currentHolder, results, shells, effects, forgotten>>
  BY CallAssumption DEF GiveUpCall, LockInv, CallTypeOK
<1>2. CASE Move(c, "queued", "done") /\ LeaveQueue(c) /\ UNCHANGED <<permit, callLease, broken>>
  <2>1. Locks(c) /\ at[c] \in {"queued", "granted"}
    BY <1>2, AtTheLock DEF Move
  <2>2. /\ at' \in [Calls -> Ats] /\ queue' \in [Workspaces -> Seq(Calls)]
        /\ PermitOwner' /\ QueueOfWaiters' /\ HolderListed'
        /\ \A v \in Workspaces : Waiting(v)' = Waiting(v) \ {c}
    BY <1>1, <1>2, <2>1, QueueLeft
  <2>3. WaitersCounted'
    BY <1>1, <2>1, <2>2, WaiterLeaves
  <2> QED
    BY <1>1, <1>2, <2>2, <2>3 DEF LockInv, CallTypeOK
<1>3. CASE at[c] = "granted" /\ PassOn(c, "done") /\ UNCHANGED <<callLease, broken>>
  <2>1. Locks(c) /\ at[c] \in {"queued", "granted"}
    BY <1>3, AtTheLock
  <2>2. /\ at' \in [Calls -> Ats] /\ queue' \in [Workspaces -> Seq(Calls)]
        /\ permit' \in [Workspaces -> Calls \cup {None}]
        /\ PermitOwner' /\ QueueOfWaiters' /\ HolderListed'
        /\ \A v \in Workspaces : Waiting(v)' = Waiting(v) \ {c}
    BY <1>1, <1>3, <2>1, LockPasses
  <2>3. WaitersCounted'
    BY <1>1, <2>1, <2>2, WaiterLeaves
  <2> QED
    BY <1>1, <1>3, <2>2, <2>3 DEF LockInv, CallTypeOK
<1>4. CASE /\ at[c] \in {"lease", "wait"} /\ at' = [at EXCEPT ![c] = Home(c)]
           /\ UNCHANGED <<queue, permit>>
           /\ callLease' \in [Resources -> Calls \cup {None}] /\ broken' \subseteq IdemKeys
  <2>1. at[c] \in Behind
    BY <1>4, Places
  <2>2. Home(c) \in Ats /\ LockStay(c, Home(c))
    BY <2>1, HomeStays
  <2>3. PermitOwner' /\ QueueOfWaiters' /\ HolderListed' /\ WaitersCounted'
    BY <1>1, <1>4, <2>2, LockStays DEF lockVars
  <2> QED
    BY <1>1, <1>4, <2>2, <2>3 DEF LockInv, CallTypeOK
<1>5. CASE Move(c, "lease", Home(c)) /\ UNCHANGED <<queue, permit, callLease, broken>>
  BY <1>4, <1>5 DEF Move, LockInv, CallTypeOK
<1>6. CASE /\ Move(c, "wait", Home(c)) /\ broken' = broken \cup KeySet(c)
           /\ LeaseDropped(c) /\ UNCHANGED <<queue, permit>>
  BY <1>4, <1>6, CallData DEF Move, LockInv, CallTypeOK
<1> QED
  BY <1>2, <1>3, <1>5, <1>6 DEF GiveUpCall

(* The steps of a call that leave the lock alone.                           *)
Works(c) ==
  \/ Arrive(c) \/ CheckDenied(c) \/ CheckAllowed(c) \/ TakeLease(c) \/ LeaseBusy(c)
  \/ Lookup(c) \/ WriteFile(c) \/ ShellFails(c) \/ ShellStarts(c) \/ ShellReturns(c)
  \/ ShellTimeout(c) \/ OtherEffect(c) \/ Scan(c)

(* Each of them is a step of that sort.                                     *)
LEMMA WorkMoves ==
  ASSUME LockInv, NEW c \in Calls, Works(c)
  PROVE  /\ UNCHANGED <<lockVars, giveUps>>
         /\ \E to \in Ats : LockStay(c, to) /\ at' = [at EXCEPT ![c] = to]
<1>1. /\ (LockStay(c, Home(c)) /\ Home(c) \in Ats) \/ at[c] \notin Behind
      /\ \A to \in Behind : at[c] \in Behind => LockStay(c, to) /\ to \in Ats
  BY HomeStays, BehindStays
<1>2. Behind = {"lease", "lookup", "effect", "wait", "scan"}
  BY Places
<1>3. CASE Arrive(c)
  <2>1. ToolOf[c] = "approved" => ~Locks(c)
    BY DEF Locks
  <2> DEFINE to == IF ToolOf[c] = "approved" THEN "lease" ELSE "check"
  <2>2. to \in Ats /\ at' = [at EXCEPT ![c] = to] /\ at[c] = "idle"
    BY <1>3 DEF Arrive, Move, Ats, Behind
  <2>3. LockStay(c, to)
    BY <1>2, <2>1, <2>2 DEF LockStay, OutsideLock
  <2> QED
    BY <1>3, <2>2, <2>3 DEF Arrive
<1>4. CASE CheckDenied(c)
  <2>1. LockStay(c, "done") /\ "done" \in Ats
    BY <1>4 DEF CheckDenied, Move, LockStay, OutsideLock, Ats
  <2> QED
    BY <1>4, <2>1 DEF CheckDenied, Move
<1>5. CASE CheckAllowed(c)
  <2> DEFINE to == IF Locks(c) THEN "enter" ELSE "effect"
  <2>1. to \in Ats /\ at' = [at EXCEPT ![c] = to] /\ at[c] = "check"
    BY <1>5 DEF CheckAllowed, Move, Ats, Behind
  <2>2. LockStay(c, to)
    BY <1>2, <2>1 DEF LockStay, OutsideLock
  <2> QED
    BY <1>5, <2>1, <2>2 DEF CheckAllowed
<1>6. CASE TakeLease(c)
  BY <1>1, <1>2, <1>6 DEF TakeLease, Move
<1>7. CASE LeaseBusy(c)
  BY <1>1, <1>2, <1>7 DEF LeaseBusy, Move
<1>8. CASE Lookup(c)
  BY <1>1, <1>2, <1>8 DEF Lookup, Move
<1>9. CASE WriteFile(c)
  BY <1>1, <1>2, <1>9 DEF WriteFile, Move
<1>10. CASE ShellFails(c)
  BY <1>1, <1>2, <1>10 DEF ShellFails, Move
<1>11. CASE ShellStarts(c)
  BY <1>1, <1>2, <1>11 DEF ShellStarts, Move
<1>12. CASE ShellReturns(c)
  BY <1>1, <1>2, <1>12 DEF ShellReturns, Move
<1>13. CASE ShellTimeout(c)
  BY <1>1, <1>2, <1>13 DEF ShellTimeout, Move
<1>14. CASE OtherEffect(c)
  BY <1>1, <1>2, <1>14 DEF OtherEffect, Move
<1>15. CASE Scan(c)
  BY <1>1, <1>2, <1>15 DEF Scan, Move
<1> QED
  BY <1>3, <1>4, <1>5, <1>6, <1>7, <1>8, <1>9, <1>10, <1>11, <1>12, <1>13, <1>14, <1>15 DEF Works

(* Each of them keeps the types of what it writes.                          *)
LEMMA WorkData ==
  ASSUME CallTypeOK, NEW c \in Calls, Works(c)
  PROVE  /\ callLease' \in [Resources -> Calls \cup {None}]
         /\ results' \subseteq IdemKeys /\ shells' \subseteq Calls
         /\ effects' \in [IdemKeys -> Nat] /\ broken' \subseteq IdemKeys
         /\ forgotten' \in [IdemKeys -> 0..MaxForgets]
<1>1. /\ LeaseDropped(c) => callLease' \in [Resources -> Calls \cup {None}]
      /\ KeySet(c) \subseteq IdemKeys
      /\ TakesEffect(c) => effects' \in [IdemKeys -> Nat]
  BY CallData
<1>2. /\ callLease \in [Resources -> Calls \cup {None}]
      /\ results \subseteq IdemKeys /\ shells \subseteq Calls
      /\ effects \in [IdemKeys -> Nat] /\ broken \subseteq IdemKeys
      /\ forgotten \in [IdemKeys -> 0..MaxForgets]
  BY DEF CallTypeOK
<1>3. CASE Arrive(c) \/ CheckDenied(c) \/ CheckAllowed(c) \/ LeaseBusy(c) \/ OtherEffect(c) \/ Scan(c)
  BY <1>2, <1>3 DEF Arrive, CheckDenied, CheckAllowed, LeaseBusy, OtherEffect, Scan, effectVars
<1>4. CASE TakeLease(c)
  BY <1>2, <1>4 DEF TakeLease, effectVars
<1>5. CASE Lookup(c) \/ ShellFails(c)
  BY <1>1, <1>2, <1>5 DEF Lookup, ShellFails, effectVars
<1>6. CASE WriteFile(c)
  BY <1>1, <1>2, <1>6 DEF WriteFile
<1>7. CASE ShellStarts(c)
  BY <1>1, <1>2, <1>7 DEF ShellStarts
<1>8. CASE ShellReturns(c)
  BY <1>1, <1>2, <1>8 DEF ShellReturns
<1>9. CASE ShellTimeout(c)
  BY <1>1, <1>2, <1>9 DEF ShellTimeout
<1> QED
  BY <1>3, <1>4, <1>5, <1>6, <1>7, <1>8, <1>9 DEF Works

(* So they keep the lock in order.                                          *)
LEMMA WorkKeepsLock ==
  ASSUME LockInv, NEW c \in Calls, Works(c)
  PROVE  LockInv'
<1>1. PICK to \in Ats : LockStay(c, to) /\ at' = [at EXCEPT ![c] = to]
  BY WorkMoves
<1>2. UNCHANGED <<lockVars, giveUps>>
  BY WorkMoves
<1>3. PermitOwner' /\ QueueOfWaiters' /\ HolderListed' /\ WaitersCounted'
  BY <1>1, <1>2, LockStays
<1>4. at' \in [Calls -> Ats]
  BY <1>1 DEF LockInv, CallTypeOK
<1> QED
  BY <1>2, <1>3, <1>4, WorkData DEF LockInv, CallTypeOK, lockVars

(* Every step keeps the lock in order.                                      *)
LEMMA LockInductive == LockInv /\ [CallNext]_callVars => LockInv'
<1> SUFFICES ASSUME LockInv, [CallNext]_callVars PROVE LockInv'
  OBVIOUS
<1>1. ASSUME at' = at, UNCHANGED <<lockVars, giveUps>>,
             /\ callLease' \in [Resources -> Calls \cup {None}]
             /\ results' \subseteq IdemKeys /\ shells' \subseteq Calls
             /\ effects' \in [IdemKeys -> Nat] /\ broken' \subseteq IdemKeys
             /\ forgotten' \in [IdemKeys -> 0..MaxForgets]
      PROVE  LockInv'
  <2>1. UNCHANGED <<queue, permit, waitingRuns, activeHolders, currentHolder, giveUps>>
    BY <1>1 DEF lockVars
  <2>2. PermitOwner' /\ HolderListed'
    BY <1>1, <2>1 DEF LockInv, PermitOwner, HolderListed, Locks
  <2>3. QueueOfWaiters'
    <3>1. QueueOfWaiters
      BY DEF LockInv
    <3> QED
      BY <1>1, <2>1, <3>1 DEF QueueOfWaiters, Locks
  <2>4. WaitersCounted'
    <3>1. \A w \in Workspaces : Waiting(w)' = Waiting(w)
      BY <1>1 DEF Waiting
    <3> QED
      BY <2>1, <3>1 DEF LockInv, WaitersCounted
  <2> QED
    BY <1>1, <2>1, <2>2, <2>3, <2>4 DEF LockInv, CallTypeOK
<1>2. ASSUME NEW c \in Calls, Arrive(c) \/ CallStep(c) \/ OrphanEnds(c) \/ GiveUpCall(c)
      PROVE  LockInv'
  <2>1. CASE Enter(c)
    <3>1. Locks(c)
      BY <2>1, AtTheLock DEF Enter, Move
    <3> QED
      BY <2>1, <3>1, EnterKeepsLock
  <2>2. CASE LockTimeout(c)
    BY <2>2, TimeoutKeepsLock
  <2>3. CASE Count(c)
    BY <2>3, CountKeepsLock
  <2>4. CASE Name(c)
    BY <2>4, NameKeepsLock
  <2>5. CASE DropGuard(c)
    BY <2>5, DropKeepsLock
  <2>6. CASE GiveUpCall(c)
    BY <2>6, GiveUpKeepsLock
  <2>7. CASE Works(c)
    BY <2>7, WorkKeepsLock
  <2>8. CASE OrphanEnds(c)
    BY <1>1, <2>8 DEF OrphanEnds, LockInv, CallTypeOK
  <2> QED
    BY <1>2, <2>1, <2>2, <2>3, <2>4, <2>5, <2>6, <2>7, <2>8 DEF CallStep, Works
<1>3. ASSUME NEW r \in Resources, LeaseExpires(r)
      PROVE  LockInv'
  BY <1>1, <1>3 DEF LeaseExpires, LockInv, CallTypeOK, effectVars
<1>5. ASSUME NEW k \in IdemKeys, ResultForgotten(k)
      PROVE  LockInv'
  <2>1. forgotten' \in [IdemKeys -> 0..MaxForgets]
    BY <1>5, CallAssumption DEF ResultForgotten, LockInv, CallTypeOK
  <2> QED
    BY <1>1, <1>5, <2>1 DEF ResultForgotten, LockInv, CallTypeOK
<1>4. CASE UNCHANGED callVars
  BY <1>1, <1>4 DEF callVars, lockVars, LockInv, CallTypeOK
<1> QED
  BY <1>2, <1>3, <1>4, <1>5 DEF CallNext

-----------------------------------------------------------------------------
(* The lock lets one call with a guarded key behind it.                     *)
LEMMA EffectAlone ==
  ASSUME LockInv, NEW k \in IdemKeys, Guarded(k), NEW c \in Calls, NEW d \in Calls,
         KeyOf[c] = k, KeyOf[d] = k, at[c] \in Behind, at[d] \in Behind
  PROVE  c = d
<1>1. Locks(c) /\ Locks(d) /\ WorkspaceOf[c] = WorkspaceOf[d]
  BY DEF Guarded
<1> QED
  BY <1>1, Places DEF LockInv, PermitOwner

(* A step that does nothing for a key keeps what holds of it.               *)
LEMMA KeyKept ==
  ASSUME NEW k \in IdemKeys, KeyOnce(k), effects'[k] = effects[k], forgotten'[k] = forgotten[k],
         k \in results' <=> k \in results, k \in broken => k \in broken',
         \A d \in Calls : KeyOf[d] = k =>
           (at'[d] = "wait" <=> at[d] = "wait") /\ (at'[d] = "effect" => at[d] = "effect")
  PROVE  KeyOnce(k)'
BY DEF KeyOnce

(* The call that makes a key take effect, or waits for it to have, is the   *)
(* only one, and the first.                                                 *)
LEMMA EffectIsNew ==
  ASSUME LockInv, NEW k \in IdemKeys, Guarded(k), KeyOnce(k), k \notin broken,
         NEW c \in Calls, KeyOf[c] = k, at[c] \in {"effect", "wait"}
  PROVE  /\ k \notin results /\ effects[k] \in Nat /\ forgotten[k] \in Nat
         /\ effects[k] <= 1 + forgotten[k] /\ (at[c] = "effect" => effects[k] <= forgotten[k])
         /\ \A d \in Calls \ {c} : KeyOf[d] = k => at[d] \notin {"effect", "wait"}
<1>1. /\ k \notin results /\ effects[k] <= 1 + forgotten[k]
      /\ effects[k] \in Nat /\ forgotten[k] \in Nat
  BY CallAssumption DEF KeyOnce, LockInv, CallTypeOK
<1>2. \A d \in Calls \ {c} : KeyOf[d] = k => at[d] \notin {"effect", "wait"}
  BY EffectAlone DEF Behind
<1>3. at[c] = "effect" => effects[k] <= forgotten[k]
  BY <1>1, <1>2 DEF KeyOnce
<1> QED
  BY <1>1, <1>2, <1>3

(* The steps that do nothing for any key.                                   *)
LEMMA NoEffectKeeps ==
  ASSUME LockInv, KeysOnce, UNCHANGED <<effects, results, broken, forgotten>>,
         \A d \in Calls : Locks(d) =>
           (at'[d] = "wait" <=> at[d] = "wait") /\ (at'[d] = "effect" => at[d] = "effect")
  PROVE  KeysOnce'
<1>1. ASSUME NEW k \in IdemKeys, Guarded(k) PROVE KeyOnce(k)'
  <2>1. KeyOnce(k) /\ \A d \in Calls : KeyOf[d] = k => Locks(d)
    BY <1>1 DEF KeysOnce, Guarded
  <2> QED
    BY <1>1, <2>1, KeyKept
<1> QED
  BY <1>1 DEF KeysOnce, Guarded, Locks

(* The steps that concern the key of a call.                                *)
ForKey(c) ==
  \/ Lookup(c) \/ WriteFile(c) \/ ShellStarts(c) \/ ShellReturns(c) \/ ShellTimeout(c)
  \/ GiveUpCall(c) /\ at[c] = "wait"

(* They keep it effective at most once.                                     *)
LEMMA EffectKeepsKey ==
  ASSUME LockInv, NEW k \in IdemKeys, Guarded(k), KeyOnce(k), NEW c \in Calls, KeyOf[c] = k,
         ForKey(c)
  PROVE  KeyOnce(k)'
<1>1. k \in KeySet(c) /\ at \in [Calls -> Ats] /\ k # None
  BY CallAssumption DEF KeySet, LockInv, CallTypeOK
<1>2. CASE ShellTimeout(c) \/ (GiveUpCall(c) /\ at[c] = "wait")
  <2>1. k \in broken'
    BY <1>1, <1>2 DEF ShellTimeout, GiveUpCall, Move
  <2> QED
    BY <2>1 DEF KeyOnce
<1>3. CASE Lookup(c)
  <2>1. CASE Cached(c)
    <3>1. at[c] = "lookup" /\ at' = [at EXCEPT ![c] = "scan"]
      BY <1>3, <2>1 DEF Lookup, Move
    <3>2. UNCHANGED <<effects, results, broken, forgotten>>
      BY <1>3 DEF Lookup, effectVars
    <3> QED
      BY <1>1, <3>1, <3>2, KeyKept
  <2>2. CASE ~Cached(c)
    <3>1. at' = [at EXCEPT ![c] = "effect"] /\ at[c] = "lookup" /\ k \notin results
      BY <1>1, <1>3, <2>2 DEF Lookup, Move, Cached
    <3>2. UNCHANGED <<effects, results, broken, forgotten>>
      BY <1>3 DEF Lookup, effectVars
    <3> QED
      BY <1>1, <3>1, <3>2 DEF KeyOnce
  <2> QED
    BY <2>1, <2>2
<1>4. CASE WriteFile(c)
  <2>1. at[c] = "effect" /\ at' = [at EXCEPT ![c] = "scan"] /\ effects'[k] = effects[k] + 1
       /\ forgotten' = forgotten
    BY <1>4 DEF WriteFile, Move, TakesEffect
  <2>2. \/ k \in broken'
        \/ k \in results' /\ broken' = broken
    BY <1>1, <1>4 DEF WriteFile
  <2>3. ASSUME k \notin broken' PROVE effects'[k] <= 1 + forgotten'[k] /\ \A d \in Calls : KeyOf[d] = k => at'[d] \notin {"effect", "wait"}
    <3>1. effects[k] <= forgotten[k] /\ effects[k] \in Nat /\ forgotten[k] \in Nat /\ \A d \in Calls \ {c} : KeyOf[d] = k => at[d] \notin {"effect", "wait"}
      BY <2>1, <2>2, <2>3, EffectIsNew
    <3> QED
      BY <1>1, <2>1, <3>1
  <2> QED
    BY <2>2, <2>3 DEF KeyOnce
<1>5. CASE ShellStarts(c)
  <2>1. /\ at[c] = "effect" /\ at' = [at EXCEPT ![c] = "wait"] /\ effects'[k] = effects[k] + 1
        /\ results' = results /\ broken' = broken /\ forgotten' = forgotten
    BY <1>5 DEF ShellStarts, Move, TakesEffect
  <2>2. ASSUME k \notin broken'
        PROVE  /\ effects'[k] <= 1 + forgotten'[k] /\ k \notin results' /\ at'[c] = "wait"
    BY <1>1, <2>1, <2>2, EffectIsNew
  <2> QED
    BY <2>2 DEF KeyOnce
<1>6. CASE ShellReturns(c)
  <2>1. /\ at[c] = "wait" /\ at' = [at EXCEPT ![c] = "scan"]
        /\ k \in results' /\ broken' = broken /\ effects' = effects /\ forgotten' = forgotten
    BY <1>1, <1>6 DEF ShellReturns, Move
  <2>2. ASSUME k \notin broken'
        PROVE  effects'[k] <= 1 + forgotten'[k] /\ \A d \in Calls : KeyOf[d] = k => at'[d] \notin {"effect", "wait"}
    <3>1. effects[k] <= 1 + forgotten[k] /\ \A d \in Calls \ {c} : KeyOf[d] = k => at[d] \notin {"effect", "wait"}
      BY <2>1, <2>2, EffectIsNew
    <3> QED
      BY <1>1, <2>1, <3>1
  <2> QED
    BY <2>1, <2>2 DEF KeyOnce
<1> QED
  BY <1>2, <1>3, <1>4, <1>5, <1>6 DEF ForKey

(* They do nothing for any other key.                                       *)
LEMMA EffectKeepsOthers ==
  ASSUME LockInv, NEW k \in IdemKeys, KeyOnce(k), NEW c \in Calls, KeyOf[c] # k,
         ForKey(c)
  PROVE  KeyOnce(k)'
<1>1. k \notin KeySet(c)
  BY DEF KeySet
<1>2. \A d \in Calls : d # c => at'[d] = at[d]
  BY DEF ForKey, Lookup, WriteFile, ShellStarts, ShellReturns, ShellTimeout, GiveUpCall, Move,
         LockInv, CallTypeOK
<1>3. TakesEffect(c) => effects'[k] = effects[k]
  BY DEF TakesEffect
<1>4. effects'[k] = effects[k] /\ forgotten'[k] = forgotten[k] /\ (k \in results' <=> k \in results) /\ (k \in broken => k \in broken')
  BY <1>1, <1>3 DEF ForKey, Lookup, WriteFile, ShellStarts, ShellReturns, ShellTimeout,
                    GiveUpCall, Move, effectVars
<1> QED
  BY <1>2, <1>4, KeyKept

(* A result is forgotten while nobody makes its key take effect, so one     *)
(* effect more is to come at most; no other key is concerned.               *)
LEMMA ForgettingKeeps ==
  ASSUME LockInv, NEW k \in IdemKeys, ResultForgotten(k), NEW j \in IdemKeys, KeyOnce(j)
  PROVE  KeyOnce(j)'
<1>1. /\ k \in results /\ results' = results \ {k}
      /\ UNCHANGED <<at, effects, broken>>
      /\ effects \in [IdemKeys -> Nat] /\ forgotten \in [IdemKeys -> 0..MaxForgets]
      /\ forgotten' = [forgotten EXCEPT ![k] = forgotten[k] + 1]
  BY DEF ResultForgotten, LockInv, CallTypeOK
<1>2. CASE j = k
  <2>1. forgotten'[k] = forgotten[k] + 1 /\ forgotten[k] \in Nat /\ effects[k] \in Nat
    BY <1>1, CallAssumption
  <2> QED
    BY <1>1, <1>2, <2>1 DEF KeyOnce
<1>3. CASE j # k
  <2>1. forgotten'[j] = forgotten[j]
    BY <1>1, <1>3
  <2> QED
    BY <1>1, <1>3, <2>1 DEF KeyOnce
<1> QED
  BY <1>2, <1>3

(* Every step keeps every guarded key effective at most once.               *)
LEMMA KeysInductive == LockInv /\ KeysOnce /\ [CallNext]_callVars => KeysOnce'
<1> SUFFICES ASSUME LockInv, KeysOnce, [CallNext]_callVars PROVE KeysOnce'
  OBVIOUS
<1> USE DEF Move
<1>1. at \in [Calls -> Ats]
  BY DEF LockInv, CallTypeOK
<1>2. ASSUME NEW c \in Calls, ForKey(c)
      PROVE  KeysOnce'
  <2>1. ASSUME NEW k \in IdemKeys, Guarded(k) PROVE KeyOnce(k)'
    BY <1>2, <2>1, EffectKeepsKey, EffectKeepsOthers DEF KeysOnce
  <2> QED
    BY <2>1 DEF KeysOnce, Guarded, Locks
<1>3. ASSUME NEW c \in Calls, NEW to, at' = [at EXCEPT ![c] = to], at[c] # "wait", to # "wait",
             Locks(c) => to # "effect", UNCHANGED effectVars \/ UNCHANGED <<effects, results, broken, forgotten>>
      PROVE  KeysOnce'
  BY <1>1, <1>3, NoEffectKeeps DEF effectVars
<1>4. ASSUME NEW c \in Calls, Locks(c), at[c] \in {"granted", "release"}, PassOn(c, "done"),
             UNCHANGED <<activeHolders, currentHolder>>, UNCHANGED <<effects, results, broken, forgotten>>
      PROVE  KeysOnce'
  BY <1>4, LockPasses, NoEffectKeeps
<1>5. ASSUME NEW c \in Calls, Arrive(c) \/ CallStep(c) \/ OrphanEnds(c) \/ GiveUpCall(c)
      PROVE  KeysOnce'
  <2>1. CASE Arrive(c)
    BY <1>3, <2>1 DEF Arrive
  <2>2. CASE CheckDenied(c) \/ CheckAllowed(c)
    BY <1>3, <2>2 DEF CheckDenied, CheckAllowed
  <2>3. CASE Enter(c) \/ Name(c) \/ Count(c) \/ LockTimeout(c)
    BY <1>3, <2>3 DEF Enter, Name, Count, LockTimeout
  <2>4. CASE DropGuard(c)
    <3>1. /\ Locks(c) /\ UNCHANGED effectVars
          /\ DropOrder["uncount"] = "clear" /\ DropOrder["clear"] = "release" /\ DropOrder["release"] = "done"
      BY <2>4, AtTheLock DEF DropGuard, DropOrder
    <3>2. CASE Move(c, "uncount", "clear") \/ Move(c, "clear", "release")
      BY <1>3, <3>1, <3>2
    <3>3. CASE at[c] = "release" /\ PassOn(c, "done") /\ UNCHANGED <<activeHolders, currentHolder>>
      BY <1>4, <3>1, <3>3 DEF effectVars
    <3> QED
      BY <2>4, <3>1, <3>2, <3>3 DEF DropGuard
  <2>5. CASE TakeLease(c) \/ LeaseBusy(c)
    BY <1>3, <2>5 DEF TakeLease, LeaseBusy, Home
  <2>6. CASE ForKey(c)
    BY <1>2, <2>6
  <2>7. CASE ShellFails(c) \/ OtherEffect(c) \/ Scan(c)
    BY <1>3, <2>7 DEF ShellFails, OtherEffect, Scan, Home
  <2>8. CASE OrphanEnds(c)
    BY <2>8, NoEffectKeeps DEF OrphanEnds
  <2>9. CASE GiveUpCall(c) /\ at[c] # "wait"
    <3>1. UNCHANGED <<results, shells, effects, forgotten, activeHolders, currentHolder>> /\ broken' = broken
      BY <2>9 DEF GiveUpCall
    <3>2. CASE at[c] = "granted" /\ PassOn(c, "done")
      BY <1>4, <3>1, <3>2, AtTheLock
    <3>3. CASE Move(c, "queued", "done") \/ Move(c, "lease", Home(c))
      BY <1>3, <3>1, <3>3 DEF Home
    <3> QED
      BY <2>9, <3>2, <3>3 DEF GiveUpCall
  <2> QED
    BY <1>5, <2>1, <2>2, <2>3, <2>4, <2>5, <2>6, <2>7, <2>8, <2>9 DEF CallStep, ForKey
<1>6. ASSUME NEW r \in Resources, LeaseExpires(r)
      PROVE  KeysOnce'
  BY <1>6, NoEffectKeeps DEF LeaseExpires, effectVars
<1>8. ASSUME NEW k \in IdemKeys, ResultForgotten(k)
      PROVE  KeysOnce'
  BY <1>8, ForgettingKeeps DEF KeysOnce, Guarded, Locks
<1>7. CASE UNCHANGED callVars
  BY <1>7, NoEffectKeeps DEF callVars
<1> QED
  BY <1>5, <1>6, <1>7, <1>8 DEF CallNext

-----------------------------------------------------------------------------
(* The lock and the keys are in order in every state that can be reached.   *)
THEOREM CallInvariant == CallSpec => []CallInv
<1>1. CallInv /\ [CallNext]_callVars => CallInv'
  BY LockInductive, KeysInductive DEF CallInv
<1> QED
  BY <1>1, CallInitInv, PTL DEF CallSpec

(* Every variable keeps to its values: no counter of a lock falls below     *)
(* zero, whatever times out or is given up.                                 *)
THEOREM CallTypes == CallSpec => []CallTypeOK
<1>1. CallInv => CallTypeOK
  BY DEF CallInv, LockInv
<1> QED
  BY <1>1, CallInvariant, PTL

(* What snapshot says of a lock is so.                                      *)
THEOREM LocksListed == CallSpec => []LockListAgrees
<1>1. CallInv => LockListAgrees
  <2> SUFFICES ASSUME CallInv PROVE LockListAgrees
    OBVIOUS
  <2>1. ASSUME NEW c \in Calls, Locks(c), at[c] \in Behind
        PROVE  /\ currentHolder[WorkspaceOf[c]] = c
               /\ activeHolders[WorkspaceOf[c]] = 1
               /\ \A d \in Calls \ {c} :
                    Locks(d) /\ at[d] \in Behind => WorkspaceOf[d] # WorkspaceOf[c]
    <3>1. WorkspaceOf[c] \in Workspaces /\ c # None /\ permit[WorkspaceOf[c]] = c
      BY <2>1, CallAssumption, Places DEF CallInv, LockInv, PermitOwner
    <3>2. \A d \in Calls : Locks(d) /\ at[d] \in Behind => permit[WorkspaceOf[d]] = d
      BY Places DEF CallInv, LockInv, PermitOwner
    <3> QED
      BY <2>1, <3>1, <3>2 DEF CallInv, LockInv, HolderListed
  <2>2. giveUps = 0 => \A w \in Workspaces : waitingRuns[w] = Cardinality(Waiting(w))
    BY DEF CallInv, LockInv, WaitersCounted
  <2> QED
    BY <2>1, <2>2 DEF LockListAgrees, Waiting
<1> QED
  BY <1>1, CallInvariant, PTL

(* A key that only calls behind the lock of one workspace use takes effect  *)
(* once, unless an effect failed, timed out or was given up, and once more  *)
(* only for each time that its result, once kept, was forgotten.            *)
THEOREM GuardedKeysOnce ==
  CallSpec => [](\A k \in IdemKeys : Guarded(k) /\ k \notin broken => effects[k] <= 1 + forgotten[k])
<1>1. CallInv => \A k \in IdemKeys : Guarded(k) /\ k \notin broken => effects[k] <= 1 + forgotten[k]
  BY DEF CallInv, KeysOnce, KeyOnce
<1> QED
  BY <1>1, CallInvariant, PTL

(* EffectOnce, where every key is such a key: keys are scoped by the session*)
(* and the tool, the lock by the whitelist of the agent of the session.     *)
THEOREM EffectsOnce ==
  ASSUME \A k \in IdemKeys : Guarded(k)
  PROVE  CallSpec => []EffectOnce
<1>1. CallInv => EffectOnce
  BY DEF CallInv, KeysOnce, KeyOnce, EffectOnce
<1> QED
  BY <1>1, CallInvariant, PTL

-----------------------------------------------------------------------------
(* What a call gives back.                                                  *)

(* A queue has a holder to wait for.                                        *)
QueueServed == \A w \in Workspaces : queue[w] # <<>> => permit[w] # None

Leased == {"lookup", "effect", "wait"}

(* A lease is with a call between its lookup and its effect; the calls of   *)
(* other executors take none.                                               *)
LeaseInUse ==
  /\ \A r \in Resources : callLease[r] # None =>
       /\ at[callLease[r]] \in Leased /\ ResourceOf[callLease[r]] = r
       /\ ToolOf[callLease[r]] # "other"
  /\ \A c \in Calls : ToolOf[c] = "other" => at[c] # "lease"

(* The first waiter gets the permit that is given up.                       *)
LEMMA PassOnServes ==
  ASSUME CallTypeOK, QueueServed, NEW c \in Calls, NEW goes, PassOn(c, goes)
  PROVE  QueueServed'
<1> DEFINE w == WorkspaceOf[c]
<1>1. /\ w \in Workspaces /\ queue \in [Workspaces -> Seq(Calls)]
      /\ permit \in [Workspaces -> Calls \cup {None}]
  BY CallAssumption DEF CallTypeOK
<1>2. CASE queue[w] = <<>>
  BY <1>1, <1>2 DEF PassOn, QueueServed
<1>3. CASE queue[w] # <<>>
  <2>1. Head(queue[w]) \in Calls
    BY <1>1, <1>3
  <2>2. permit' = [permit EXCEPT ![w] = Head(queue[w])] /\ queue' = [queue EXCEPT ![w] = Tail(@)]
    BY <1>3 DEF PassOn
  <2>3. ASSUME NEW v \in Workspaces, queue'[v] # <<>> PROVE permit'[v] # None
    <3>1. CASE v = w
      BY <1>1, <2>1, <2>2, <3>1, CallAssumption
    <3>2. CASE v # w
      BY <1>1, <2>2, <2>3, <3>2 DEF QueueServed
    <3> QED BY <3>1, <3>2
  <2> QED BY <2>3 DEF QueueServed
<1> QED BY <1>2, <1>3

(* Whoever leaves a queue left it with a holder.                            *)
LEMMA LeaveServes ==
  ASSUME CallTypeOK, QueueServed, NEW c \in Calls, LeaveQueue(c), UNCHANGED permit
  PROVE  QueueServed'
<1> DEFINE w == WorkspaceOf[c]
<1>1. w \in Workspaces /\ queue \in [Workspaces -> Seq(Calls)]
  BY CallAssumption DEF CallTypeOK
<1>2. PICK i \in 1..Len(queue[w]) : queue' = [queue EXCEPT ![w] = RemoveAt(@, i)]
  BY DEF LeaveQueue
<1>3. queue[w] # <<>>
  BY <1>1, <1>2
<1> QED BY <1>1, <1>2, <1>3 DEF QueueServed

(* Every step keeps a holder for the waiters.                               *)
LEMMA QueueStaysServed ==
  ASSUME CallInv, QueueServed, [CallNext]_callVars
  PROVE  QueueServed'
<1>1. CallTypeOK
  BY DEF CallInv, LockInv
<1>2. CASE UNCHANGED <<queue, permit>>
  BY <1>2 DEF QueueServed
<1>3. ASSUME NEW c \in Calls, Enter(c) PROVE QueueServed'
  <2>1. /\ WorkspaceOf[c] \in Workspaces /\ queue \in [Workspaces -> Seq(Calls)]
        /\ permit \in [Workspaces -> Calls \cup {None}]
    BY <1>1, CallAssumption DEF CallTypeOK
  <2> QED BY <1>3, <2>1, CallAssumption DEF Enter, QueueServed
<1>4. ASSUME NEW c \in Calls, LockTimeout(c) PROVE QueueServed'
  BY <1>1, <1>4, LeaveServes DEF LockTimeout
<1>5. ASSUME NEW c \in Calls, DropGuard(c) PROVE QueueServed'
  BY <1>1, <1>2, <1>5, PassOnServes DEF DropGuard
<1>6. ASSUME NEW c \in Calls, GiveUpCall(c) PROVE QueueServed'
  BY <1>1, <1>2, <1>6, PassOnServes, LeaveServes DEF GiveUpCall
<1>7. ASSUME NEW c \in Calls, Works(c) PROVE QueueServed'
  BY <1>2, <1>7, WorkMoves DEF lockVars, CallInv
<1> QED
  BY <1>2, <1>3, <1>4, <1>5, <1>6, <1>7
  DEF CallNext, CallStep, Works, Count, Name, OrphanEnds, LeaseExpires, ResultForgotten, lockVars, callVars

(* A step that writes no lease, and moves no call that has one out of reach.*)
LEMMA LeaseUntouched ==
  ASSUME CallInv, LeaseInUse, UNCHANGED callLease,
         \A c \in Calls : \/ at'[c] = at[c]
                          \/ at'[c] \in Leased
                          \/ at[c] \notin Leased /\ at'[c] # "lease"
                          \/ at[c] \notin Leased /\ ToolOf[c] # "other"
                          \/ ToolOf[c] = "other" /\ at'[c] # "lease"
  PROVE  LeaseInUse'
<1>1. \A r \in Resources : callLease[r] # None => callLease[r] \in Calls
  BY DEF CallInv, LockInv, CallTypeOK
<1> QED BY <1>1 DEF LeaseInUse, Leased

(* A step that drops the lease of the call that moves.                      *)
LEMMA LeaseReturned ==
  ASSUME CallInv, LeaseInUse, NEW c \in Calls, LeaseDropped(c), at'[c] # "lease",
         \A d \in Calls \ {c} : at'[d] = at[d]
  PROVE  LeaseInUse'
<1>1. \A r \in Resources : callLease[r] # None => callLease[r] \in Calls
  BY DEF CallInv, LockInv, CallTypeOK
<1>2. \A r \in Resources : callLease'[r] = IF callLease[r] = c THEN None ELSE callLease[r]
  BY DEF LeaseDropped
<1> QED BY <1>1, <1>2 DEF LeaseInUse

(* The permit is passed on: who gives it up and who gets it have no lease.  *)
LEMMA PassOnLease ==
  ASSUME CallInv, LeaseInUse, NEW c \in Calls, at[c] \in {"granted", "release"},
         PassOn(c, "done"), UNCHANGED callLease
  PROVE  LeaseInUse'
<1> DEFINE w == WorkspaceOf[c]
<1>1. /\ at \in [Calls -> Ats] /\ w \in Workspaces /\ queue[w] \in Seq(Calls)
  BY CallAssumption DEF CallInv, LockInv, CallTypeOK
<1>2. CASE queue[w] = <<>>
  <2>1. at' = [at EXCEPT ![c] = "done"]
    BY <1>2 DEF PassOn
  <2> QED BY <1>1, <2>1, LeaseUntouched DEF Leased
<1>3. CASE queue[w] # <<>>
  <2>1. PICK d \in Calls : d = Head(queue[w]) /\ at[d] = "queued"
    BY <1>1, <1>3 DEF CallInv, LockInv, QueueOfWaiters
  <2>2. at' = [at EXCEPT ![c] = "done", ![d] = "granted"]
    BY <1>3, <2>1 DEF PassOn
  <2> QED BY <1>1, <2>1, <2>2, LeaseUntouched DEF Leased
<1> QED BY <1>2, <1>3

(* Every step keeps the leases with calls that use them.                    *)
LEMMA LeaseKept ==
  ASSUME CallInv, LeaseInUse, [CallNext]_callVars
  PROVE  LeaseInUse'
<1> USE DEF Leased
<1>1. /\ at \in [Calls -> Ats] /\ callLease \in [Resources -> Calls \cup {None}]
      /\ ToolOf \in [Calls -> {"file", "shell", "approved", "other"}]
      /\ ResourceOf \in [Calls -> Resources] /\ None \notin Calls
  BY CallAssumption DEF CallInv, LockInv, CallTypeOK
<1>2. ASSUME NEW c \in Calls,
             \/ Arrive(c) \/ CheckDenied(c) \/ CheckAllowed(c) \/ Enter(c) \/ LockTimeout(c)
             \/ Count(c) \/ LeaseBusy(c) \/ Scan(c) \/ ShellStarts(c) \/ OtherEffect(c)
      PROVE  LeaseInUse'
  <2>1. UNCHANGED callLease
    BY <1>2 DEF Arrive, CheckDenied, CheckAllowed, Enter, LockTimeout, Count, LeaseBusy, Scan,
                ShellStarts, OtherEffect
  <2>2. PICK to : /\ at' = [at EXCEPT ![c] = to]
                  /\ \/ to \in Leased
                     \/ at[c] \notin Leased /\ (to = "lease" => ToolOf[c] # "other")
                     \/ ToolOf[c] = "other" /\ to = "scan"
    BY <1>2 DEF Arrive, CheckDenied, CheckAllowed, Enter, LockTimeout, Count, LeaseBusy, Scan,
                ShellStarts, OtherEffect, Move, Home
  <2> QED BY <1>1, <2>1, <2>2, LeaseUntouched
<1>3. ASSUME NEW c \in Calls, Name(c) PROVE LeaseInUse'
  <2>1. ToolOf[c] # "other" /\ at[c] = "name"
    BY <1>3, AtTheLock DEF Name, Move, CallInv, Locks
  <2> QED BY <1>1, <1>3, <2>1, LeaseUntouched DEF Name, Move
<1>4. ASSUME NEW c \in Calls, DropGuard(c) PROVE LeaseInUse'
  <2>1. CASE at[c] = "release" /\ PassOn(c, "done")
    BY <1>4, <2>1, PassOnLease DEF DropGuard
  <2>2. CASE \E to \in {"clear", "release"} : at[c] \in Leaving /\ at' = [at EXCEPT ![c] = to]
    BY <1>1, <1>4, <2>2, LeaseUntouched DEF DropGuard, Leaving
  <2> QED BY <1>4, <2>1, <2>2 DEF DropGuard, DropOrder, Move
<1>5. ASSUME NEW c \in Calls, TakeLease(c) PROVE LeaseInUse'
  <2>1. /\ at[c] = "lease" /\ at' = [at EXCEPT ![c] = "lookup"]
        /\ callLease' = [callLease EXCEPT ![ResourceOf[c]] = c]
    BY <1>5 DEF TakeLease, Move
  <2>2. ToolOf[c] # "other"
    BY <2>1 DEF LeaseInUse
  <2> QED BY <1>1, <2>1, <2>2 DEF LeaseInUse
<1>6. ASSUME NEW c \in Calls,
             WriteFile(c) \/ ShellFails(c) \/ ShellReturns(c) \/ ShellTimeout(c)
      PROVE  LeaseInUse'
  <2>1. at' = [at EXCEPT ![c] = "scan"] /\ LeaseDropped(c)
    BY <1>6 DEF WriteFile, ShellFails, ShellReturns, ShellTimeout, Move
  <2> QED BY <1>1, <2>1, LeaseReturned
<1>7. ASSUME NEW c \in Calls, Lookup(c) PROVE LeaseInUse'
  <2>1. CASE at' = [at EXCEPT ![c] = "scan"] /\ LeaseDropped(c)
    BY <1>1, <2>1, LeaseReturned
  <2>2. CASE at' = [at EXCEPT ![c] = "effect"] /\ UNCHANGED callLease
    BY <1>1, <2>2, LeaseUntouched
  <2> QED BY <1>7, <2>1, <2>2 DEF Lookup, Move
<1>8. ASSUME NEW c \in Calls, GiveUpCall(c) PROVE LeaseInUse'
  <2>1. CASE at[c] = "granted" /\ PassOn(c, "done") /\ UNCHANGED callLease
    BY <2>1, PassOnLease
  <2>2. CASE /\ at[c] \in {"queued", "lease"} /\ UNCHANGED callLease
             /\ \E to \in {"done", "uncount"} : at' = [at EXCEPT ![c] = to]
    BY <1>1, <2>2, LeaseUntouched
  <2>3. CASE LeaseDropped(c) /\ \E to \in {"done", "uncount"} : at' = [at EXCEPT ![c] = to]
    BY <1>1, <2>3, LeaseReturned
  <2> QED BY <1>8, <2>1, <2>2, <2>3 DEF GiveUpCall, Move, Home
<1>9. ASSUME NEW r \in Resources, LeaseExpires(r) PROVE LeaseInUse'
  BY <1>1, <1>9 DEF LeaseExpires, LeaseInUse
<1>10. CASE UNCHANGED <<at, callLease>>
  BY <1>10 DEF LeaseInUse
<1> QED
  BY <1>2, <1>3, <1>4, <1>5, <1>6, <1>7, <1>8, <1>9, <1>10
  DEF CallNext, CallStep, OrphanEnds, ResultForgotten, callVars

(* Whatever times out, is busy or is given up, permits and leases come back *)
(* and the first waiter is let in.                                          *)
THEOREM GuardsComeBack == CallSpec => []GuardsReturned
<1>1. CallInit => QueueServed /\ LeaseInUse
  BY DEF CallInit, QueueServed, LeaseInUse
<1>2. CallInv /\ QueueServed /\ LeaseInUse /\ [CallNext]_callVars => QueueServed' /\ LeaseInUse'
  BY QueueStaysServed, LeaseKept
<1>3. CallInv /\ QueueServed /\ LeaseInUse => GuardsReturned
  BY DEF CallInv, LockInv, PermitOwner, Holding, QueueServed, LeaseInUse, Leased, GuardsReturned
<1> QED BY <1>1, <1>2, <1>3, CallInvariant, PTL DEF CallSpec

(****************************************************************************)
(* The client of the MCP server.                                            *)
(****************************************************************************)

(* The places of an operation that uses a client.                           *)
Using == {"wait", "init", "call", "again", "retry"}

(* Who has asked the pool has a client, and only some kinds ask it.         *)
ClientKnown ==
  /\ \A q \in McpOps : mcpPc[q] \in Using => clientOf[q] # None
  /\ \A q \in McpOps : clientOf[q] # None => mcpPc[q] \in Using \cup {"build"}
  /\ \A q \in McpOps : mcpPc[q] \in Using \cup {"pool", "build"} => q \in PoolOps

(* One operation builds a client, and the pool is empty while it does.      *)
OneBuilder ==
  /\ \A q \in McpOps : mcpPc[q] = "build" => building = q
  /\ building # None => mcpPc[building] = "build" /\ pooled = None

(* An import has one row to write.                                          *)
ImportsOnce == \A q \in McpOps : KindOf[q] = "import" => toWrite[q] <= 1

McpShape == McpTypeOK /\ ClientKnown /\ OneBuilder /\ ImportsOnce

(* The pipe of a client holds no answer that nobody read, unless a read was *)
(* given up and the child stayed.                                           *)
PipesClean == \A c \in McpClients : c \in muddied \/ unread[c] = <<>>

(* A client knows the tables, or an operation of this process that has      *)
(* changed them is yet to empty the pool, or one did not.                   *)
Known(c) ==
  \/ registry[c] = [imports |-> imports, row |-> serverRow]
  \/ unannounced
  \/ \E q \in Changed : KindOf[q] # "cli"

(* So it is with the client in the pool and with the one about to go there. *)
ClientsKnow ==
  /\ pooled # None => Known(pooled)
  /\ building # None => clientOf[building] = None \/ Known(clientOf[building])

McpInv == McpShape /\ PipesClean /\ OwnAnswer /\ ClientsKnow

-----------------------------------------------------------------------------
(* Nothing is pooled, changed or on its way.                                *)
LEMMA McpInitShape == McpInit => McpInv
<1> SUFFICES ASSUME McpInit PROVE McpInv
  OBVIOUS
<1> USE FreshClient, McpAssumption DEF McpInit
<1>1. McpTypeOK
  <2>1. 0 \in 0..MaxMcpFaults /\ 0 \in 0..3
    OBVIOUS
  <2>2. unread \in [McpClients -> Seq(Requests)] /\ \A c \in McpClients : unread[c] = <<>>
    OBVIOUS
  <2>3. registry \in [McpClients -> [imports : Nat, row : {"none", "on", "off"}]]
    OBVIOUS
  <2> QED
    BY <2>1, <2>2, <2>3 DEF McpTypeOK, McpPcs
<1>2. ClientKnown /\ OneBuilder /\ ImportsOnce
  BY DEF ClientKnown, OneBuilder, ImportsOnce, Using
<1>3. PipesClean /\ OwnAnswer /\ ClientsKnow
  BY DEF PipesClean, OwnAnswer, ClientsKnow
<1> QED
  BY <1>1, <1>2, <1>3 DEF McpInv, McpShape

(* The client of an operation that uses one.                                *)
LEMMA OwnClient ==
  ASSUME McpShape, NEW q \in McpOps, mcpPc[q] \in Using
  PROVE  clientOf[q] \in McpClients
BY DEF McpShape, McpTypeOK, ClientKnown

(* There is a client for whoever builds one.                                *)
LEMMA NewClient ==
  ASSUME McpShape, NEW q \in McpOps, mcpPc[q] = "build", clientOf[q] = None
  PROVE  LET c == CHOOSE c \in McpClients : c # pooled /\ \A p \in McpOps : clientOf[p] # c
         IN  c \in McpClients /\ c # pooled /\ \A p \in McpOps : clientOf[p] # c
<1> DEFINE held == [p \in PoolOps |-> clientOf[p]]
<1>1. held \in [PoolOps -> McpClients \cup {None}] /\ q \in PoolOps /\ held[q] = None
  BY DEF McpShape, McpTypeOK, ClientKnown, PoolOps
<1>2. PICK c \in McpClients : \A p \in PoolOps : held[p] # c
  BY <1>1, FreshClient
<1>3. \A p \in McpOps : clientOf[p] # c
  BY <1>2, FreshClient DEF McpShape, ClientKnown
<1>4. pooled = None /\ None \notin McpClients
  BY FreshClient DEF McpShape, OneBuilder
<1> QED
  BY <1>3, <1>4
(* What there is to write keeps its type.                                   *)
LEMMA ToWriteKept ==
  ASSUME McpShape, NEW q \in McpOps, NEW n \in 0..3,
         toWrite' = toWrite \/ toWrite' = [toWrite EXCEPT ![q] = n]
  PROVE  toWrite' \in [McpOps -> 0..3]
<1>1. toWrite \in [McpOps -> 0..3]
  BY DEF McpShape, McpTypeOK
<1> QED
  BY <1>1

(* What the pipe holds when an answer was read, or none was.                *)
LEMMA PipeAnswered ==
  ASSUME McpTypeOK, NEW c \in McpClients, NEW request \in Requests, Answered(c, request)
  PROVE  /\ unread' \in [McpClients -> Seq(Requests)]
         /\ child' \subseteq McpClients
         /\ \A d \in McpClients \ child' : unread'[d] = <<>>
         /\ \A d \in McpClients : unread[d] = <<>> => unread'[d] = <<>>
<1>1. /\ Tail(Append(unread[c], request)) \in Seq(Requests)
      /\ unread[c] = <<>> => Tail(Append(unread[c], request)) = <<>>
  <2>1. unread[c] \in Seq(Requests)
    BY DEF McpTypeOK
  <2>2. Append(unread[c], request) \in Seq(Requests) /\ Append(unread[c], request) # <<>>
    BY <2>1
  <2>3. Tail(Append(<<>>, request)) = <<>>
    OBVIOUS
  <2> QED
    BY <2>2, <2>3
<1>2. unread' = [unread EXCEPT ![c] = Tail(Append(unread[c], request))]
  BY DEF Answered
<1>3. unread' \in [McpClients -> Seq(Requests)]
  BY <1>1, <1>2 DEF McpTypeOK
<1>4. child' = child \cup {c} /\ child' \subseteq McpClients
  BY DEF McpTypeOK, Answered
<1>5. \A d \in McpClients : d # c => unread'[d] = unread[d]
  BY <1>2 DEF McpTypeOK
<1>6. unread[c] = <<>> => unread'[c] = <<>>
  BY <1>1, <1>2 DEF McpTypeOK
<1> QED
  BY <1>3, <1>4, <1>5, <1>6 DEF McpTypeOK

(* A request whose answer is not read muddies the pipe of its client.       *)
LEMMA PipeUnanswered ==
  ASSUME McpTypeOK, NEW c \in McpClients, NEW request \in Requests, Unanswered(c, request)
  PROVE  /\ unread' \in [McpClients -> Seq(Requests)]
         /\ child' \subseteq McpClients /\ muddied' \subseteq McpClients
         /\ \A d \in McpClients \ child' : unread'[d] = <<>>
         /\ PipesClean => PipesClean'
<1>1. Append(unread[c], request) \in Seq(Requests) /\ <<>> \in Seq(Requests)
  BY DEF McpTypeOK
<1>2. unread' \in [McpClients -> Seq(Requests)]
  BY <1>1 DEF McpTypeOK, Unanswered
<1> QED
  BY <1>2 DEF McpTypeOK, Unanswered, PipesClean

(* remove_process takes the child and its pipe away.                        *)
LEMMA PipeRemoved ==
  ASSUME McpTypeOK, NEW c \in McpClients, NEW request, RemoveProcess(c, request)
  PROVE  /\ unread' \in [McpClients -> Seq(Requests)]
         /\ child' \subseteq McpClients /\ muddied' \subseteq McpClients
         /\ \A d \in McpClients \ child' : unread'[d] = <<>>
         /\ PipesClean => PipesClean'
BY DEF McpTypeOK, RemoveProcess, PipesClean

(* TakeAnswer is the last part of both attempts.                            *)
LEMMA AnswerTypes ==
  ASSUME McpShape, NEW q \in McpOps, mcpPc[q] \in {"call", "retry"}, TakeAnswer(q),
         UNCHANGED <<mcpTables, clientPool>>
  PROVE  McpTypeOK'
<1>1. clientOf[q] \in McpClients /\ <<q, "call">> \in Requests
  BY OwnClient DEF Using, Requests
<1>2. /\ unread' \in [McpClients -> Seq(Requests)]
      /\ child' \subseteq McpClients
      /\ \A d \in McpClients \ child' : unread'[d] = <<>>
  BY <1>1, PipeAnswered DEF TakeAnswer, McpShape
<1>3. got' \in [McpOps -> {"none", "unasked", "own", "other", "stale"}]
  BY DEF TakeAnswer, McpShape, McpTypeOK
<1>4. clientOf' \in [McpOps -> McpClients \cup {None}] /\ mcpPc' \in [McpOps -> McpPcs]
  <2>1. \E pc \in McpPcs : mcpPc' = [mcpPc EXCEPT ![q] = pc]
    BY DEF TakeAnswer, Leave, McpGoto, McpPcs
  <2>2. clientOf' = [clientOf EXCEPT ![q] = None] \/ clientOf' = clientOf
    BY DEF TakeAnswer, Leave
  <2> QED
    BY <2>1, <2>2 DEF McpShape, McpTypeOK
<1>6. toWrite' \in [McpOps -> 0..3]
  <2>1. toWrite' = toWrite \/ toWrite' = [toWrite EXCEPT ![q] = 3]
    BY DEF TakeAnswer
  <2> QED
    BY <2>1 DEF McpShape, McpTypeOK
<1>5. UNCHANGED <<mcpTables, clientPool, opened, muddied, mcpFaults>>
  BY DEF TakeAnswer
<1> QED
  BY <1>2, <1>3, <1>4, <1>5, <1>6 DEF McpShape, McpTypeOK, mcpTables, clientPool

(* Every step keeps the types.                                              *)
LEMMA McpTypesKept ==
  ASSUME McpShape, [McpNext]_mcpVars
  PROVE  McpTypeOK'
<1> USE DEF McpPcs
<1>1. CASE UNCHANGED mcpVars
  BY <1>1 DEF mcpVars, McpShape, McpTypeOK
<1>2. ASSUME NEW q \in McpOps, Start(q) PROVE McpTypeOK'
  <2>1. mcpPc' \in [McpOps -> McpPcs] /\ toWrite' \in [McpOps -> 0..3]
    BY <1>2 DEF Start, McpGoto, McpShape, McpTypeOK
  <2> QED
    BY <1>2, <2>1 DEF Start, mcpTables, clientPool, pipes, McpShape, McpTypeOK
<1>3. ASSUME NEW q \in McpOps, Fetch(q) PROVE McpTypeOK'
  <2>1. mcpPc' \in [McpOps -> McpPcs] /\ clientOf' \in [McpOps -> McpClients \cup {None}]
    BY <1>3 DEF Fetch, McpGoto, McpShape, McpTypeOK
  <2>2. building' \in McpOps \cup {None}
    BY <1>3 DEF Fetch, McpShape, McpTypeOK
  <2> QED
    BY <1>3, <2>1, <2>2 DEF Fetch, mcpTables, pipes, McpShape, McpTypeOK
<1>4. ASSUME NEW q \in McpOps, Build(q) PROVE McpTypeOK'
  <2>1. CASE Loadable
    <3> DEFINE c == CHOOSE c \in McpClients : c # pooled /\ \A p \in McpOps : clientOf[p] # c
    <3>1. c \in McpClients
      BY <1>4, NewClient DEF Build
    <3>2. /\ clientOf' = [clientOf EXCEPT ![q] = c]
          /\ registry' = [registry EXCEPT ![c] = [imports |-> imports, row |-> serverRow]]
          /\ opened' = opened \ {c} /\ child' = child \ {c} /\ muddied' = muddied \ {c}
          /\ unread' = [unread EXCEPT ![c] = <<>>]
          /\ UNCHANGED <<building, mcpPc, mcpTables, pooled, toWrite, got, mcpFaults>>
      BY <1>4, <2>1 DEF Build
    <3> HIDE DEF c
    <3>3. /\ clientOf' \in [McpOps -> McpClients \cup {None}]
          /\ registry' \in [McpClients -> [imports : Nat, row : {"none", "on", "off"}]]
      BY <3>1, <3>2 DEF McpShape, McpTypeOK
    <3>4. unread' \in [McpClients -> Seq(Requests)] /\ \A d \in McpClients \ child' : unread'[d] = <<>>
      BY <3>1, <3>2 DEF McpShape, McpTypeOK
    <3> QED
      BY <3>2, <3>3, <3>4 DEF mcpTables, McpShape, McpTypeOK
  <2>2. CASE ~Loadable
    <3>1. mcpPc' \in [McpOps -> McpPcs]
      BY <1>4, <2>2 DEF Build, McpGoto, McpShape, McpTypeOK
    <3> QED
      BY <1>4, <2>2, <3>1 DEF Build, mcpTables, pipes, McpShape, McpTypeOK
  <2> QED
    BY <2>1, <2>2
<1>5. ASSUME NEW q \in McpOps, Insert(q) PROVE McpTypeOK'
  <2>1. mcpPc' \in [McpOps -> McpPcs] /\ pooled' \in McpClients \cup {None}
    BY <1>5 DEF Insert, McpGoto, McpShape, McpTypeOK
  <2> QED
    BY <1>5, <2>1 DEF Insert, mcpTables, pipes, McpShape, McpTypeOK
<1>6. ASSUME NEW q \in McpOps, EnterClient(q) PROVE McpTypeOK'
  <2>1. mcpPc' \in [McpOps -> McpPcs] /\ clientOf' \in [McpOps -> McpClients \cup {None}]
    BY <1>6 DEF EnterClient, Leave, McpGoto, McpShape, McpTypeOK
  <2> QED
    BY <1>6, <2>1 DEF EnterClient, mcpTables, clientPool, pipes, McpShape, McpTypeOK
<1>7. ASSUME NEW q \in McpOps, OpenSession(q) PROVE McpTypeOK'
  <2>1. clientOf[q] \in McpClients /\ <<q, "init">> \in Requests
    BY <1>7, OwnClient DEF OpenSession, Using, Requests
  <2>2. /\ unread' \in [McpClients -> Seq(Requests)]
        /\ child' \subseteq McpClients /\ muddied' \subseteq McpClients
        /\ \A d \in McpClients \ child' : unread'[d] = <<>>
    BY <1>7, <2>1, PipeAnswered, PipeUnanswered DEF OpenSession, McpShape, McpTypeOK
  <2>3. mcpPc' \in [McpOps -> McpPcs] /\ clientOf' \in [McpOps -> McpClients \cup {None}]
    BY <1>7 DEF OpenSession, Leave, McpGoto, McpShape, McpTypeOK
  <2>4. opened' \subseteq McpClients /\ mcpFaults' \in 0..MaxMcpFaults
    BY <1>7, <2>1, McpAssumption DEF OpenSession, McpFault, McpShape, McpTypeOK
  <2>5. UNCHANGED <<mcpTables, clientPool, toWrite, got>>
    BY <1>7 DEF OpenSession
  <2> QED
    BY <2>2, <2>3, <2>4, <2>5 DEF mcpTables, clientPool, McpShape, McpTypeOK
<1>8. ASSUME NEW q \in McpOps, Unsupported(q) PROVE McpTypeOK'
  <2>1. mcpPc' \in [McpOps -> McpPcs] /\ clientOf' \in [McpOps -> McpClients \cup {None}]
    BY <1>8 DEF Unsupported, Leave, McpGoto, McpShape, McpTypeOK
  <2>2. toWrite' \in [McpOps -> 0..3]
    <3>1. toWrite' = toWrite \/ toWrite' = [toWrite EXCEPT ![q] = 3]
      BY <1>8 DEF Unsupported
    <3> QED
      BY <3>1, ToWriteKept
  <2>3. got' \in [McpOps -> {"none", "unasked", "own", "other", "stale"}]
    BY <1>8 DEF Unsupported, McpShape, McpTypeOK
  <2> QED
    BY <1>8, <2>1, <2>2, <2>3 DEF Unsupported, mcpTables, clientPool, pipes, McpShape, McpTypeOK
<1>9. ASSUME NEW q \in McpOps, FirstAttempt(q) PROVE McpTypeOK'
  <2>1. CASE TakeAnswer(q)
    BY <1>9, <2>1, AnswerTypes DEF FirstAttempt
  <2>2. CASE McpFault /\ RemoveProcess(clientOf[q], <<q, "call">>)
             /\ McpGoto(q, "again") /\ UNCHANGED <<opened, clientOf, toWrite, got>>
    <3>1. clientOf[q] \in McpClients
      BY <1>9, OwnClient DEF FirstAttempt, Using
    <3>2. /\ unread' \in [McpClients -> Seq(Requests)]
          /\ child' \subseteq McpClients /\ muddied' \subseteq McpClients
          /\ \A d \in McpClients \ child' : unread'[d] = <<>>
      BY <2>2, <3>1, PipeRemoved DEF McpShape
    <3>3. mcpPc' \in [McpOps -> McpPcs] /\ mcpFaults' \in 0..MaxMcpFaults
      BY <2>2, McpAssumption DEF McpGoto, McpFault, McpShape, McpTypeOK
    <3>4. UNCHANGED <<mcpTables, clientPool>>
      BY <1>9 DEF FirstAttempt
    <3> QED
      BY <2>2, <3>2, <3>3, <3>4 DEF mcpTables, clientPool, McpShape, McpTypeOK
  <2> QED
    BY <1>9, <2>1, <2>2 DEF FirstAttempt
<1>10. ASSUME NEW q \in McpOps, Reinitialise(q) PROVE McpTypeOK'
  <2>1. clientOf[q] \in McpClients /\ <<q, "init">> \in Requests
    BY <1>10, OwnClient DEF Reinitialise, Using, Requests
  <2>2. /\ unread' \in [McpClients -> Seq(Requests)]
        /\ child' \subseteq McpClients /\ muddied' \subseteq McpClients
        /\ \A d \in McpClients \ child' : unread'[d] = <<>>
    BY <1>10, <2>1, PipeAnswered, PipeUnanswered DEF Reinitialise, McpShape, McpTypeOK
  <2>3. mcpPc' \in [McpOps -> McpPcs] /\ mcpFaults' \in 0..MaxMcpFaults
    BY <1>10, McpAssumption DEF Reinitialise, McpGoto, McpFault, McpShape, McpTypeOK
  <2>4. UNCHANGED <<mcpTables, clientPool, opened, clientOf, toWrite, got>>
    BY <1>10 DEF Reinitialise
  <2> QED
    BY <2>2, <2>3, <2>4 DEF mcpTables, clientPool, McpShape, McpTypeOK
<1>11. ASSUME NEW q \in McpOps, SecondAttempt(q) PROVE McpTypeOK'
  <2>1. CASE TakeAnswer(q)
    BY <1>11, <2>1, AnswerTypes DEF SecondAttempt
  <2>2. CASE McpFault /\ Unanswered(clientOf[q], <<q, "call">>)
             /\ Leave(q, "failed") /\ UNCHANGED <<opened, toWrite, got>>
    <3>1. clientOf[q] \in McpClients /\ <<q, "call">> \in Requests
      BY <1>11, OwnClient DEF SecondAttempt, Using, Requests
    <3>2. /\ unread' \in [McpClients -> Seq(Requests)]
          /\ child' \subseteq McpClients /\ muddied' \subseteq McpClients
          /\ \A d \in McpClients \ child' : unread'[d] = <<>>
      BY <2>2, <3>1, PipeUnanswered DEF McpShape
    <3>3. /\ mcpPc' \in [McpOps -> McpPcs] /\ mcpFaults' \in 0..MaxMcpFaults
          /\ clientOf' \in [McpOps -> McpClients \cup {None}]
      BY <2>2, McpAssumption DEF Leave, McpGoto, McpFault, McpShape, McpTypeOK
    <3>4. UNCHANGED <<mcpTables, clientPool>>
      BY <1>11 DEF SecondAttempt
    <3> QED
      BY <2>2, <3>2, <3>3, <3>4 DEF mcpTables, clientPool, McpShape, McpTypeOK
  <2> QED
    BY <1>11, <2>1, <2>2 DEF SecondAttempt
<1>12. ASSUME NEW q \in McpOps, RegisterServer(q) PROVE McpTypeOK'
  <2>1. mcpPc' \in [McpOps -> McpPcs] /\ toWrite' \in [McpOps -> 0..3]
    <3>1. toWrite' = toWrite \/ toWrite' = [toWrite EXCEPT ![q] = 3]
      BY <1>12 DEF RegisterServer
    <3>2. mcpPc' = mcpPc \/ mcpPc' = [mcpPc EXCEPT ![q] = "drop"]
      BY <1>12 DEF RegisterServer, McpGoto
    <3>3. toWrite' \in [McpOps -> 0..3]
      BY <3>1, ToWriteKept
    <3> QED
      BY <3>2, <3>3 DEF McpShape, McpTypeOK
  <2>2. serverRow' \in {"none", "on", "off"} /\ unannounced' \in BOOLEAN
    BY <1>12 DEF RegisterServer, McpShape, McpTypeOK
  <2> QED
    BY <1>12, <2>1, <2>2 DEF RegisterServer, clientPool, pipes, McpShape, McpTypeOK
<1>13. ASSUME NEW q \in McpOps, WriteImports(q) PROVE McpTypeOK'
  <2>1. mcpPc' \in [McpOps -> McpPcs]
    <3>1. mcpPc' = mcpPc \/ mcpPc' = [mcpPc EXCEPT ![q] = "refresh"]
      BY <1>13 DEF WriteImports, McpGoto
    <3> QED
      BY <3>1 DEF McpShape, McpTypeOK
  <2>2. toWrite' \in [McpOps -> 0..3]
    <3> DEFINE n == toWrite[q] - 1
    <3>1. n \in 0..3 /\ toWrite' = [toWrite EXCEPT ![q] = n]
      BY <1>13 DEF WriteImports, McpShape, McpTypeOK
    <3> HIDE DEF n
    <3> QED
      BY <3>1, ToWriteKept
  <2>3. imports' \in Nat /\ unannounced' \in BOOLEAN
    BY <1>13 DEF WriteImports, McpShape, McpTypeOK
  <2> QED
    BY <1>13, <2>1, <2>2, <2>3 DEF WriteImports, clientPool, pipes, McpShape, McpTypeOK
<1>14. ASSUME NEW q \in McpOps, RefreshCache(q) PROVE McpTypeOK'
  <2>1. mcpPc' \in [McpOps -> McpPcs]
    BY <1>14 DEF RefreshCache, McpGoto, McpShape, McpTypeOK
  <2> QED
    BY <1>14, <2>1 DEF RefreshCache, mcpTables, clientPool, pipes, McpShape, McpTypeOK
<1>15. ASSUME NEW q \in McpOps, ChangeFails(q) PROVE McpTypeOK'
  <2>1. mcpPc' \in [McpOps -> McpPcs] /\ mcpFaults' \in 0..MaxMcpFaults
    BY <1>15, McpAssumption DEF ChangeFails, McpFault, McpGoto, McpShape, McpTypeOK
  <2>2. unannounced' \in BOOLEAN
    BY <1>15 DEF ChangeFails, McpShape, McpTypeOK
  <2> QED
    BY <1>15, <2>1, <2>2 DEF ChangeFails, clientPool, pipes, McpShape, McpTypeOK
<1>16. ASSUME NEW q \in McpOps, DropClient(q) PROVE McpTypeOK'
  <2>1. mcpPc' \in [McpOps -> McpPcs]
    BY <1>16 DEF DropClient, McpGoto, McpShape, McpTypeOK
  <2> QED
    BY <1>16, <2>1 DEF DropClient, EmptyPool, pipes, McpShape, McpTypeOK
<1> QED
  BY <1>1, <1>2, <1>3, <1>4, <1>5, <1>6, <1>7, <1>8, <1>9, <1>10, <1>11, <1>12, <1>13, <1>14,
     <1>15, <1>16 DEF McpNext

(* A step of one operation, by where it goes and what client it has then.   *)
LEMMA ClientKnownKept ==
  ASSUME McpShape, NEW q \in McpOps, NEW pc, McpGoto(q, pc),
         \A p \in McpOps : p # q => clientOf'[p] = clientOf[p],
         pc \in Using => clientOf'[q] # None,
         pc \notin Using \cup {"build"} => clientOf'[q] = None,
         pc \in Using \cup {"pool", "build"} => q \in PoolOps
  PROVE  ClientKnown'
<1>1. /\ mcpPc'[q] = pc
      /\ \A p \in McpOps : p # q => mcpPc'[p] = mcpPc[p] /\ clientOf'[p] = clientOf[p]
  BY DEF McpShape, McpTypeOK, McpGoto
<1> QED
  BY <1>1 DEF McpShape, ClientKnown

(* It gives its client back.                                                *)
LEMMA ClientGivenBack ==
  ASSUME McpShape, NEW q \in McpOps, NEW pc \in {"done", "failed", "write"}, Leave(q, pc)
  PROVE  ClientKnown'
<1>1. /\ McpGoto(q, pc) /\ clientOf'[q] = None
      /\ \A p \in McpOps : p # q => clientOf'[p] = clientOf[p]
  BY DEF Leave, McpShape, McpTypeOK
<1> QED
  BY <1>1, ClientKnownKept DEF Using

(* It goes on with its client.                                              *)
LEMMA ClientStays ==
  ASSUME McpShape, NEW q \in McpOps, NEW pc \in Using, mcpPc[q] \in Using,
         McpGoto(q, pc), clientOf' = clientOf
  PROVE  ClientKnown'
BY ClientKnownKept DEF McpShape, ClientKnown, Using

(* It has none, before and after.                                           *)
LEMMA ClientNone ==
  ASSUME McpShape, NEW q \in McpOps, NEW pc, mcpPc[q] \notin Using \cup {"build"},
         pc \notin Using \cup {"build"}, pc = "pool" => q \in PoolOps,
         McpGoto(q, pc), clientOf' = clientOf
  PROVE  ClientKnown'
BY ClientKnownKept DEF McpShape, ClientKnown, Using

(* Only an operation that asked the pool has more than one import to write. *)
LEMMA ImportsOnceKept ==
  ASSUME McpShape, NEW q \in McpOps, KindOf[q] # "import",
         toWrite' = toWrite \/ toWrite' = [toWrite EXCEPT ![q] = 3]
  PROVE  ImportsOnce'
<1>1. \A p \in McpOps : p # q => toWrite'[p] = toWrite[p]
  BY DEF McpShape, McpTypeOK
<1> QED
  BY <1>1 DEF McpShape, ImportsOnce

(* Who uses a client, who builds one, and what an import has to write.      *)
LEMMA McpControlKept ==
  ASSUME McpShape, [McpNext]_mcpVars
  PROVE  ClientKnown' /\ OneBuilder' /\ ImportsOnce'
<1> USE FreshClient DEF McpShape, clientPool
<1>1. CASE UNCHANGED mcpVars
  BY <1>1 DEF mcpVars, ClientKnown, OneBuilder, ImportsOnce
<1>2. ASSUME NEW q \in McpOps, Start(q) PROVE ClientKnown' /\ OneBuilder' /\ ImportsOnce'
  <2>1. ClientKnown'
    <3> DEFINE first == mcpPc'[q]
    <3>1. McpGoto(q, first) /\ first \notin Using \cup {"build"} /\ clientOf' = clientOf
      BY <1>2 DEF Start, McpGoto, McpTypeOK, Using
    <3>2. first = "pool" => q \in PoolOps
      <4>1. KindOf[q] \in McpKinds
        BY <1>2, McpAssumption
      <4> QED
        BY <1>2, <4>1 DEF Start, McpGoto, McpTypeOK, McpKinds, PoolOps
    <3>3. mcpPc[q] \notin Using \cup {"build"}
      BY <1>2 DEF Start, Using
    <3> HIDE DEF first
    <3> QED
      BY <1>2, <3>1, <3>2, <3>3, ClientNone
  <2>2. OneBuilder'
    BY <1>2 DEF Start, McpGoto, McpTypeOK, OneBuilder
  <2>3. ImportsOnce'
    BY <1>2 DEF Start, McpTypeOK, ImportsOnce
  <2> QED
    BY <2>1, <2>2, <2>3
<1>3. ASSUME NEW q \in McpOps, Fetch(q) PROVE ClientKnown' /\ OneBuilder' /\ ImportsOnce'
  <2>1. ClientKnown'
    <3>1. q \in PoolOps /\ clientOf[q] = None
      BY <1>3 DEF Fetch, ClientKnown, Using
    <3>2. CASE McpGoto(q, "wait") /\ clientOf' = [clientOf EXCEPT ![q] = pooled] /\ pooled # None
      <4>1. clientOf'[q] # None /\ \A p \in McpOps : p # q => clientOf'[p] = clientOf[p]
        BY <1>3, <3>2 DEF McpTypeOK
      <4> QED
        BY <1>3, <3>1, <3>2, <4>1, ClientKnownKept DEF Using
    <3>3. CASE McpGoto(q, "build") /\ clientOf' = clientOf
      BY <1>3, <3>1, <3>3, ClientKnownKept DEF Using
    <3> QED
      BY <1>3, <3>2, <3>3 DEF Fetch
  <2>2. OneBuilder'
    BY <1>3 DEF Fetch, McpGoto, McpTypeOK, OneBuilder
  <2>3. ImportsOnce'
    BY <1>3 DEF Fetch, McpTypeOK, ImportsOnce
  <2> QED
    BY <2>1, <2>2, <2>3
<1>4. ASSUME NEW q \in McpOps, Build(q) PROVE ClientKnown' /\ OneBuilder' /\ ImportsOnce'
  <2>1. ClientKnown'
    <3>1. CASE Loadable
      BY <1>4, <3>1 DEF Build, McpTypeOK, ClientKnown, Using
    <3>2. CASE ~Loadable
      <4>1. McpGoto(q, "failed") /\ clientOf' = clientOf /\ clientOf[q] = None
        BY <1>4, <3>2 DEF Build
      <4> QED
        BY <1>4, <4>1, ClientKnownKept DEF Using
    <3> QED
      BY <3>1, <3>2
  <2>2. OneBuilder'
    BY <1>4 DEF Build, McpGoto, McpTypeOK, OneBuilder
  <2>3. ImportsOnce'
    BY <1>4 DEF Build, McpTypeOK, ImportsOnce
  <2> QED
    BY <2>1, <2>2, <2>3
<1>5. ASSUME NEW q \in McpOps, Insert(q) PROVE ClientKnown' /\ OneBuilder' /\ ImportsOnce'
  <2>1. ClientKnown'
    <3>1. McpGoto(q, "wait") /\ clientOf' = clientOf /\ clientOf[q] # None
      BY <1>5 DEF Insert
    <3>2. q \in PoolOps
      BY <1>5 DEF Insert, ClientKnown
    <3> QED
      BY <1>5, <3>1, <3>2, ClientKnownKept DEF Using
  <2>2. OneBuilder'
    BY <1>5 DEF Insert, McpGoto, McpTypeOK, OneBuilder
  <2>3. ImportsOnce'
    BY <1>5 DEF Insert, McpTypeOK, ImportsOnce
  <2> QED
    BY <2>1, <2>2, <2>3
<1>6. ASSUME NEW q \in McpOps, EnterClient(q) PROVE ClientKnown' /\ OneBuilder' /\ ImportsOnce'
  <2>1. ClientKnown'
    <3>1. \/ Leave(q, "failed")
          \/ \E pc \in {"call", "init"} : McpGoto(q, pc) /\ clientOf' = clientOf
      BY <1>6 DEF EnterClient
    <3>2. mcpPc[q] \in Using
      BY <1>6 DEF EnterClient, Using
    <3> QED
      BY <1>6, <3>1, <3>2, ClientGivenBack, ClientStays DEF Using
  <2>2. OneBuilder'
    BY <1>6 DEF EnterClient, Leave, McpGoto, McpTypeOK, OneBuilder
  <2>3. ImportsOnce'
    BY <1>6 DEF EnterClient, McpTypeOK, ImportsOnce
  <2> QED
    BY <2>1, <2>2, <2>3
<1>7. ASSUME NEW q \in McpOps, OpenSession(q) PROVE ClientKnown' /\ OneBuilder' /\ ImportsOnce'
  <2>1. ClientKnown'
    <3>1. mcpPc[q] \in Using
      BY <1>7 DEF OpenSession, Using
    <3>2. CASE McpGoto(q, "call") /\ UNCHANGED clientOf
      BY <1>7, <3>1, <3>2, ClientStays DEF Using
    <3>3. CASE Leave(q, "failed")
      BY <1>7, <3>3, ClientGivenBack
    <3> QED
      BY <1>7, <3>2, <3>3 DEF OpenSession
  <2>2. OneBuilder'
    BY <1>7 DEF OpenSession, Leave, McpGoto, McpTypeOK, OneBuilder
  <2>3. ImportsOnce'
    BY <1>7 DEF OpenSession, McpTypeOK, ImportsOnce
  <2> QED
    BY <2>1, <2>2, <2>3
<1>8. ASSUME NEW q \in McpOps, Unsupported(q) PROVE ClientKnown' /\ OneBuilder' /\ ImportsOnce'
  <2>1. ClientKnown'
    <3>1. \E pc \in {"failed", "write"} : Leave(q, pc)
      BY <1>8 DEF Unsupported
    <3> QED
      BY <1>8, <3>1, ClientGivenBack
  <2>2. OneBuilder'
    BY <1>8 DEF Unsupported, Leave, McpGoto, McpTypeOK, OneBuilder
  <2>3. ImportsOnce'
    <3>1. KindOf[q] # "import"
      BY <1>8 DEF Unsupported, ClientKnown, Using, PoolOps
    <3>2. toWrite' = toWrite \/ toWrite' = [toWrite EXCEPT ![q] = 3]
      BY <1>8 DEF Unsupported
    <3> QED
      BY <1>8, <3>1, <3>2, ImportsOnceKept
  <2> QED
    BY <2>1, <2>2, <2>3
<1>9. ASSUME NEW q \in McpOps, FirstAttempt(q) PROVE ClientKnown' /\ OneBuilder' /\ ImportsOnce'
  <2>1. ClientKnown'
    <3>1. \/ \E pc \in {"done", "failed", "write"} : Leave(q, pc)
          \/ \E pc \in {"call", "again"} : McpGoto(q, pc) /\ clientOf' = clientOf
      BY <1>9 DEF FirstAttempt, TakeAnswer
    <3>2. mcpPc[q] \in Using
      BY <1>9 DEF FirstAttempt, Using
    <3> QED
      BY <1>9, <3>1, <3>2, ClientGivenBack, ClientStays DEF Using
  <2>2. OneBuilder'
    BY <1>9 DEF FirstAttempt, TakeAnswer, Leave, McpGoto, McpTypeOK, OneBuilder
  <2>3. ImportsOnce'
    <3>1. KindOf[q] # "import"
      BY <1>9 DEF FirstAttempt, ClientKnown, Using, PoolOps
    <3>2. toWrite' = toWrite \/ toWrite' = [toWrite EXCEPT ![q] = 3]
      BY <1>9 DEF FirstAttempt, TakeAnswer
    <3> QED
      BY <1>9, <3>1, <3>2, ImportsOnceKept
  <2> QED
    BY <2>1, <2>2, <2>3
<1>10. ASSUME NEW q \in McpOps, Reinitialise(q) PROVE ClientKnown' /\ OneBuilder' /\ ImportsOnce'
  <2>1. ClientKnown'
    <3>1. McpGoto(q, "retry") /\ clientOf' = clientOf /\ mcpPc[q] \in Using
      BY <1>10 DEF Reinitialise, Using
    <3> QED
      BY <1>10, <3>1, ClientStays DEF Using
  <2>2. OneBuilder'
    BY <1>10 DEF Reinitialise, McpGoto, McpTypeOK, OneBuilder
  <2>3. ImportsOnce'
    BY <1>10 DEF Reinitialise, McpTypeOK, ImportsOnce
  <2> QED
    BY <2>1, <2>2, <2>3
<1>11. ASSUME NEW q \in McpOps, SecondAttempt(q) PROVE ClientKnown' /\ OneBuilder' /\ ImportsOnce'
  <2>1. ClientKnown'
    <3>1. \/ \E pc \in {"done", "failed", "write"} : Leave(q, pc)
          \/ \E pc \in {"call", "again"} : McpGoto(q, pc) /\ clientOf' = clientOf
      BY <1>11 DEF SecondAttempt, TakeAnswer
    <3>2. mcpPc[q] \in Using
      BY <1>11 DEF SecondAttempt, Using
    <3> QED
      BY <1>11, <3>1, <3>2, ClientGivenBack, ClientStays DEF Using
  <2>2. OneBuilder'
    BY <1>11 DEF SecondAttempt, TakeAnswer, Leave, McpGoto, McpTypeOK, OneBuilder
  <2>3. ImportsOnce'
    <3>1. KindOf[q] # "import"
      BY <1>11 DEF SecondAttempt, ClientKnown, Using, PoolOps
    <3>2. toWrite' = toWrite \/ toWrite' = [toWrite EXCEPT ![q] = 3]
      BY <1>11 DEF SecondAttempt, TakeAnswer
    <3> QED
      BY <1>11, <3>1, <3>2, ImportsOnceKept
  <2> QED
    BY <2>1, <2>2, <2>3
<1>12. ASSUME NEW q \in McpOps, RegisterServer(q) PROVE ClientKnown' /\ OneBuilder' /\ ImportsOnce'
  <2>1. ClientKnown'
    <3>1. /\ McpGoto(q, "drop") \/ mcpPc' = mcpPc
          /\ clientOf' = clientOf /\ mcpPc[q] = "write"
      BY <1>12 DEF RegisterServer
    <3>2. CASE mcpPc' = mcpPc
      BY <3>1, <3>2 DEF ClientKnown
    <3>3. CASE McpGoto(q, "drop")
      <4>1. "drop" \notin Using \cup {"build", "pool"} /\ "write" \notin Using \cup {"build"}
        BY DEF Using
      <4> QED
        BY <1>12, <3>1, <3>3, <4>1, ClientNone
    <3> QED
      BY <3>1, <3>2, <3>3
  <2>2. OneBuilder'
    BY <1>12 DEF RegisterServer, McpGoto, McpTypeOK, OneBuilder
  <2>3. ImportsOnce'
    BY <1>12 DEF RegisterServer, McpTypeOK, ImportsOnce
  <2> QED
    BY <2>1, <2>2, <2>3
<1>13. ASSUME NEW q \in McpOps, WriteImports(q) PROVE ClientKnown' /\ OneBuilder' /\ ImportsOnce'
  <2>1. ClientKnown'
    <3>1. /\ McpGoto(q, "refresh") \/ mcpPc' = mcpPc
          /\ clientOf' = clientOf /\ mcpPc[q] = "write"
      BY <1>13 DEF WriteImports
    <3>2. CASE mcpPc' = mcpPc
      BY <3>1, <3>2 DEF ClientKnown
    <3>3. CASE McpGoto(q, "refresh")
      <4>1. "refresh" \notin Using \cup {"build", "pool"} /\ "write" \notin Using \cup {"build"}
        BY DEF Using
      <4> QED
        BY <1>13, <3>1, <3>3, <4>1, ClientNone
    <3> QED
      BY <3>1, <3>2, <3>3
  <2>2. OneBuilder'
    BY <1>13 DEF WriteImports, McpGoto, McpTypeOK, OneBuilder
  <2>3. ImportsOnce'
    <3>1. toWrite[q] \in 0..3 /\ toWrite' = [toWrite EXCEPT ![q] = toWrite[q] - 1]
      BY <1>13 DEF WriteImports, McpTypeOK
    <3>2. \A p \in McpOps : toWrite'[p] = IF p = q THEN toWrite[p] - 1 ELSE toWrite[p]
      BY <1>13, <3>1 DEF McpTypeOK
    <3> QED
      BY <3>1, <3>2 DEF ImportsOnce
  <2> QED
    BY <2>1, <2>2, <2>3
<1>14. ASSUME NEW q \in McpOps, RefreshCache(q) PROVE ClientKnown' /\ OneBuilder' /\ ImportsOnce'
  <2>1. ClientKnown'
    BY <1>14 DEF RefreshCache, McpGoto, McpTypeOK, ClientKnown, Using, PoolOps
  <2>2. OneBuilder'
    BY <1>14 DEF RefreshCache, McpGoto, McpTypeOK, OneBuilder
  <2>3. ImportsOnce'
    BY <1>14 DEF RefreshCache, McpTypeOK, ImportsOnce
  <2> QED
    BY <2>1, <2>2, <2>3
<1>15. ASSUME NEW q \in McpOps, ChangeFails(q) PROVE ClientKnown' /\ OneBuilder' /\ ImportsOnce'
  <2>1. ClientKnown'
    BY <1>15 DEF ChangeFails, McpGoto, McpTypeOK, ClientKnown, Using, PoolOps
  <2>2. OneBuilder'
    BY <1>15 DEF ChangeFails, McpGoto, McpTypeOK, OneBuilder
  <2>3. ImportsOnce'
    BY <1>15 DEF ChangeFails, McpTypeOK, ImportsOnce
  <2> QED
    BY <2>1, <2>2, <2>3
<1>16. ASSUME NEW q \in McpOps, DropClient(q) PROVE ClientKnown' /\ OneBuilder' /\ ImportsOnce'
  <2>1. ClientKnown'
    BY <1>16 DEF DropClient, EmptyPool, McpGoto, McpTypeOK, ClientKnown, Using, PoolOps
  <2>2. OneBuilder'
    BY <1>16 DEF DropClient, EmptyPool, McpGoto, McpTypeOK, OneBuilder
  <2>3. ImportsOnce'
    BY <1>16 DEF DropClient, McpTypeOK, ImportsOnce
  <2> QED
    BY <2>1, <2>2, <2>3
<1> QED
  BY <1>1, <1>2, <1>3, <1>4, <1>5, <1>6, <1>7, <1>8, <1>9, <1>10, <1>11, <1>12, <1>13, <1>14, <1>15, <1>16 DEF McpNext

(* An answer that is read is the reader's own while the pipe is clean.      *)
LEMMA AnswerIsOwn ==
  ASSUME McpInv, NEW q \in McpOps, mcpPc[q] \in {"call", "retry"}, TakeAnswer(q)
  PROVE  PipesClean' /\ OwnAnswer'
<1> DEFINE c == clientOf[q]
<1>1. c \in McpClients /\ <<q, "call">> \in Requests
  BY OwnClient DEF McpInv, Using, Requests
<1>2. Answered(c, <<q, "call">>) /\ muddied' = muddied
  BY DEF TakeAnswer
<1>3. PipesClean'
  <2>1. \A d \in McpClients : unread[d] = <<>> => unread'[d] = <<>>
    BY <1>1, <1>2, PipeAnswered DEF McpInv, McpShape
  <2> QED
    BY <1>2, <2>1 DEF McpInv, PipesClean
<1>4. got'[q] # "other"
  <2>1. c \notin muddied => FirstInPipe(c, <<q, "call">>) = <<q, "call">>
    BY <1>1 DEF McpInv, PipesClean, FirstInPipe
  <2>2. got'[q] = IF FirstInPipe(c, <<q, "call">>) = <<q, "call">> THEN "own"
                  ELSE IF c \in muddied THEN "stale" ELSE "other"
    BY DEF TakeAnswer, McpInv, McpShape, McpTypeOK
  <2> QED
    BY <2>1, <2>2
<1>5. \A p \in McpOps : p # q => got'[p] = got[p]
  BY DEF TakeAnswer, McpInv, McpShape, McpTypeOK
<1> QED
  BY <1>3, <1>4, <1>5 DEF McpInv, OwnAnswer

(* Every step keeps the pipes clean, and gives an operation its own answer. *)
LEMMA McpPipesKept ==
  ASSUME McpInv, [McpNext]_mcpVars
  PROVE  PipesClean' /\ OwnAnswer'
<1> USE DEF McpInv
<1>1. CASE UNCHANGED <<pipes, got>>
  BY <1>1 DEF pipes, PipesClean, OwnAnswer
<1>2. CASE UNCHANGED mcpVars
  BY <1>1, <1>2 DEF mcpVars, pipes
<1>3. ASSUME NEW q \in McpOps, Build(q) PROVE PipesClean' /\ OwnAnswer'
  <2>1. \/ UNCHANGED pipes
        \/ \E c : unread' = [unread EXCEPT ![c] = <<>>] /\ muddied' = muddied \ {c}
    BY <1>3 DEF Build
  <2>2. PipesClean'
    BY <2>1 DEF pipes, PipesClean, McpShape, McpTypeOK
  <2> QED
    BY <1>3, <2>2 DEF Build, OwnAnswer
<1>4. ASSUME NEW q \in McpOps, OpenSession(q) PROVE PipesClean' /\ OwnAnswer'
  <2>1. clientOf[q] \in McpClients /\ <<q, "init">> \in Requests
    BY <1>4, OwnClient DEF OpenSession, Using, Requests
  <2>2. ASSUME Answered(clientOf[q], <<q, "init">>), UNCHANGED muddied PROVE PipesClean'
    <3>1. \A d \in McpClients : unread[d] = <<>> => unread'[d] = <<>>
      BY <2>1, <2>2, PipeAnswered DEF McpShape
    <3> QED
      BY <2>2, <3>1 DEF PipesClean
  <2>3. ASSUME Unanswered(clientOf[q], <<q, "init">>) PROVE PipesClean'
    BY <2>1, <2>3, PipeUnanswered DEF McpShape
  <2>4. PipesClean'
    BY <1>4, <2>2, <2>3 DEF OpenSession
  <2> QED
    BY <1>4, <2>4 DEF OpenSession, OwnAnswer
<1>5. ASSUME NEW q \in McpOps, Unsupported(q) PROVE PipesClean' /\ OwnAnswer'
  BY <1>5 DEF Unsupported, pipes, PipesClean, OwnAnswer, McpShape, McpTypeOK
<1>6. ASSUME NEW q \in McpOps, FirstAttempt(q) PROVE PipesClean' /\ OwnAnswer'
  <2>1. CASE TakeAnswer(q)
    BY <1>6, <2>1, AnswerIsOwn DEF FirstAttempt
  <2>2. CASE RemoveProcess(clientOf[q], <<q, "call">>) /\ UNCHANGED got
    <3>1. clientOf[q] \in McpClients
      BY <1>6, OwnClient DEF FirstAttempt, Using
    <3> QED
      BY <2>2, <3>1, PipeRemoved DEF OwnAnswer, McpShape
  <2> QED
    BY <1>6, <2>1, <2>2 DEF FirstAttempt
<1>7. ASSUME NEW q \in McpOps, Reinitialise(q) PROVE PipesClean' /\ OwnAnswer'
  <2>1. clientOf[q] \in McpClients /\ <<q, "init">> \in Requests
    BY <1>7, OwnClient DEF Reinitialise, Using, Requests
  <2>2. ASSUME Answered(clientOf[q], <<q, "init">>), UNCHANGED muddied PROVE PipesClean'
    <3>1. \A d \in McpClients : unread[d] = <<>> => unread'[d] = <<>>
      BY <2>1, <2>2, PipeAnswered DEF McpShape
    <3> QED
      BY <2>2, <3>1 DEF PipesClean
  <2>3. ASSUME Unanswered(clientOf[q], <<q, "init">>) PROVE PipesClean'
    BY <2>1, <2>3, PipeUnanswered DEF McpShape
  <2>4. PipesClean'
    BY <1>7, <2>2, <2>3 DEF Reinitialise
  <2> QED
    BY <1>7, <2>4 DEF Reinitialise, OwnAnswer
<1>8. ASSUME NEW q \in McpOps, SecondAttempt(q) PROVE PipesClean' /\ OwnAnswer'
  <2>1. CASE TakeAnswer(q)
    BY <1>8, <2>1, AnswerIsOwn DEF SecondAttempt
  <2>2. CASE Unanswered(clientOf[q], <<q, "call">>) /\ UNCHANGED got
    <3>1. clientOf[q] \in McpClients /\ <<q, "call">> \in Requests
      BY <1>8, OwnClient DEF SecondAttempt, Using, Requests
    <3> QED
      BY <2>2, <3>1, PipeUnanswered DEF OwnAnswer, McpShape
  <2> QED
    BY <1>8, <2>1, <2>2 DEF SecondAttempt
<1>9. ASSUME NEW q \in McpOps,
             \/ Start(q) \/ Fetch(q) \/ Insert(q) \/ EnterClient(q) \/ RegisterServer(q)
             \/ WriteImports(q) \/ RefreshCache(q) \/ ChangeFails(q) \/ DropClient(q)
      PROVE  UNCHANGED <<pipes, got>>
  BY <1>9 DEF Start, Fetch, Insert, EnterClient, RegisterServer, WriteImports, RefreshCache,
              ChangeFails, DropClient
<1> QED
  BY <1>1, <1>2, <1>3, <1>4, <1>5, <1>6, <1>7, <1>8, <1>9 DEF McpNext

-----------------------------------------------------------------------------
(* What a client knows is as it was when its copy and the tables are, and   *)
(* every operation that has yet to empty the pool still has.                *)
LEMMA KnownKept ==
  ASSUME NEW c, Known(c), UNCHANGED <<imports, serverRow>>, registry'[c] = registry[c],
         unannounced => unannounced',
         \A q \in Changed : KindOf[q] # "cli" => q \in Changed'
  PROVE  Known(c)'
BY DEF Known

(* One operation moves, and the others that changed the tables still have.  *)
LEMMA ChangedKept ==
  ASSUME McpTypeOK, NEW q \in McpOps, NEW pc, McpGoto(q, pc) \/ UNCHANGED mcpPc,
         \A p \in McpOps : p # q => toWrite'[p] = toWrite[p],
         q \in Changed /\ KindOf[q] # "cli" => q \in Changed'
  PROVE  \A p \in Changed : KindOf[p] # "cli" => p \in Changed'
<1>1. \A p \in McpOps : p # q => mcpPc'[p] = mcpPc[p]
  BY DEF McpTypeOK, McpGoto
<1> QED
  BY <1>1 DEF Changed

(* A step that leaves the tables, the pool, and the copy of the client that *)
(* is about to go there.                                                    *)
LEMMA ClientsKnowKept ==
  ASSUME McpInv, UNCHANGED <<imports, serverRow, registry, pooled, building>>,
         unannounced => unannounced',
         building # None => clientOf'[building] = clientOf[building],
         \A q \in Changed : KindOf[q] # "cli" => q \in Changed'
  PROVE  ClientsKnow'
<1>1. \A c : Known(c) => Known(c)'
  BY KnownKept
<1>2. pooled # None => Known(pooled)'
  BY <1>1 DEF McpInv, ClientsKnow, Known
<1>3. building # None => clientOf'[building] = None \/ Known(clientOf[building])'
  BY <1>1 DEF McpInv, ClientsKnow, Known
<1> QED
  BY <1>2, <1>3 DEF ClientsKnow, Known

(* Every step keeps the pooled client and the one being built acquainted    *)
(* with the tables, or somebody due to empty the pool.                      *)
LEMMA McpClientsKept ==
  ASSUME McpInv, [McpNext]_mcpVars
  PROVE  ClientsKnow'
<1> USE DEF McpInv, McpShape, clientPool, mcpTables
<1>1. CASE UNCHANGED mcpVars
  BY <1>1 DEF mcpVars, ClientsKnow, Known, Changed
<1>2. ASSUME NEW q \in McpOps, NEW pc, McpGoto(q, pc), clientOf' = clientOf \/ Leave(q, pc),
             mcpPc[q] \notin {"write", "refresh", "drop", "build"},
             \A p \in McpOps : p # q => toWrite'[p] = toWrite[p],
             UNCHANGED <<mcpTables, clientPool>>
      PROVE  ClientsKnow'
  <2>1. q \notin Changed
    BY <1>2 DEF Changed
  <2>2. \A p \in Changed : KindOf[p] # "cli" => p \in Changed'
    BY <1>2, <2>1, ChangedKept
  <2>3. building # None => clientOf'[building] = clientOf[building]
    BY <1>2 DEF OneBuilder, McpTypeOK, Leave
  <2> QED
    BY <1>2, <2>2, <2>3, ClientsKnowKept
<1>3. ASSUME NEW q \in McpOps, Start(q) PROVE ClientsKnow'
  <2>1. \E pc : McpGoto(q, pc)
    BY <1>3 DEF Start
  <2>2. \A p \in McpOps : p # q => toWrite'[p] = toWrite[p]
    BY <1>3 DEF Start, McpTypeOK
  <2> QED
    BY <1>2, <1>3, <2>1, <2>2 DEF Start
<1>4. ASSUME NEW q \in McpOps, Fetch(q) PROVE ClientsKnow'
  <2>1. CASE pooled = None
    BY <1>4, <2>1 DEF Fetch, ClientsKnow, ClientKnown, Using
  <2>2. CASE pooled # None
    <3>1. /\ building = None /\ building' = None /\ McpGoto(q, "wait")
          /\ UNCHANGED <<mcpTables, pooled, registry, toWrite>> /\ mcpPc[q] = "pool"
      BY <1>4, <2>2 DEF Fetch
    <3>2. \A p \in Changed : KindOf[p] # "cli" => p \in Changed'
      BY <1>4, <3>1, ChangedKept DEF Changed
    <3> QED
      BY <3>1, <3>2, ClientsKnowKept
  <2> QED
    BY <2>1, <2>2
<1>5. ASSUME NEW q \in McpOps, Build(q) PROVE ClientsKnow'
  <2>1. q = building /\ pooled = None
    BY <1>5, FreshClient DEF Build, OneBuilder
  <2>2. CASE Loadable
    <3> DEFINE c == CHOOSE c \in McpClients : c # pooled /\ \A p \in McpOps : clientOf[p] # c
    <3>1. c \in McpClients
      BY <1>5, NewClient DEF Build
    <3>2. /\ clientOf' = [clientOf EXCEPT ![q] = c]
          /\ registry' = [registry EXCEPT ![c] = [imports |-> imports, row |-> serverRow]]
          /\ UNCHANGED <<building, mcpTables, pooled>>
      BY <1>5, <2>2 DEF Build
    <3> HIDE DEF c
    <3>3. clientOf'[building'] = c /\ registry'[c] = [imports |-> imports', row |-> serverRow']
      BY <1>5, <2>1, <3>1, <3>2 DEF McpTypeOK
    <3> QED
      BY <2>1, <3>2, <3>3 DEF ClientsKnow, Known
  <2>3. CASE ~Loadable
    BY <1>5, <2>1, <2>3 DEF Build, ClientsKnow
  <2> QED
    BY <2>2, <2>3
<1>6. ASSUME NEW q \in McpOps, Insert(q) PROVE ClientsKnow'
  <2>1. q = building /\ Known(clientOf[q])
    BY <1>6, FreshClient DEF Insert, OneBuilder, ClientsKnow
  <2>2. pooled' = clientOf[q] /\ building' = None /\ UNCHANGED <<mcpTables, registry, toWrite>>
    BY <1>6 DEF Insert
  <2>3. \A p \in Changed : KindOf[p] # "cli" => p \in Changed'
    BY <1>6, <2>2, ChangedKept DEF Insert, Changed
  <2>4. \A c : Known(c) => Known(c)'
    BY <2>2, <2>3, KnownKept
  <2> QED
    BY <2>1, <2>2, <2>4 DEF ClientsKnow, Known
<1>7. ASSUME NEW q \in McpOps, EnterClient(q) PROVE ClientsKnow'
  <2>1. \E pc : McpGoto(q, pc) /\ (clientOf' = clientOf \/ Leave(q, pc))
    BY <1>7 DEF EnterClient, Leave
  <2> QED
    BY <1>2, <1>7, <2>1 DEF EnterClient
<1>8. ASSUME NEW q \in McpOps, OpenSession(q) PROVE ClientsKnow'
  <2>1. \E pc : McpGoto(q, pc) /\ (clientOf' = clientOf \/ Leave(q, pc))
    BY <1>8 DEF OpenSession, Leave
  <2> QED
    BY <1>2, <1>8, <2>1 DEF OpenSession
<1>9. ASSUME NEW q \in McpOps, Unsupported(q) PROVE ClientsKnow'
  <2>1. \E pc : McpGoto(q, pc) /\ (clientOf' = clientOf \/ Leave(q, pc))
    BY <1>9 DEF Unsupported, Leave
  <2>2. \A p \in McpOps : p # q => toWrite'[p] = toWrite[p]
    BY <1>9 DEF Unsupported, McpTypeOK
  <2> QED
    BY <1>2, <1>9, <2>1, <2>2 DEF Unsupported
<1>10. ASSUME NEW q \in McpOps, FirstAttempt(q) \/ SecondAttempt(q) PROVE ClientsKnow'
  <2>1. \E pc : McpGoto(q, pc) /\ (clientOf' = clientOf \/ Leave(q, pc))
    BY <1>10 DEF FirstAttempt, SecondAttempt, TakeAnswer, Leave
  <2>2. \A p \in McpOps : p # q => toWrite'[p] = toWrite[p]
    BY <1>10 DEF FirstAttempt, SecondAttempt, TakeAnswer, McpTypeOK
  <2> QED
    BY <1>2, <1>10, <2>1, <2>2 DEF FirstAttempt, SecondAttempt
<1>11. ASSUME NEW q \in McpOps, Reinitialise(q) PROVE ClientsKnow'
  BY <1>2, <1>11 DEF Reinitialise
<1>12. ASSUME NEW q \in McpOps, RegisterServer(q) PROVE ClientsKnow'
  <2>1. KindOf[q] # "cli" => q \in Changed'
    BY <1>12 DEF RegisterServer, McpGoto, McpTypeOK, Changed
  <2>2. KindOf[q] = "cli" => unannounced'
    BY <1>12 DEF RegisterServer
  <2> QED
    BY <2>1, <2>2 DEF ClientsKnow, Known
<1>13. ASSUME NEW q \in McpOps, WriteImports(q) PROVE ClientsKnow'
  <2>1. KindOf[q] # "cli" => q \in Changed'
    <3>1. CASE toWrite[q] = 1
      BY <1>13, <3>1 DEF WriteImports, McpGoto, McpTypeOK, Changed
    <3>2. CASE toWrite[q] # 1
      <4>1. toWrite[q] \in 2..3 /\ KindOf[q] # "import"
        BY <1>13, <3>2 DEF WriteImports, McpTypeOK, ImportsOnce
      <4>2. toWrite'[q] = toWrite[q] - 1 /\ mcpPc'[q] = "write"
        BY <1>13, <3>2 DEF WriteImports, McpTypeOK
      <4>3. toWrite'[q] \in 1..2
        BY <4>1, <4>2
      <4> QED
        BY <1>13, <4>1, <4>2, <4>3 DEF Changed
    <3> QED
      BY <3>1, <3>2
  <2>2. KindOf[q] = "cli" => unannounced'
    BY <1>13 DEF WriteImports
  <2> QED
    BY <2>1, <2>2 DEF ClientsKnow, Known
<1>14. ASSUME NEW q \in McpOps, RefreshCache(q) PROVE ClientsKnow'
  <2>1. \E pc : McpGoto(q, pc)
    BY <1>14 DEF RefreshCache
  <2>2. KindOf[q] # "cli" => q \in Changed'
    BY <1>14 DEF RefreshCache, McpGoto, McpTypeOK, Changed
  <2>3. \A p \in Changed : KindOf[p] # "cli" => p \in Changed'
    BY <1>14, <2>1, <2>2, ChangedKept DEF RefreshCache
  <2> QED
    BY <1>14, <2>3, ClientsKnowKept DEF RefreshCache
<1>15. ASSUME NEW q \in McpOps, ChangeFails(q) PROVE ClientsKnow'
  <2>1. CASE q \in Changed
    BY <1>15, <2>1 DEF ChangeFails, ClientsKnow, Known
  <2>2. CASE q \notin Changed
    <3>1. \A p \in Changed : KindOf[p] # "cli" => p \in Changed'
      BY <1>15, <2>2, ChangedKept DEF ChangeFails
    <3> QED
      BY <1>15, <2>2, <3>1, ClientsKnowKept DEF ChangeFails
  <2> QED
    BY <2>1, <2>2
<1>16. ASSUME NEW q \in McpOps, DropClient(q) PROVE ClientsKnow'
  BY <1>16 DEF DropClient, EmptyPool, ClientsKnow
<1> QED
  BY <1>1, <1>3, <1>4, <1>5, <1>6, <1>7, <1>8, <1>9, <1>10, <1>11, <1>12, <1>13, <1>14, <1>15,
     <1>16 DEF McpNext

-----------------------------------------------------------------------------
(* All of it holds in every state that can be reached.                      *)
THEOREM McpInvariant == McpSpec => []McpInv
<1>1. McpInit => McpInv
  BY McpInitShape
<1>2. McpInv /\ [McpNext]_mcpVars => McpInv'
  BY McpTypesKept, McpControlKept, McpPipesKept, McpClientsKept DEF McpInv, McpShape
<1> QED
  BY <1>1, <1>2, PTL DEF McpSpec

(* The types, for any operations.                                           *)
THEOREM McpTypes == McpSpec => []McpTypeOK
<1>1. McpInv => McpTypeOK
  BY DEF McpInv, McpShape
<1> QED
  BY <1>1, McpInvariant, PTL

(* A call takes the answer of its own request from the pipe and never that  *)
(* of another one, unless a read was given up and the child stayed (such an *)
(* answer counts as stale, not as other).                                   *)
THEOREM AnswersAreOwn == McpSpec => []OwnAnswer
<1>1. McpInv => OwnAnswer
  BY DEF McpInv
<1> QED
  BY <1>1, McpInvariant, PTL

(* The client in the pool knows the imports and the servers the tables      *)
(* hold, unless a change is yet to empty the pool, or one ended without.    *)
THEOREM PooledClientCurrent == McpSpec => []PooledIsCurrent
<1>1. McpInv => PooledIsCurrent
  BY DEF McpInv, ClientsKnow, Known, PooledIsCurrent
<1> QED
  BY <1>1, McpInvariant, PTL
=============================================================================
