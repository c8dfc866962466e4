----------------------------- MODULE ToolCalls -----------------------------
(***************************************************************************)
(* The way of a tool call through the executors: the checks and the policy  *)
(* decision of PolicyCheckedExecutor, the lock of the workspace, the choice *)
(* of the executor, the resource lease, the cache of results for repeated   *)
(* idempotency keys, the effect, the scan of the result, and the guards     *)
(* that are dropped on every way out.  The request of a call may be given   *)
(* up (the timeout of an agent run drops its future) wherever it awaits.    *)
(* What a call returns, a result or an error, is left out.                  *)
(***************************************************************************)
EXTENDS Absence, Naturals, Sequences, SequencesExt, FiniteSets

CONSTANTS
  Calls,
  ToolOf,        (* "file" (write_file), "shell" (run_shell), "approved": a  *)
                 (* run_shell that an answered approval executes, past the   *)
                 (* policy and the lock; or "other": a tool of another       *)
                 (* executor, without lock, lease and key                    *)
  Workspaces,
  WorkspaceOf,   (* resolve_workspace_lock_key of the call's agent           *)
  Resources,
  ResourceOf,    (* resource_lease_key_for_call                              *)
  IdemKeys,
  KeyOf,         (* its scoped idempotency key, or None                      *)
  MaxInFlight,   (* bound: calls on their way at once                        *)
  MaxGiveUps,    (* bound: requests given up                                 *)
  MaxForgets     (* bound: stored results of a key that are forgotten        *)

ASSUME CallAssumption ==
  /\ ToolOf \in [Calls -> {"file", "shell", "approved", "other"}]
  /\ WorkspaceOf \in [Calls -> Workspaces]
  /\ ResourceOf \in [Calls -> Resources]
  /\ KeyOf \in [Calls -> IdemKeys \cup {None}]
  /\ None \notin Calls \cup IdemKeys
  /\ MaxInFlight \in Nat /\ MaxGiveUps \in Nat /\ MaxForgets \in Nat

(* tool_requires_workspace_lock, of a call that PolicyCheckedExecutor sees. *)
Locks(c) == ToolOf[c] \in {"file", "shell"}
Shell(c) == ToolOf[c] \in {"shell", "approved"}

VARIABLES
  at,            (* where the call is                                        *)
  queue,         (* the waiters of each lock's semaphore, first come first   *)
  permit,        (* who owns its only permit                                 *)
  waitingRuns,   (* the counters of the lock, read by snapshot               *)
  activeHolders,
  currentHolder,
  callLease,     (* resource_leases: who holds the row                       *)
  results,       (* the idempotency keys whose result the cache has          *)
  shells,        (* calls whose operating system process runs                *)
  effects,       (* auxiliary: how often a key took effect                   *)
  broken,        (* auxiliary: keys with an effect whose result was not kept *)
  forgotten,     (* auxiliary: how often the result of a key was forgotten   *)
  giveUps

callVars == <<at, queue, permit, waitingRuns, activeHolders, currentHolder, callLease,
              results, shells, effects, broken, forgotten, giveUps>>
lockVars == <<queue, permit, waitingRuns, activeHolders, currentHolder>>
effectVars == <<results, shells, effects, broken, forgotten>>

(* Behind the lock: the call has it and works.  Leaving: it drops its guard.*)
Behind == {"lease", "lookup", "effect", "wait", "scan"}
Leaving == {"uncount", "clear", "release"}
Ats == {"idle", "check", "enter", "queued", "granted", "name"} \cup Behind \cup Leaving
         \cup {"done"}

CallTypeOK ==
  /\ at \in [Calls -> Ats]
  /\ queue \in [Workspaces -> Seq(Calls)]
  /\ permit \in [Workspaces -> Calls \cup {None}]
  /\ waitingRuns \in [Workspaces -> Nat]
  /\ activeHolders \in [Workspaces -> Nat]
  /\ currentHolder \in [Workspaces -> Calls \cup {None}]
  /\ callLease \in [Resources -> Calls \cup {None}]
  /\ results \subseteq IdemKeys
  /\ shells \subseteq Calls
  /\ effects \in [IdemKeys -> Nat]
  /\ broken \subseteq IdemKeys
  /\ forgotten \in [IdemKeys -> 0..MaxForgets]
  /\ giveUps \in 0..MaxGiveUps

CallInit ==
  /\ at = [c \in Calls |-> "idle"]
  /\ queue = [w \in Workspaces |-> <<>>]
  /\ permit = [w \in Workspaces |-> None]
  /\ waitingRuns = [w \in Workspaces |-> 0]
  /\ activeHolders = [w \in Workspaces |-> 0]
  /\ currentHolder = [w \in Workspaces |-> None]
  /\ callLease = [r \in Resources |-> None]
  /\ results = {}
  /\ shells = {}
  /\ effects = [k \in IdemKeys |-> 0]
  /\ broken = {}
  /\ forgotten = [k \in IdemKeys |-> 0]
  /\ giveUps = 0

-----------------------------------------------------------------------------
Move(c, from, to) == at[c] = from /\ at' = [at EXCEPT ![c] = to]
Home(c) == IF Locks(c) THEN "uncount" ELSE "done"

(* The answer of an approval goes straight to the executors.                *)
Arrive(c) ==
  /\ Cardinality({d \in Calls : at[d] \notin {"idle", "done"}}) < MaxInFlight
  /\ Move(c, "idle", IF ToolOf[c] = "approved" THEN "lease" ELSE "check")
  /\ UNCHANGED <<lockVars, callLease, effectVars, giveUps>>

(* The capability profile, the validate_ functions and the policy: each may *)
(* return an error, and so does a decision to ask the user.                 *)
CheckDenied(c) ==
  /\ Move(c, "check", "done")
  /\ UNCHANGED <<lockVars, callLease, effectVars, giveUps>>

CheckAllowed(c) ==
  /\ Move(c, "check", IF Locks(c) THEN "enter" ELSE "effect")
  /\ UNCHANGED <<lockVars, callLease, effectVars, giveUps>>

-----------------------------------------------------------------------------
(* WorkspaceLockManager::acquire.                                           *)

Enter(c) ==
  LET w == WorkspaceOf[c] IN
  /\ waitingRuns' = [waitingRuns EXCEPT ![w] = @ + 1]
  /\ IF permit[w] = None
     THEN /\ Move(c, "enter", "granted")
          /\ permit' = [permit EXCEPT ![w] = c]
          /\ UNCHANGED queue
     ELSE /\ Move(c, "enter", "queued")
          /\ queue' = [queue EXCEPT ![w] = Append(@, c)]
          /\ UNCHANGED permit
  /\ UNCHANGED <<activeHolders, currentHolder, callLease, effectVars, giveUps>>

(* A waiter leaves the semaphore's queue, wherever it stands there.         *)
LeaveQueue(c) ==
  \E i \in 1..Len(queue[WorkspaceOf[c]]) :
    /\ queue[WorkspaceOf[c]][i] = c
    /\ queue' = [queue EXCEPT ![WorkspaceOf[c]] = RemoveAt(@, i)]

LockTimeout(c) ==
  /\ Move(c, "queued", "done")
  /\ LeaveQueue(c)
  /\ waitingRuns' = [waitingRuns EXCEPT ![WorkspaceOf[c]] = @ - 1]
  /\ UNCHANGED <<permit, activeHolders, currentHolder, callLease, effectVars, giveUps>>

Count(c) ==
  LET w == WorkspaceOf[c] IN
  /\ Move(c, "granted", "name")
  /\ waitingRuns' = [waitingRuns EXCEPT ![w] = @ - 1]
  /\ activeHolders' = [activeHolders EXCEPT ![w] = @ + 1]
  /\ UNCHANGED <<queue, permit, currentHolder, callLease, effectVars, giveUps>>

Name(c) ==
  /\ Move(c, "name", "lease")
  /\ currentHolder' = [currentHolder EXCEPT ![WorkspaceOf[c]] = c]
  /\ UNCHANGED <<queue, permit, waitingRuns, activeHolders, callLease, effectVars,
                 giveUps>>

(* Mutant: the permit is free again, and the first waiter is not woken.     *)
PassOnAsleep(c, goes) ==
  /\ permit' = [permit EXCEPT ![WorkspaceOf[c]] = None]
  /\ at' = [at EXCEPT ![c] = goes]
  /\ UNCHANGED queue

(* The permit goes to the waiter that came first.  goes is where the one    *)
(* that gives it up goes.                                                   *)
PassOn(c, goes) ==
  LET w == WorkspaceOf[c] IN
  IF queue[w] = <<>>
  THEN /\ permit' = [permit EXCEPT ![w] = None]
       /\ at' = [at EXCEPT ![c] = goes]
       /\ UNCHANGED queue
  ELSE /\ permit' = [permit EXCEPT ![w] = Head(queue[w])]
       /\ queue' = [queue EXCEPT ![w] = Tail(@)]
       /\ at' = [at EXCEPT ![c] = goes, ![Head(queue[w])] = "granted"]

(* Mutant: the guard's permit is dropped before the holder is cleared.      *)
DropOrderEarly == [uncount |-> "release", release |-> "clear", clear |-> "done"]

(* Drop of the guard: its body counts the holder out and clears its name,   *)
(* then the field with the permit is dropped.                               *)
DropOrder == [uncount |-> "clear", clear |-> "release", release |-> "done"]

DropGuard(c) ==
  LET w == WorkspaceOf[c] IN
  /\ at[c] \in Leaving
  /\ \/ /\ Move(c, "uncount", DropOrder["uncount"])
        /\ activeHolders' = [activeHolders EXCEPT ![w] = @ - 1]
        /\ UNCHANGED <<queue, permit, currentHolder>>
     \/ /\ Move(c, "clear", DropOrder["clear"])
        /\ currentHolder' = [currentHolder EXCEPT ![w] = None]
        /\ UNCHANGED <<queue, permit, activeHolders>>
     \/ /\ at[c] = "release"
        /\ PassOn(c, DropOrder["release"])
        /\ UNCHANGED <<activeHolders, currentHolder>>
  /\ UNCHANGED <<waitingRuns, callLease, effectVars, giveUps>>

-----------------------------------------------------------------------------
(* NativeToolExecutor: acquire_call_lease, and the lease that may expire.   *)

TakeLease(c) ==
  /\ callLease[ResourceOf[c]] = None
  /\ Move(c, "lease", "lookup")
  /\ callLease' = [callLease EXCEPT ![ResourceOf[c]] = c]
  /\ UNCHANGED <<lockVars, effectVars, giveUps>>

LeaseBusy(c) ==
  /\ callLease[ResourceOf[c]] # None
  /\ Move(c, "lease", Home(c))
  /\ UNCHANGED <<lockVars, callLease, effectVars, giveUps>>

LeaseExpires(r) ==
  /\ callLease[r] # None
  /\ callLease' = [callLease EXCEPT ![r] = None]
  /\ UNCHANGED <<at, lockVars, effectVars, giveUps>>

(* Drop of the claim deletes the row if it is still the caller's.           *)
LeaseDropped(c) ==
  callLease' = [r \in Resources |-> IF callLease[r] = c THEN None ELSE callLease[r]]

-----------------------------------------------------------------------------
(* Mutant: the stored result is not looked for.                             *)
CachedNever(c) == FALSE

(* idempotency_lookup: the cache may have forgotten the result.             *)
Cached(c) == KeyOf[c] # None /\ KeyOf[c] \in results

Lookup(c) ==
  /\ at[c] = "lookup"
  /\ IF Cached(c)
     THEN /\ Move(c, "lookup", "scan")
          /\ LeaseDropped(c)
     ELSE /\ Move(c, "lookup", "effect")
          /\ UNCHANGED callLease
  /\ UNCHANGED <<lockVars, effectVars, giveUps>>

KeySet(c) == IF KeyOf[c] = None THEN {} ELSE {KeyOf[c]}

TakesEffect(c) ==
  effects' = [k \in IdemKeys |-> IF k = KeyOf[c] THEN effects[k] + 1 ELSE effects[k]]

(* write_file: the write and the result that is kept, with no await between.*)
WriteFile(c) ==
  /\ ToolOf[c] = "file"
  /\ Move(c, "effect", "scan")
  /\ TakesEffect(c)
  /\ \/ /\ results' = results \cup KeySet(c)
        /\ UNCHANGED broken
     \/ /\ broken' = broken \cup KeySet(c)
        /\ UNCHANGED results
  /\ LeaseDropped(c)
  /\ UNCHANGED <<lockVars, shells, forgotten, giveUps>>

(* run_shell before the process is there: a backend is chosen and the       *)
(* command built, or an error returned (and audited).                       *)
ShellFails(c) ==
  /\ Shell(c)
  /\ Move(c, "effect", "scan")
  /\ LeaseDropped(c)
  /\ UNCHANGED <<lockVars, effectVars, giveUps>>

ShellStarts(c) ==
  /\ Shell(c)
  /\ Move(c, "effect", "wait")
  /\ shells' = shells \cup {c}
  /\ TakesEffect(c)
  /\ UNCHANGED <<lockVars, callLease, results, broken, forgotten, giveUps>>

(* The process ended while the call waited for it.                          *)
ShellReturns(c) ==
  /\ Move(c, "wait", "scan")
  /\ c \in shells
  /\ shells' = shells \ {c}
  /\ results' = results \cup KeySet(c)
  /\ LeaseDropped(c)
  /\ UNCHANGED <<lockVars, effects, broken, forgotten, giveUps>>

(* timeout_seconds are over: the call returns, the process is not killed.   *)
ShellTimeout(c) ==
  /\ Move(c, "wait", "scan")
  /\ broken' = broken \cup KeySet(c)
  /\ LeaseDropped(c)
  /\ UNCHANGED <<lockVars, shells, results, effects, forgotten, giveUps>>

(* A process nobody waits for any more ends by itself.                      *)
OrphanEnds(c) ==
  /\ c \in shells /\ at[c] # "wait"
  /\ shells' = shells \ {c}
  /\ UNCHANGED <<at, lockVars, callLease, results, effects, broken, forgotten, giveUps>>

(* The cache has room for a number of results and keeps each for a time: it *)
(* may drop one whenever it likes.                                          *)
ResultForgotten(k) ==
  /\ k \in results /\ forgotten[k] < MaxForgets
  /\ results' = results \ {k}
  /\ forgotten' = [forgotten EXCEPT ![k] = @ + 1]
  /\ UNCHANGED <<at, lockVars, callLease, shells, effects, broken, giveUps>>

(* The executors of external, remote and WASM tools.                        *)
OtherEffect(c) ==
  /\ ToolOf[c] = "other"
  /\ Move(c, "effect", "scan")
  /\ UNCHANGED <<lockVars, callLease, effectVars, giveUps>>

(* scan_web_tool_result may turn a result into an error after its effect;   *)
(* an error is returned as it is.                                           *)
Scan(c) ==
  /\ Move(c, "scan", Home(c))
  /\ UNCHANGED <<lockVars, callLease, effectVars, giveUps>>

-----------------------------------------------------------------------------
(* The future of the request is dropped: a waiter leaves the semaphore's    *)
(* queue but stays in the count, a permit granted but not yet noticed is    *)
(* passed on, and behind the lock all guards are dropped.  A process that   *)
(* runs is left alone.                                                      *)
GiveUpCall(c) ==
  /\ giveUps < MaxGiveUps
  /\ giveUps' = giveUps + 1
  /\ \/ /\ Move(c, "queued", "done")
        /\ LeaveQueue(c)
        /\ UNCHANGED <<permit, callLease, broken>>
     \/ /\ at[c] = "granted"
        /\ PassOn(c, "done")
        /\ UNCHANGED <<callLease, broken>>
     \/ /\ Move(c, "lease", Home(c))
        /\ UNCHANGED <<queue, permit, callLease, broken>>
     \/ /\ Move(c, "wait", Home(c))
        /\ broken' = broken \cup KeySet(c)
        /\ LeaseDropped(c)
        /\ UNCHANGED <<queue, permit>>
  /\ UNCHANGED <<waitingRuns, activeHolders, currentHolder, results, shells, effects,
                 forgotten>>

CallStep(c) ==
  \/ CheckDenied(c) \/ CheckAllowed(c)
  \/ Enter(c) \/ LockTimeout(c) \/ Count(c) \/ Name(c) \/ DropGuard(c)
  \/ TakeLease(c) \/ LeaseBusy(c) \/ Lookup(c)
  \/ WriteFile(c) \/ ShellFails(c) \/ ShellStarts(c) \/ ShellReturns(c) \/ ShellTimeout(c)
  \/ OtherEffect(c) \/ Scan(c)

CallNext ==
  \/ \E c \in Calls : Arrive(c) \/ CallStep(c) \/ OrphanEnds(c) \/ GiveUpCall(c)
  \/ \E r \in Resources : LeaseExpires(r)
  \/ \E k \in IdemKeys : ResultForgotten(k)

CallSpec == CallInit /\ [][CallNext]_callVars

-----------------------------------------------------------------------------
(* What snapshot says of a lock is so: while a call works behind the lock   *)
(* it is the one that is named and counted, and nobody else is behind it;   *)
(* and the waiting runs are those that wait, as long as no waiter was       *)
(* dropped.  Timeouts, dropped requests and a guard that is dropped in      *)
(* three steps change the counters and the permit at different moments.     *)
LockListAgrees ==
  /\ \A c \in Calls :
       Locks(c) /\ at[c] \in Behind =>
         /\ currentHolder[WorkspaceOf[c]] = c
         /\ activeHolders[WorkspaceOf[c]] = 1
         /\ \A d \in Calls \ {c} :
              Locks(d) /\ at[d] \in Behind => WorkspaceOf[d] # WorkspaceOf[c]
  /\ giveUps = 0 =>
       \A w \in Workspaces :
         waitingRuns[w] =
           Cardinality({c \in Calls : WorkspaceOf[c] = w /\ at[c] \in {"queued", "granted"}})

(* What a call has taken it gives back on every way out, a timeout, a busy  *)
(* lease or a dropped request included: nobody waits for a permit that is   *)
(* free, no permit is with a call that is not at the lock any more, and no  *)
(* lease is with one that is past its effect.                               *)
GuardsReturned ==
  /\ \A w \in Workspaces : queue[w] # <<>> => permit[w] # None
  /\ \A w \in Workspaces : permit[w] # None =>
       at[permit[w]] \in {"granted", "name"} \cup Behind \cup Leaving
  /\ \A r \in Resources : callLease[r] # None =>
       at[callLease[r]] \in {"lookup", "effect", "wait"} /\ ResourceOf[callLease[r]] = r

(* Two calls of one workspace with the same idempotency key have one effect *)
(* between them, unless the first failed, timed out or was given up after   *)
(* it had begun: the lookup and the store are far apart, and it is the lock *)
(* that keeps a second call from looking in between.  A key has a further   *)
(* effect only for each time that its result, once kept, was forgotten.     *)
EffectOnce == \A k \in IdemKeys : k \notin broken => effects[k] <= 1 + forgotten[k]
=============================================================================
