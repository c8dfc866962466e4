--------------------------- MODULE ResourceLease ---------------------------
(***************************************************************************)
(* Resource leases of the runtime store and the calls that hold them: the   *)
(* lease a tool call takes on the resource it touches, and the shared quota *)
(* slots a request takes before its agent runs (one slot of the channel's   *)
(* scope, then one of the agent class's, then one of the user's).  Callers  *)
(* run in several server processes over one SQLite file.  A lease expires,  *)
(* nobody renews it, and the claim a caller holds releases its row on Drop. *)
(***************************************************************************)
EXTENDS Integers, Sequences

CONSTANTS
  Callers,      (* tool calls or requests, each in one server process       *)
  Keys,         (* resource keys: "fs:<path>", "quota:<scope>:slot:<n>" ... *)
  Holders,      (* holder_id strings                                        *)
  Instances,    (* server processes (runtime_instance_id)                   *)
  Mortal,       (* the processes that may crash                             *)
  HolderOf,     (* the holder_id a caller presents                          *)
  InstanceOf,   (* the process a caller runs in                             *)
  NumStages,    (* how many leases a caller takes at most                   *)
  LastStage,    (* how many the caller takes, one after the other           *)
  SlotsOf,      (* the keys a caller tries in each stage, in order          *)
  Attempts,     (* tries per key before the next one (retry_attempts):      *)
                (* 3 for a tool call, 1 for a quota slot                    *)
  Ttl,          (* lease time to live, in ticks of the clock                *)
  MaxTime,      (* bound: the clock stops there                             *)
  MaxFaults,    (* bound: store calls that return an error                  *)
  None          (* no row, no claim                                         *)

Stages == 1..NumStages
Time == 0..MaxTime

ASSUME ProcessAssumption ==
  /\ Mortal \subseteq Instances
  /\ HolderOf \in [Callers -> Holders]
  /\ InstanceOf \in [Callers -> Instances]

ASSUME StageAssumption ==
  NumStages \in Nat \ {0} /\ LastStage \in [Callers -> Stages]

ASSUME SlotAssumption ==
  /\ SlotsOf \in [Callers -> [Stages -> Seq(Keys)]]
  /\ \A c \in Callers : \A s \in Stages : Len(SlotsOf[c][s]) > 0

ASSUME RetryAssumption == Attempts \in [Callers -> Nat \ {0}]

ASSUME TimeAssumption == Ttl \in Nat \ {0} /\ MaxTime \in Nat /\ MaxFaults \in Nat

(* The keys of two stages of one caller never meet: the scope is part of    *)
(* the key ("quota:channel:...", "quota:agent-class:...", "quota:user:...").*)
ASSUME StagesDisjoint ==
  \A c \in Callers : \A s, t \in 1..LastStage[c] :
    \A i \in 1..Len(SlotsOf[c][s]) : \A j \in 1..Len(SlotsOf[c][t]) :
      SlotsOf[c][s][i] = SlotsOf[c][t][j] => s = t

(* No two concurrent callers share a holder id.  It is so for requests,     *)
(* whose holder id carries a fresh request id, and for tool calls that have *)
(* an invocation id.                                                        *)
DistinctHolders == \A c, d \in Callers : HolderOf[c] = HolderOf[d] => c = d

Row == [holder : Holders, token : Nat \ {0}, until : Nat]
Claim == [key : Keys, token : Nat \ {0}, until : Nat]

ASSUME NoneAssumption == None \notin Row \cup Claim

VARIABLES
  clock,    (* Utc::now(), shared by every process                          *)
  lease,    (* the resource_leases table                                    *)
  pc,       (* where each caller is                                         *)
  stage,    (* the stage it acquires, or the next claim it drops            *)
  slot,     (* the key it tries, an index of SlotsOf                        *)
  attempt,  (* the loop counter of the retry                                *)
  now,      (* now_us, read before the transaction; 0 out of its scope      *)
  claims,   (* the ResourceLeaseClaim of each stage; until is auxiliary     *)
  faults    (* how many store errors happened so far                        *)

vars == <<clock, lease, pc, stage, slot, attempt, now, claims, faults>>
storeVars == <<lease, faults>>

Pcs == {"idle", "stamp", "try", "sleep", "hold", "release", "dead"}

(* Types of the variables that say where the callers are, and of the clock, *)
(* the store and what the callers carry.                                    *)
ControlOK ==
  /\ pc \in [Callers -> Pcs]
  /\ stage \in [Callers -> Stages]
  /\ slot \in [Callers -> Nat \ {0}]
  /\ \A c \in Callers : slot[c] <= Len(SlotsOf[c][stage[c]])
  /\ attempt \in [Callers -> Nat]
  /\ \A c \in Callers : attempt[c] < Attempts[c]

DataOK ==
  /\ clock \in Time
  /\ lease \in [Keys -> Row \cup {None}]
  /\ now \in [Callers -> Time]
  /\ claims \in [Callers -> [Stages -> Claim \cup {None}]]
  /\ faults \in 0..MaxFaults

TypeOK == ControlOK /\ DataOK

Init ==
  /\ clock = 0
  /\ lease = [k \in Keys |-> None]
  /\ pc = [c \in Callers |-> "idle"]
  /\ stage = [c \in Callers |-> 1]
  /\ slot = [c \in Callers |-> 1]
  /\ attempt = [c \in Callers |-> 0]
  /\ now = [c \in Callers |-> 0]
  /\ claims = [c \in Callers |-> [s \in Stages |-> None]]
  /\ faults = 0

-----------------------------------------------------------------------------
(* try_acquire_resource_lease: one transaction on the row of the key.       *)

Target(c) == SlotsOf[c][stage[c]][slot[c]]

(* Mutant: the lease may be taken over one tick before it ends.             *)
CanAcquireEarly(row, holder, t) ==
  row # None => row.holder = holder \/ row.until - 1 <= t

CanAcquire(row, holder, t) ==
  row # None => row.holder = holder \/ row.until <= t

NextToken(row) == IF row = None THEN 1 ELSE row.token + 1

(* Mutant: DELETE ... WHERE only the key matches.                           *)
ReleaseAnyMatches(row, holder, token) == row # None

(* release_resource_lease: DELETE ... WHERE key, holder and token match.    *)
ReleaseMatches(row, holder, token) ==
  row # None /\ row.holder = holder /\ row.token = token

-----------------------------------------------------------------------------
(* The retry loop and the loop over the quota slots.                        *)

(* Go on to acquire stage s, from its first key.                            *)
EnterStage(c, s) ==
  /\ pc' = [pc EXCEPT ![c] = "stamp"]
  /\ stage' = [stage EXCEPT ![c] = s]
  /\ slot' = [slot EXCEPT ![c] = 1]
  /\ attempt' = [attempt EXCEPT ![c] = 0]

(* Drop the claims of stages s, s - 1, ..., 1.                              *)
Unwind(c, s) ==
  /\ pc' = [pc EXCEPT ![c] = IF s = 0 THEN "idle" ELSE "release"]
  /\ stage' = [stage EXCEPT ![c] = IF s = 0 THEN 1 ELSE s]
  /\ slot' = [slot EXCEPT ![c] = 1]
  /\ attempt' = [attempt EXCEPT ![c] = 0]

(* Mutant: the error returns with the claims of the earlier stages kept.    *)
GiveUpKeyLeaking(c) ==
  IF slot[c] < Len(SlotsOf[c][stage[c]])
  THEN /\ slot' = [slot EXCEPT ![c] = @ + 1]
       /\ attempt' = [attempt EXCEPT ![c] = 0]
       /\ pc' = [pc EXCEPT ![c] = "stamp"]
       /\ UNCHANGED stage
  ELSE Unwind(c, 0)

(* Mutant: a scope with no free slot starts again with its first slot.      *)
GiveUpKeyAgain(c) ==
  /\ slot' = [slot EXCEPT ![c] = (@ % Len(SlotsOf[c][stage[c]])) + 1]
  /\ attempt' = [attempt EXCEPT ![c] = 0]
  /\ pc' = [pc EXCEPT ![c] = "stamp"]
  /\ UNCHANGED stage

(* The key is given up: the next slot of the scope, or the error returns.   *)
GiveUpKey(c) ==
  IF slot[c] < Len(SlotsOf[c][stage[c]])
  THEN /\ slot' = [slot EXCEPT ![c] = @ + 1]
       /\ attempt' = [attempt EXCEPT ![c] = 0]
       /\ pc' = [pc EXCEPT ![c] = "stamp"]
       /\ UNCHANGED stage
  ELSE Unwind(c, stage[c] - 1)

Begin(c) ==
  /\ pc[c] = "idle"
  /\ EnterStage(c, 1)
  /\ UNCHANGED <<clock, storeVars, now, claims>>

(* now_us is read, then the connection and the write lock are waited for.   *)
Stamp(c) ==
  /\ pc[c] = "stamp"
  /\ now' = [now EXCEPT ![c] = clock]
  /\ pc' = [pc EXCEPT ![c] = "try"]
  /\ UNCHANGED <<clock, storeVars, stage, slot, attempt, claims>>

Acquire(c) ==
  LET k == Target(c)
      token == NextToken(lease[k])
      until == now[c] + Ttl
  IN
  /\ pc[c] = "try"
  /\ CanAcquire(lease[k], HolderOf[c], now[c])
  /\ lease' = [lease EXCEPT ![k] =
                 [holder |-> HolderOf[c], token |-> token, until |-> until]]
  /\ claims' = [claims EXCEPT ![c][stage[c]] =
                 [key |-> k, token |-> token, until |-> until]]
  /\ IF stage[c] < LastStage[c]
     THEN EnterStage(c, stage[c] + 1)
     ELSE /\ pc' = [pc EXCEPT ![c] = "hold"]
          /\ UNCHANGED <<stage, slot, attempt>>
  /\ now' = [now EXCEPT ![c] = 0]
  /\ UNCHANGED <<clock, faults>>

Refused(c) ==
  /\ pc[c] = "try"
  /\ ~ CanAcquire(lease[Target(c)], HolderOf[c], now[c])
  /\ IF attempt[c] + 1 < Attempts[c]
     THEN /\ attempt' = [attempt EXCEPT ![c] = @ + 1]
          /\ pc' = [pc EXCEPT ![c] = "sleep"]
          /\ UNCHANGED <<stage, slot>>
     ELSE GiveUpKey(c)
  /\ now' = [now EXCEPT ![c] = 0]
  /\ UNCHANGED <<clock, storeVars, claims>>

(* The transaction fails (SQLITE_BUSY when another writer committed after   *)
(* its read): the retry loop does not try the key again.                    *)
AcquireError(c) ==
  /\ pc[c] = "try"
  /\ faults < MaxFaults
  /\ faults' = faults + 1
  /\ GiveUpKey(c)
  /\ now' = [now EXCEPT ![c] = 0]
  /\ UNCHANGED <<clock, lease, claims>>

Wake(c) ==
  /\ pc[c] = "sleep"
  /\ pc' = [pc EXCEPT ![c] = "stamp"]
  /\ UNCHANGED <<clock, storeVars, stage, slot, attempt, now, claims>>

(* The future is dropped at the await of the sleep: a steering command ends *)
(* the tool executions.                                                     *)
Cancel(c) ==
  /\ pc[c] = "sleep"
  /\ Unwind(c, stage[c] - 1)
  /\ UNCHANGED <<clock, storeVars, now, claims>>

(* The body returns, or is cancelled; the claims drop in reverse order.     *)
Finish(c) ==
  /\ pc[c] = "hold"
  /\ Unwind(c, LastStage[c])
  /\ UNCHANGED <<clock, storeVars, now, claims>>

DropClaim(c) ==
  /\ claims' = [claims EXCEPT ![c][stage[c]] = None]
  /\ Unwind(c, stage[c] - 1)

Release(c) ==
  LET claim == claims[c][stage[c]] IN
  /\ pc[c] = "release"
  /\ lease' = [lease EXCEPT ![claim.key] =
                 IF ReleaseMatches(@, HolderOf[c], claim.token) THEN None ELSE @]
  /\ DropClaim(c)
  /\ UNCHANGED <<clock, now, faults>>

(* Drop ignores the error of the DELETE: the row stays until it expires.    *)
ReleaseError(c) ==
  /\ pc[c] = "release"
  /\ faults < MaxFaults
  /\ faults' = faults + 1
  /\ DropClaim(c)
  /\ UNCHANGED <<clock, lease, now>>

-----------------------------------------------------------------------------
(* A server process dies: its callers stop where they are, without Drop.    *)
(* The process that replaces it has a new runtime_instance_id, so it is     *)
(* another element of Instances.                                            *)
Crash(i) ==
  LET gone == {c \in Callers : InstanceOf[c] = i} IN
  /\ \E c \in gone : pc[c] # "dead"
  /\ pc' = [c \in Callers |-> IF c \in gone THEN "dead" ELSE pc[c]]
  /\ claims' = [c \in Callers |->
                  IF c \in gone THEN [s \in Stages |-> None] ELSE claims[c]]
  /\ stage' = [c \in Callers |-> IF c \in gone THEN 1 ELSE stage[c]]
  /\ slot' = [c \in Callers |-> IF c \in gone THEN 1 ELSE slot[c]]
  /\ attempt' = [c \in Callers |-> IF c \in gone THEN 0 ELSE attempt[c]]
  /\ now' = [c \in Callers |-> IF c \in gone THEN 0 ELSE now[c]]
  /\ UNCHANGED <<clock, storeVars>>

Tick ==
  /\ clock < MaxTime
  /\ clock' = clock + 1
  /\ UNCHANGED <<storeVars, pc, stage, slot, attempt, now, claims>>

CallerStep(c) ==
  \/ Begin(c)
  \/ Stamp(c)
  \/ Acquire(c)
  \/ Refused(c)
  \/ AcquireError(c)
  \/ Wake(c)
  \/ Cancel(c)
  \/ Finish(c)
  \/ Release(c)
  \/ ReleaseError(c)

Next ==
  \/ \E c \in Callers : CallerStep(c)
  \/ \E i \in Mortal : Crash(i)
  \/ Tick

Spec == Init /\ [][Next]_vars

(* Every call the runtime schedules goes on; no caller has to begin, and no *)
(* process has to crash.                                                    *)
Progress(c) ==
  \/ Stamp(c)
  \/ Acquire(c)
  \/ Refused(c)
  \/ Wake(c)
  \/ Finish(c)
  \/ Release(c)

FairSpec == Spec /\ \A c \in Callers : WF_vars(Progress(c))

-----------------------------------------------------------------------------
(* Properties.                                                              *)

(* Caller c believes it owns key k: it has a claim that has not expired.    *)
Live(c, k) ==
  \E s \in Stages : claims[c][s] # None /\ claims[c][s].key = k
                    /\ claims[c][s].until > clock

(* Two callers never both believe they own a resource, or a quota slot: at  *)
(* most as many requests pass a scope as it has slots.  It must survive the *)
(* time that passes between the read of now_us and the transaction, crashes *)
(* without Drop, and releases that come after another caller took over.     *)
MutualExclusion ==
  \A c, d \in Callers : \A k \in Keys : Live(c, k) /\ Live(d, k) => c = d

(* Why: the row of a live claim is the one its acquisition wrote.           *)
LiveClaimOwnsRow ==
  \A c \in Callers : \A s \in Stages :
    LET claim == claims[c][s] IN
    claim # None /\ claim.until > clock =>
      lease[claim.key] =
        [holder |-> HolderOf[c], token |-> claim.token, until |-> claim.until]

(* A request that fails at a later scope, and a call that ends, leave no    *)
(* lease behind that would keep the resource busy until it expires, unless  *)
(* the store failed.                                                        *)
NoLeakedLease ==
  \A c \in Callers : \A k \in Keys :
    /\ faults = 0
    /\ pc[c] = "idle"
    /\ lease[k] # None
    /\ lease[k].holder = HolderOf[c]
    => lease[k].until <= clock

(* Only a step of the caller that wrote an unexpired row replaces or        *)
(* deletes it: a late Drop and a retry of anyone else pass it by.           *)
LiveRowUntouched ==
  [][\A k \in Keys :
       lease[k] # None /\ lease[k].until > clock /\ lease'[k] # lease[k] =>
         \E c \in Callers : HolderOf[c] = lease[k].holder /\ CallerStep(c)]_vars

(* A caller that asks for leases gets them all or is turned away, in the    *)
(* end: whoever holds leases never waits for another caller, so requests    *)
(* that need the same scopes cannot wait for each other for ever.           *)
CallReturns ==
  \A c \in Callers :
    pc[c] \in {"stamp", "try", "sleep"} ~> pc[c] \in {"hold", "idle", "dead"}
=============================================================================
