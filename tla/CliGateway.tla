----------------------------- MODULE CliGateway -----------------------------
(***************************************************************************)
(* The foreground of the process: the loop that reads the console and puts  *)
(* the requests in lanes, one lane for all requests of a session, the       *)
(* workers of the lanes, the supervisors that start the other adapters      *)
(* again, and the end: the flag and the notification of the                 *)
(* ShutdownCoordinator, the lanes that are drained, the adapters that are   *)
(* waited for.  Commands are answered in the loop itself and touch nothing  *)
(* here.  The console of one process has one session; the lanes serve any   *)
(* number.                                                                  *)
(***************************************************************************)
EXTENDS Absence, Naturals, FiniteSets, Sequences, SequencesExt

CONSTANTS
  Sessions,
  Lanes,         (* CLI_INGRESS_PARTITIONS: 4                                 *)
  LaneOfKey,     (* the hash of a session, modulo the number of lanes         *)
  LaneCap,       (* CLI_INGRESS_QUEUE_CAPACITY: 256                           *)
  Adapters,      (* those that are supervised: telegram, websocket, whatsapp  *)
  MaxLines       (* bound: requests typed                                     *)

ASSUME CliAssumption ==
  /\ LaneOfKey \in [Sessions -> Lanes]
  /\ LaneCap \in Nat \ {0} /\ MaxLines \in Nat

VARIABLES
  loop,          (* the main task: with a console, or without                 *)
  stopping,      (* ShutdownCoordinator.stopping                              *)
  lines,         (* requests read so far: the number of the last one          *)
  lane,          (* the queue of a lane                                       *)
  serving,       (* the request the worker of a lane is in                    *)
  laneWorker,    (* its task                                                  *)
  senders,       (* who holds a Sender of the lane                            *)
  served,        (* auxiliary: the requests in the order they were begun      *)
  adapter        (* where the supervisor of an adapter is                     *)

cliVars == <<loop, stopping, lines, lane, serving, laneWorker, senders, served, adapter>>
laneVars == <<lane, serving, laneWorker, senders, served>>

Typed == [session : Sessions, line : 1..MaxLines]
MainStages == {"reading", "waiting", "draining", "adapters", "leaving", "saving", "gone"}
AdapterStages == {"top", "running", "looked", "armed", "sleeping", "stopped"}

CliTypeOK ==
  /\ loop \in MainStages /\ stopping \in BOOLEAN /\ lines \in 0..MaxLines
  /\ lane \in [Lanes -> Seq(Typed)] /\ \A l \in Lanes : Len(lane[l]) <= LaneCap
  /\ serving \in [Lanes -> Typed \cup {None}]
  /\ laneWorker \in [Lanes -> {"up", "ended"}]
  /\ senders \in [Lanes -> SUBSET {"bridge", "worker"}]
  /\ served \in Seq(Typed)
  /\ adapter \in [Adapters -> AdapterStages]

CliInit ==
  /\ loop \in {"reading", "waiting"}
  /\ stopping = FALSE /\ lines = 0
  /\ lane = [l \in Lanes |-> <<>>]
  /\ serving = [l \in Lanes |-> None]
  /\ laneWorker = [l \in Lanes |-> "up"]
  /\ senders = [l \in Lanes |-> {"bridge", "worker"}]
  /\ served = <<>>
  /\ adapter = [a \in Adapters |-> "top"]

-----------------------------------------------------------------------------
(* Mutant: the lane is chosen by the request.                               *)
LaneByLine(session) == CHOOSE l \in Lanes : (lines % 2 = 0) <=> (l = LaneOfKey[session])

LaneFor(session) == LaneOfKey[session]

(* A line that is not a command: try_send on the lane of its session; a     *)
(* full lane drops it.                                                      *)
ReadRequest(session) ==
  LET l == LaneFor(session) IN
  /\ loop = "reading" /\ lines < MaxLines
  /\ lines' = lines + 1
  /\ lane' = IF Len(lane[l]) < LaneCap
             THEN [lane EXCEPT ![l] = Append(@, [session |-> session, line |-> lines'])]
             ELSE lane
  /\ UNCHANGED <<loop, stopping, serving, laneWorker, senders, served, adapter>>

BeginRequest(l) ==
  /\ laneWorker[l] = "up" /\ serving[l] = None /\ lane[l] # <<>>
  /\ serving' = [serving EXCEPT ![l] = Head(lane[l])]
  /\ lane' = [lane EXCEPT ![l] = Tail(@)]
  /\ served' = Append(served, Head(lane[l]))
  /\ UNCHANGED <<loop, stopping, lines, laneWorker, senders, adapter>>

(* process_cli_ingress_request returns.                                     *)
EndRequest(l) ==
  /\ serving[l] # None
  /\ serving' = [serving EXCEPT ![l] = None]
  /\ UNCHANGED <<loop, stopping, lines, lane, laneWorker, senders, served, adapter>>

(* recv() gives None when the lane is empty and every Sender is dropped.    *)
LaneCloses(l) ==
  /\ laneWorker[l] = "up" /\ serving[l] = None /\ lane[l] = <<>> /\ senders[l] = {}
  /\ laneWorker' = [laneWorker EXCEPT ![l] = "ended"]
  /\ UNCHANGED <<loop, stopping, lines, lane, serving, senders, served, adapter>>

-----------------------------------------------------------------------------
(* "exit", Ctrl-C or SIGTERM: those that wait for the notification at this  *)
(* moment are woken, and no one else.  With a console, the bridge with its  *)
(* Senders is dropped; the worker of a lane keeps the clone of the lane's   *)
(* bridge it counts with.                                                   *)
RequestShutdown ==
  /\ loop \in {"reading", "waiting"}
  /\ stopping' = TRUE
  /\ adapter' = [a \in Adapters |-> IF adapter[a] = "armed" THEN "stopped" ELSE adapter[a]]
  /\ IF loop = "reading"
     THEN /\ loop' = "draining"
          /\ senders' = [l \in Lanes |-> senders[l] \ {"bridge"}]
     ELSE loop' = "leaving" /\ UNCHANGED senders
  /\ UNCHANGED <<lines, lane, serving, laneWorker, served>>

(* Every worker of a lane is awaited, however long it takes.                *)
LanesDrained ==
  /\ loop = "draining"
  /\ \A l \in Lanes : laneWorker[l] = "ended"
  /\ loop' = "adapters"
  /\ UNCHANGED <<stopping, lines, laneVars, adapter>>

(* Every supervisor is awaited for five seconds; without a console the      *)
(* process then ends.                                                       *)
AdaptersAwaited ==
  /\ loop = "adapters"
  /\ loop' = "saving"
  /\ UNCHANGED <<stopping, lines, laneVars, adapter>>

LeaveWithoutConsole ==
  /\ loop = "leaving"
  /\ loop' = "gone"
  /\ UNCHANGED <<stopping, lines, laneVars, adapter>>

(* save_to_sqlite.                                                          *)
SaveAndExit ==
  /\ loop = "saving"
  /\ loop' = "gone"
  /\ UNCHANGED <<stopping, lines, laneVars, adapter>>

-----------------------------------------------------------------------------
(* spawn_supervised_adapter: before each start, and after each exit or      *)
(* panic, the supervisor looks at the flag.                                 *)
Supervise(a, from, to) ==
  /\ loop # "gone" /\ adapter[a] = from
  /\ adapter' = [adapter EXCEPT ![a] = to]
  /\ UNCHANGED <<loop, stopping, lines, laneVars>>

StartAdapter(a) == Supervise(a, "top", IF stopping THEN "stopped" ELSE "running")

(* ShutdownCoordinator::wait: a look at the flag (the adapter is aborted),  *)
(* and then, in a step of its own, the notification is waited for.          *)
LookAtFlag(a) == Supervise(a, "running", IF stopping THEN "stopped" ELSE "looked")
AwaitNotify(a) == Supervise(a, "looked", "armed")

AdapterExits(a) ==
  \E from \in {"running", "looked", "armed"} :
    Supervise(a, from, IF stopping THEN "stopped" ELSE "sleeping")

(* The sleep before the next start may be cut short.                        *)
WakeUp(a) ==
  \/ Supervise(a, "sleeping", "top")
  \/ stopping /\ Supervise(a, "sleeping", "stopped")

LaneStep(l) == BeginRequest(l) \/ EndRequest(l)
AdapterStep(a) ==
  StartAdapter(a) \/ LookAtFlag(a) \/ AwaitNotify(a) \/ AdapterExits(a) \/ WakeUp(a)

ServeNext ==
  \/ \E session \in Sessions : ReadRequest(session)
  \/ \E l \in Lanes : LaneStep(l)
  \/ \E a \in Adapters : AdapterStep(a)
  \/ RequestShutdown \/ LeaveWithoutConsole

(* What follows the draining of the lanes.                                  *)
DrainNext == (\E l \in Lanes : LaneCloses(l)) \/ LanesDrained \/ AdaptersAwaited \/ SaveAndExit

CliNext == ServeNext \/ DrainNext

(* Tasks that can run are run, and a request ends (see SessionTurn).        *)
CliFairness ==
  /\ WF_cliVars(LeaveWithoutConsole) /\ WF_cliVars(DrainNext)
  /\ \A l \in Lanes : WF_cliVars(LaneStep(l))

CliSpec == CliInit /\ [][CliNext]_cliVars /\ CliFairness

-----------------------------------------------------------------------------
(* The requests of a session are served in the order they were typed, and   *)
(* one at a time: never is one begun while an earlier one is served or      *)
(* waits, whatever the other lanes do.                                      *)
LanesInOrder ==
  /\ \A i, j \in 1..Len(served) :
       i < j /\ served[i].session = served[j].session => served[i].line < served[j].line
  /\ \A k, l \in Lanes :
       serving[k] # None /\ serving[l] # None /\ serving[k].session = serving[l].session => k = l

(* "Graceful SIGINT shutdown via a CLI gateway" (the head of main.rs): once *)
(* the end was asked for, the process saves its sessions and ends.          *)
ExitReached == stopping ~> (loop = "gone")
=============================================================================
