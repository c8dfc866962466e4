---------------------------- MODULE SessionStore ----------------------------
(***************************************************************************)
(* The memory of one session: the log of events in SQLite with its version, *)
(* the copy each process keeps of the state, the mutations that write an    *)
(* event against the version they were computed from and try once more on a *)
(* conflict, the reads that refresh the copy, the loads that read the       *)
(* version and the events in two statements, the snapshots that are written *)
(* at start-up and by compact_session, and the compaction that asks the     *)
(* model for a summary while the session goes on.                           *)
(***************************************************************************)
EXTENDS Absence, Naturals, FiniteSets, Sequences, SequencesExt

CONSTANTS
  Nodes,         (* processes that share sessions_dir                         *)
  Writers,       (* tasks that use the session                                *)
  NodeOf,
  Window,        (* window_size: 100                                          *)
  KeepTurns,     (* messages a compaction leaves: 2                           *)
  MaxMessages,   (* bound: messages appended                                  *)
  MaxUpkeep,     (* bound: everything else that is begun, and store errors    *)
  MaxUnwritten   (* bound: writes of the compaction's row that fail           *)

ASSUME StoreAssumption ==
  /\ NodeOf \in [Writers -> Nodes]
  /\ None \notin Writers /\ None \notin Nodes
  /\ Window \in Nat \ {0} /\ KeepTurns \in Nat /\ MaxMessages \in Nat /\ MaxUpkeep \in Nat
  /\ MaxUnwritten \in Nat

VARIABLES
  log,           (* session_events, oldest first; the version is its length   *)
  copy,          (* SessionMemory.store of each process                       *)
  work,          (* what a writer is at                                       *)
  compaction,    (* the status in the row of the session's compaction         *)
  inFlight,      (* in_flight_compactions of each process                     *)
  leaseHolder,   (* who holds the lease "compaction:..."                      *)
  unwritten,     (* auxiliary: writes of the compaction's row that failed     *)
  appended,      (* messages given to append so far                           *)
  upkeep

storeVars == <<log, copy, work, compaction, inFlight, leaseHolder, unwritten, appended, upkeep>>
compactionVars == <<compaction, inFlight, leaseHolder, unwritten>>

Summary == 0
AppendOf(m) == [kind |-> "append", message |-> m]
ClearEvent == [kind |-> "clear"]
SettingEvent == [kind |-> "setting"]    (* AddConstraint, UpdateOverrides     *)
ReplaceOf(n) == [kind |-> "replace", count |-> n]
SnapshotOf(h) == [kind |-> "snapshot", history |-> h]
EventKinds == {"append", "clear", "setting", "replace", "snapshot"}

Drop(h, n) == IF n < Len(h) THEN SubSeq(h, n + 1, Len(h)) ELSE <<>>

(* apply_event_to_state.                                                    *)
ApplyEvent(h, e) ==
  CASE e.kind = "append" -> Append(h, e.message)
    [] e.kind = "clear" -> <<>>
    [] e.kind = "setting" -> h
    [] e.kind = "replace" -> <<Summary>> \o Drop(h, e.count)
    [] e.kind = "snapshot" -> e.history

(* replay_session_events.                                                   *)
Replay(l) == FoldLeft(ApplyEvent, <<>>, l)

(* The oldest messages go when the window is full.                          *)
Trim(h) == IF Len(h) > Window THEN Drop(h, Len(h) - Window) ELSE h

(* A state of the session as a process has it.  Skewed (auxiliary): it was  *)
(* changed otherwise than the log was.                                      *)
State(history, version, skewed) == [history |-> history, version |-> version, skewed |-> skewed]

(* SessionState::default.                                                   *)
Fresh == State(<<>>, 0, FALSE)

(* The mutator: the same event on the copy, and the window.  A compaction   *)
(* of a copy the window has cut short removes other messages there than in  *)
(* the log.                                                                 *)
Mutated(base, e) ==
  State(IF e.kind = "setting" THEN base.history ELSE Trim(ApplyEvent(base.history, e)),
        base.version + 1,
        base.skewed \/ (e.kind = "replace" /\ Len(base.history) < Len(Replay(log))))

Rest == [at |-> "idle"]
Stages == {"idle", "load", "replay", "loaded", "commit", "store", "triggered", "asking", "save", "boot"}

StoreTypeOK ==
  /\ \A i \in 1..Len(log) : log[i].kind \in EventKinds
  /\ \A n \in Nodes :
       copy[n] # None => copy[n].version \in 0..Len(log) /\ Range(copy[n].history) \subseteq 0..MaxMessages
  /\ \A w \in Writers : work[w].at \in Stages
  /\ compaction \in {"none", "running", "succeeded", "failed"}
  /\ inFlight \subseteq Nodes /\ leaseHolder \in Nodes \cup {None}
  /\ unwritten \in 0..MaxUnwritten /\ appended \in 0..MaxMessages /\ upkeep \in 0..MaxUpkeep

StoreInit ==
  /\ log = <<>>
  /\ copy = [n \in Nodes |-> None]
  /\ work = [w \in Writers |-> Rest]
  /\ compaction = "none" /\ inFlight = {} /\ leaseHolder = None /\ unwritten = 0
  /\ appended = 0 /\ upkeep = 0

Upkeep == upkeep < MaxUpkeep /\ upkeep' = upkeep + 1
Goes(w, record) == work' = [work EXCEPT ![w] = record]
CopyBecomes(n, state) == copy' = [copy EXCEPT ![n] = state]

(* What is being loaded: the base of a mutation, the state after a          *)
(* conflict, the history for a reader, or the session at start-up.          *)
Loads(w, uses) == work[w].at \in {"load", "replay", "loaded"} /\ work[w].use \in uses

(* At start-up nothing runs before the sessions are loaded and saved.       *)
Booting(w) == work[w].at = "boot" \/ Loads(w, {"boot"})

Ready(w) ==
  /\ work[w].at = "idle"
  /\ \A v \in Writers : NodeOf[v] = NodeOf[w] => ~ Booting(v)

-----------------------------------------------------------------------------
(* apply_session_mutation: the base is the copy, or else it is loaded.      *)
Mutation(w, e, after) ==
  LET c == copy[NodeOf[w]] IN
  [at |-> IF c = None THEN "load" ELSE "commit", use |-> "base", had |-> None, seen |-> 0,
   base |-> IF c = None THEN Fresh ELSE c, event |-> e, tries |-> 2, after |-> after]

AppendMessage(w) ==
  /\ Ready(w) /\ appended < MaxMessages
  /\ appended' = appended + 1
  /\ Goes(w, Mutation(w, AppendOf(appended'), "request"))
  /\ UNCHANGED <<log, copy, compactionVars, upkeep>>

(* /session clear, which the lock of the session does not keep out; the     *)
(* constraints, the agent and the model of the session.                     *)
ClearOrSet(w) ==
  /\ Ready(w) /\ Upkeep
  /\ \E e \in {ClearEvent, SettingEvent} : Goes(w, Mutation(w, e, "request"))
  /\ UNCHANGED <<log, copy, compactionVars, appended>>

(* Mutant: the event goes in whatever the version is.                       *)
AnyVersion(base) == TRUE

SameVersion(base) == base.version = Len(log)

(* append_event, one transaction; a conflict is met by loading the session, *)
(* whose first statement reads the version.                                 *)
Commit(w) ==
  /\ work[w].at = "commit"
  /\ IF SameVersion(work[w].base)
     THEN /\ log' = Append(log, work[w].event)
          /\ Goes(w, [work[w] EXCEPT !.at = "store",
                        !.base = [Mutated(@, work[w].event) EXCEPT !.version = Len(log) + 1]])
     ELSE /\ Goes(w, [work[w] EXCEPT !.at = "replay", !.use = "conflict", !.seen = Len(log)])
          /\ UNCHANGED log
  /\ UNCHANGED <<copy, compactionVars, appended, upkeep>>

(* The row of the compaction; the error of the write is dropped.            *)
Report(status) ==
  \/ compaction' = status /\ UNCHANGED unwritten
  \/ unwritten < MaxUnwritten /\ unwritten' = unwritten + 1 /\ UNCHANGED compaction

(* Mutant: who lost the lease leaves the row to the process that took it.   *)
EndFenced(n, status) ==
  /\ IF leaseHolder = n THEN Report(status) ELSE UNCHANGED <<compaction, unwritten>>
  /\ inFlight' = inFlight \ {n}
  /\ leaseHolder' = IF leaseHolder = n THEN None ELSE leaseHolder

(* The outcome, the mark and the lease of a compaction.                     *)
EndCompaction(n, status) ==
  /\ Report(status)
  /\ inFlight' = inFlight \ {n}
  /\ leaseHolder' = IF leaseHolder = n THEN None ELSE leaseHolder

(* A compaction has succeeded when its summary came, whatever the mutation  *)
(* returned.                                                                *)
EndMutation(w) ==
  /\ Goes(w, Rest)
  /\ IF work[w].after = "compaction"
     THEN EndCompaction(NodeOf[w], "succeeded")
     ELSE UNCHANGED compactionVars

(* The new state becomes the copy, whatever was put there meanwhile.        *)
StoreCopy(w) ==
  /\ work[w].at = "store"
  /\ CopyBecomes(NodeOf[w], work[w].base)
  /\ EndMutation(w)
  /\ UNCHANGED <<log, appended, upkeep>>

(* After a conflict the copy is what was loaded, and the event is tried     *)
(* once more; after a second one the mutation fails.                        *)
Retry(w) ==
  /\ work[w].at = "loaded" /\ work[w].use = "conflict"
  /\ CopyBecomes(NodeOf[w], work[w].base)
  /\ IF work[w].tries > 1
     THEN /\ Goes(w, [work[w] EXCEPT !.at = "commit", !.tries = @ - 1])
          /\ UNCHANGED compactionVars
     ELSE EndMutation(w)
  /\ UNCHANGED <<log, appended, upkeep>>

-----------------------------------------------------------------------------
(* refresh_session_from_sqlite_if_newer: the version of the copy is read    *)
(* first.                                                                   *)
ReadHistory(w) ==
  LET c == copy[NodeOf[w]] IN
  /\ Ready(w) /\ Upkeep
  /\ Goes(w, [at |-> "load", use |-> "history", had |-> IF c = None THEN None ELSE c.version,
              seen |-> 0, base |-> Fresh])
  /\ UNCHANGED <<log, copy, compactionVars, appended>>

(* A reader has its history; a request that finds it long and no compaction *)
(* running asks for one.                                                    *)
ReadEnds(w, history) ==
  \/ Goes(w, Rest)
  \/ /\ Len(history) > KeepTurns /\ compaction # "running"
     /\ Goes(w, [at |-> "triggered", remove |-> Len(history) - KeepTurns])

Newer(had) == log # <<>> /\ IF had = None THEN TRUE ELSE had < Len(log)

(* load_session, the row of the session: there is none, the copy is as new, *)
(* or the events are read next.                                             *)
LoadVersion(w) ==
  LET c == copy[NodeOf[w]]
      use == work[w].use
  IN
  /\ work[w].at = "load"
  /\ \/ /\ log = <<>> /\ use = "base"
        /\ Goes(w, [work[w] EXCEPT !.at = "commit"])
     \/ /\ use = "history"
        /\ ~ Newer(work[w].had)
        /\ ReadEnds(w, IF c = None THEN <<>> ELSE c.history)
     \/ /\ log # <<>>
        /\ use = "history" => Newer(work[w].had)
        /\ Goes(w, [work[w] EXCEPT !.at = "replay", !.seen = Len(log)])
  /\ UNCHANGED <<log, copy, compactionVars, appended, upkeep>>

(* replay_session_events, a statement of its own: all of the log as it is   *)
(* by now, without the window, under the version read before.               *)
LoadEvents(w) ==
  /\ work[w].at = "replay"
  /\ Goes(w, [work[w] EXCEPT !.at = IF work[w].use = "base" THEN "commit" ELSE "loaded",
                             !.base = State(Replay(log), work[w].seen, FALSE)])
  /\ UNCHANGED <<log, copy, compactionVars, appended, upkeep>>

(* What a reader loaded becomes the copy, whatever was put there meanwhile. *)
Refresh(w) ==
  /\ work[w].at = "loaded" /\ work[w].use = "history"
  /\ CopyBecomes(NodeOf[w], work[w].base)
  /\ ReadEnds(w, work[w].base.history)
  /\ UNCHANGED <<log, compactionVars, appended, upkeep>>

(* The store answers with an error: a base is then the empty session, every *)
(* other load and the mutation fail; start-up skips the session.            *)
StoreFails(w) ==
  /\ Upkeep
  /\ \/ /\ Loads(w, {"base"})
        /\ Goes(w, [work[w] EXCEPT !.at = "commit", !.base = Fresh])
        /\ UNCHANGED compactionVars
     \/ /\ work[w].at = "commit" \/ (work[w].at = "replay" /\ work[w].use = "conflict")
        /\ EndMutation(w)
     \/ /\ work[w].at \in {"load", "replay"} /\ work[w].use \in {"history", "boot"}
        /\ Goes(w, Rest)
        /\ UNCHANGED compactionVars
  /\ UNCHANGED <<log, copy, appended>>

(* try_mark_compaction_inflight, and the row says Running.                  *)
StartCompaction(w) ==
  LET n == NodeOf[w] IN
  /\ work[w].at = "triggered"
  /\ IF n \notin inFlight /\ leaseHolder = None
     THEN /\ Goes(w, [work[w] EXCEPT !.at = "asking"])
          /\ Report("running")
          /\ inFlight' = inFlight \cup {n}
          /\ leaseHolder' = n
     ELSE Goes(w, Rest) /\ UNCHANGED compactionVars
  /\ UNCHANGED <<log, copy, appended, upkeep>>

(* Mutant: without a summary there is nothing to do.                        *)
SummaryLost(w) ==
  /\ work[w].at = "asking"
  /\ \/ Goes(w, Mutation(w, ReplaceOf(work[w].remove), "compaction"))
     \/ Goes(w, Rest)
  /\ UNCHANGED <<log, copy, compactionVars, appended, upkeep>>

(* The model answers: with a summary that replaces as many messages as were *)
(* to be removed when it was asked, without one, or not at all.             *)
SummaryArrives(w) ==
  /\ work[w].at = "asking"
  /\ \/ /\ Goes(w, Mutation(w, ReplaceOf(work[w].remove), "compaction"))
        /\ UNCHANGED compactionVars
     \/ /\ Goes(w, Rest)
        /\ \E status \in {"succeeded", "failed"} : EndCompaction(NodeOf[w], status)
  /\ UNCHANGED <<log, copy, appended, upkeep>>

(* Fifteen minutes: nobody renews it.                                       *)
CompactionLeaseExpires ==
  /\ leaseHolder # None
  /\ leaseHolder' = None
  /\ UNCHANGED <<log, copy, work, compaction, inFlight, unwritten, appended, upkeep>>

(* compact_session: the copy is changed first, then saved as a snapshot     *)
(* that replaces whatever the log has.                                      *)
Summarize(w) ==
  LET n == NodeOf[w] IN
  /\ Ready(w) /\ Upkeep
  /\ copy[n] # None /\ Len(copy[n].history) > KeepTurns
  /\ CopyBecomes(n, State(<<Summary>>, copy[n].version, TRUE))
  /\ Goes(w, [at |-> "save", history |-> <<Summary>>])
  /\ UNCHANGED <<log, compactionVars, appended>>

(* A process dies and comes back: load_from_sqlite.                         *)
Restart(w) ==
  LET n == NodeOf[w] IN
  /\ Upkeep
  /\ CopyBecomes(n, None)
  /\ work' = [v \in Writers |->
                IF NodeOf[v] # n THEN work[v]
                ELSE IF v = w /\ log # <<>>
                THEN [at |-> "load", use |-> "boot", had |-> None, seen |-> 0, base |-> Fresh]
                ELSE Rest]
  /\ inFlight' = inFlight \ {n}
  /\ UNCHANGED <<log, compaction, leaseHolder, unwritten, appended>>

(* A session that was loaded, with the window, and then save_to_sqlite.     *)
Boot(w) ==
  LET trimmed == Trim(work[w].base.history) IN
  /\ work[w].at = "loaded" /\ work[w].use = "boot"
  /\ CopyBecomes(NodeOf[w], [work[w].base EXCEPT !.history = trimmed])
  /\ Goes(w, [at |-> "boot", history |-> trimmed])
  /\ UNCHANGED <<log, compactionVars, appended, upkeep>>

(* save_session: the copy keeps the version it had.                         *)
Save(w) ==
  /\ work[w].at \in {"save", "boot"}
  /\ \/ log' = Append(log, SnapshotOf(work[w].history))
     \/ UNCHANGED log
  /\ Goes(w, Rest)
  /\ UNCHANGED <<copy, compactionVars, appended, upkeep>>

WriterStep(w) ==
  \/ AppendMessage(w) \/ ClearOrSet(w) \/ Commit(w) \/ StoreCopy(w) \/ Retry(w)
  \/ ReadHistory(w) \/ LoadVersion(w) \/ LoadEvents(w) \/ Refresh(w) \/ StoreFails(w)
  \/ StartCompaction(w) \/ SummaryArrives(w) \/ Summarize(w) \/ Restart(w) \/ Boot(w) \/ Save(w)

StoreNext == CompactionLeaseExpires \/ \E w \in Writers : WriterStep(w)

StoreSpec == StoreInit /\ [][StoreNext]_storeVars

-----------------------------------------------------------------------------
(* A copy is what the log was at the version the copy says or, when a load  *)
(* read its events after others had written, at a later one; so a copy at   *)
(* the version of the log is the log's, up to the messages the window took: *)
(* however processes, threads, conflicts and late stores meet, no process   *)
(* writes an event against a history that never was.  Two things skew a     *)
(* copy, and are known to: compact_session, and a summary applied to a      *)
(* history the window has cut short.                                        *)
CopyFollowsLog ==
  \A n \in Nodes :
    copy[n] # None /\ ~ copy[n].skewed =>
      \E read \in copy[n].version..Len(log) :
        LET past == Replay(SubSeq(log, 1, read)) IN
        /\ IsSuffix(copy[n].history, past)
        /\ Len(copy[n].history) >= IF Len(past) < Window THEN Len(past) ELSE Window

(* From the question to the model until the summary is in, or is not coming.*)
InCompaction(w) ==
  \/ work[w].at = "asking"
  \/ work[w].at \in {"commit", "store"} /\ work[w].after = "compaction"
  \/ Loads(w, {"base", "conflict"}) /\ work[w].after = "compaction"

(* A process has its mark exactly while one of its tasks compacts the       *)
(* session, and no second one does, though the lease may be lost meanwhile  *)
(* and the mutation may meet conflicts: no way out leaves a mark that keeps *)
(* the session from ever being compacted, and none takes another's.         *)
CompactionMarked ==
  /\ inFlight = {NodeOf[w] : w \in {v \in Writers : InCompaction(v)}}
  /\ \A v, w \in Writers :
       InCompaction(v) /\ InCompaction(w) /\ NodeOf[v] = NodeOf[w] => v = w

(* The row says Running and no task of any process is at it: the trigger    *)
(* starts no compaction as long as it does.                                 *)
Orphaned == compaction = "running" /\ \A w \in Writers : ~ InCompaction(w)

(* The row is left like that by a restart or by a write of it that failed;  *)
(* neither a lost lease nor two processes that compact at once, a conflict, *)
(* a missing summary or an error of the session's log does.                 *)
OrphansHaveCause ==
  [][Orphaned' => Orphaned \/ unwritten' > unwritten \/ \E w \in Writers : Restart(w)]_storeVars
=============================================================================
