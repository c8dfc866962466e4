# HiveClaw: a TLA+ verification project

HiveClaw (the crates `aria-*`) is an agent runtime: channels deliver user
requests, an orchestrator lets language models call tools, and several server
processes share one SQLite file, the *runtime store*. This directory models the
parts of it where processes, tasks and failures meet, checks them with TLC and
proves the central invariants with TLAPS.

Paths below are relative to `src/`; `tools.rs` without a path is
`aria-x/src/tools.rs`, and so on.

## 1. Inventory

### 1.1 Parts, their state and their operations

| part | state | operations | code |
|---|---|---|---|
| Resource leases | table `resource_leases`: holder, fencing token, lease end | acquire in a transaction, release by key, holder and token; a claim in memory that releases on `Drop` | `runtime_store/outbound.rs:427-505`, `tools.rs:820-860,12261-12400,15800-15870` |
| Scheduler | tables `job_snapshots`, `job_leases`, the leader lease, a command channel, the config file | boot seeding, poll (list, claim, mark, execute, persist, release), command processor, `manage_cron` | `scheduler.rs`, `bootstrap.rs:2440-2750`, `runtime_store/outbound.rs:340-424`, `tools.rs:3160-3300` |
| Agent runs | tables `agent_runs`, `agent_mailbox`, `agent_run_events`, `agent_presence` | spawn, claim, process, cancel a tree, retry, take over | `runtime_store/runs.rs`, `tools.rs:1526-1800,12753-12882`, `bootstrap.rs:2766-2880` |
| Durable queues, dead letters, outbox | tables `durable_queue_messages`, `durable_queue_dlq`, `outbound_deliveries` | enqueue, claim, ack, fail, retry, dead-letter, replay; the outbox worker sends and marks | `runtime_store/queues.rs`, `tools.rs:11340-11480`, `outbound.rs` |
| Requests of a session | the session's mutex, admission permits, the map of steering channels, the history | admit, screen, lock, the orchestrator's tool loop, the contract's second run, repair, steering, emergency stop | `tools.rs:15609-16867`, `aria-intelligence/src/orchestrator.rs`, `gateway_runtime.rs:1914`, `bootstrap.rs:6679` |
| Tool calls | the workspace lock's permit, counters and holder, call leases, the idempotency cache, processes started | checks, lock, lease, lookup, effect, timeout, scan, the guards' `Drop` | `workspace_lock.rs`, `tools.rs:808-1272,9354-9563` |
| Connection pool | idle connections, a counter, a condition variable, the set of initialised paths | connect, open, wait, give back | `runtime_store/connection.rs`, `runtime_store.rs:76-93` |
| Approvals | tables `approvals`, `approval_handles`, `elevations`, `domain_access_decisions` | ask, show, select, answer, act, consume, expire | `approvals.rs`, `runtime_store/approvals.rs`, `gateway_runtime.rs:1639-1871`, `bootstrap.rs:7190-7290` |
| Telegram ingress | the provider's offset, a bounded queue, the dedupe window and table | poll, enqueue, take, check for duplicates, process, prune, restart | `gateway_runtime.rs:580-650,979-1160,2706-2920` |
| Console | lanes, their workers, the stop flag and its notification, supervised adapters | read, dispatch, serve, shut down, supervise | `bootstrap.rs:20-41,1221-1300,3211-3423`, `ingress.rs` |
| Session memory and compaction | the log of session events with its version, a copy per process, compaction state, in-process guard and lease | append, clear, settings, refresh, snapshot, summarise, compact | `aria-ssmu/src/lib.rs`, `aria-ssmu/src/persistence.rs`, `tools.rs:12186-12407,12660-12751,16109-16153` |
| MCP client | tables `mcp_servers`, `mcp_import*`, a pooled client, its child process and pipe | register, import, sync, set up, call, retry, invalidate | `aria-mcp/src/lib.rs`, `tools.rs:2572-3014,8039-8237`, `bootstrap.rs:5870-5990` |
| Web storage | tables `browser_artifacts`, `browser_session_states`, `crawl_jobs`, `watch_jobs`, `website_memory`, and the files of the first two | capture, download, export, restore, crawl, watch; the storage policy | `tools.rs:3734-4163,4721-4955,5141-5225,5436-5660`, `browser.rs:1544-1706`, `crawl.rs:56-228` |
| Record tables, other tool implementations, LLM back ends, policy, vault, mesh, drivers, user interface | data | parsing, formatting, I/O, single-statement reads and writes | see `PROJECT.json`, "components" |

### 1.2 How they interact

* All processes share the **runtime store**. A store call takes a connection from
  the **pool** and runs one or more SQL statements; only some calls are
  transactions. Everything between two calls of one task may interleave with every
  other task, also of another process.
* **Telegram** and the **console** turn what they read into requests; a worker of
  their queue or lane calls `process_request`. That takes an admission permit and the
  **lock of the session**, so the requests of a chat run one after the other, appends
  to the **session memory** and runs the tool loop, which the user may steer.
* A **request** takes quota leases (channel, agent class, user) before its agent
  runs; the agent's **tool calls** pass the policy, which may stop them with an
  **approval**, then take the lock of the workspace and a lease on the resource they
  write. Lease claims give the row back on `Drop`.
* The **scheduler** loop takes the leader lease from the same lease table, a
  lease per job, executes the job as a request, and reports through a bounded
  channel to the command processor, which owns most snapshot writes.
  `manage_cron`, called by an agent, sends to the channel *and* writes itself.
* A tool call **spawns** a run in its own session; the background worker claims
  it and executes it as a request in a session derived from the run id. Users
  and agents cancel, retry and take over runs at the store directly.
* MCP tools of all sessions go through one **pooled client** per store; commands
  that change the imports empty the pool.
* A **response** is sent to its channel at once; what fails is marked in
  `outbound_deliveries` and, in a cluster, put into a durable queue, and a worker
  tries it again.

### 1.3 What is hard

Interleaving of read and write of one row (agent runs, job snapshots,
approvals) or of one state in memory (pool, lock, session copies); leases that
expire while they are held, on clocks read before the transaction; two statements that read
what another one writes in between; cached results that expire; a crash or a
store error (`?`, or one that is dropped) between two steps; futures that are dropped where they await;
answers that never come (channels, one-shot replies, pipes) or come late; work that
must be taken up by another node; deliveries that come again. The hazards, each at
its line and with the property that would catch it, are listed in `PROJECT.json`.

### 1.4 What makes each part correct

* *Leases*: no two unexpired claims on one key; a live claim is the row in the
  table; a request turned away gives back what it took; nobody waits for ever.
* *Scheduler*: a one-shot job is dispatched, run once and settled after it ran;
  no two workers hold a job; the loop comes back; a due job is taken although
  nodes die.
* *Agent runs*: a run is started once; what has ended stays ended; a
  cancelled run stays cancelled; a cancellation covers the tree, leaves first;
  every queued run ends and its requester hears of it.
* *Outbox*: a message is in one worker's hand at most; an acknowledged message is
  not queued again; the dead letters and the queue agree; retries are bounded; no
  response is lost; a failed delivery recovers.
* *Requests of a session*: turns do not mix in the history, into which only the results of
  approved tools come from outside; nobody is aborted
  without a reason; every request ends and gives back lock and permit.
* *Tool calls*: one call behind the lock of a workspace, and the one that is named;
  a repeated idempotency key has one effect while its result is kept.
* *Pool*: the counter stands for the connections there are, never more than the
  maximum, and a connection has one owner.
* *Approvals*: what was asked is answered once.
* *Telegram*: an update is processed once, or there is a reason why not.
* *Console*: a session's requests are served in order; the end is reached.
* *Session memory*: a copy is what the log was at the copy's version, or is newer; a compaction
  leaves its mark and its row as it found them, unless a process dies or a write fails.
* *Web storage*: the tables come back within their limits; a row has its file and a file
  its row.
* *MCP*: a call gets its own answer; the pooled client knows the current imports.

## 2. Modules

| module | models | lines of code in |
|---|---|---|
| `ResourceLease`, `ResourceLeaseProofs` | leases, the retry loop, quota stages, `Drop`, crash; theorems | `runtime_store/outbound.rs`, `tools.rs` |
| `OneShot` | abstract: what the scheduler promises for a one-shot job | |
| `Scheduler`, `SchedulerProofs` | boot, loop, processor, `manage_cron`, crash; refines `OneShot`; theorems | `scheduler.rs`, `bootstrap.rs` |
| `AgentRuns`, `AgentRunsProofs` | run queue, worker, cancel, retry, takeover, crash; theorems | `runtime_store/runs.rs`, `tools.rs` |
| `DurableQueue` | abstract: what the durable queue promises of a message | |
| `Outbox`, `OutboxProofs` | responses, delivery marks, the durable queue, the retry workers; refines `DurableQueue`; theorems | `runtime_store/queues.rs`, `outbound.rs`, `tools.rs` |
| `Conversation` | abstract: what the lock of a session promises of its history | |
| `SessionTurn`, `SessionTurnProofs` | the requests of one chat: admission, lock, tool loop, steering, history; refines `Conversation`; theorems | `tools.rs`, `orchestrator.rs`, `gateway_runtime.rs` |
| `ToolCalls`, `ToolCallsProofs` | tool calls through policy, workspace lock, lease, idempotency cache, effect; theorems about it and `McpPool` | `tools.rs`, `workspace_lock.rs` |
| `StorePool` | the connection pool | `runtime_store/connection.rs` |
| `Approvals` | approvals from the ask to what the answer does | `approvals.rs`, `gateway_runtime.rs`, `bootstrap.rs` |
| `TelegramIngress` | updates from the provider to the request | `gateway_runtime.rs` |
| `CliGateway` | console lanes, supervision, shutdown | `bootstrap.rs`, `ingress.rs` |
| `SessionStore` | the log of a session, the copies of it, compaction | `aria-ssmu`, `tools.rs` |
| `McpPool` | the pooled MCP client, its child and pipe, imports | `aria-mcp`, `tools.rs` |
| `WebStorage` | what the web tools store, with its files, and the policy that removes it | `tools.rs`, `browser.rs`, `crawl.rs` |
| `StorageProofs` | theorems about `StorePool`, `SessionStore` and `WebStorage` | |
| `GatewayProofs` | theorems about `CliGateway`, `TelegramIngress`, `Approvals` and `MCServices` | |
| `Absence` | the constant `None`, shared by the modules composed in `MCServices` | |
| `MCResourceLease`, `MCScheduler`, `MCAgentRuns`, `MCOutbox`, `MCSessionTurn`, `MCCliExit` | the small instances | |
| `MCServices` | eight services in one run, see 2.13 | |

Definitions that begin with the comment "Mutant:" are faulty variants of the
definition that follows. They are not part of the models; each shows that a
property notices that fault.

### 2.1 ResourceLease

A caller is a request or a tool call in one process (`InstanceOf`). `lease` is the
table, `claims` the claims in its memory, `now` the `now_us` it read before the
transaction (`tools.rs:12292`), `clock` the wall clock.

| action | code |
|---|---|
| `Begin`, `Stamp`, `Acquire` | `acquire_shared_quota_claim`/`acquire_call_lease`: read the time, then the transaction of `try_acquire_resource_lease` |
| `Refused`, `Wake`, `AcquireError` | the next attempt, the next slot, or giving up; an error of the store gives up at once |
| `Cancel`, `Finish`, `Release`, `ReleaseError` | the future is dropped or the call returns; `Drop` of each claim deletes by key, holder and token, ignoring errors |
| `Crash` | the process ends without any `Drop` |

The stages are the scopes of a request, taken in order while the earlier ones are
held; a tool call has one stage. Claims carry `until` (auxiliary), to say whether
the caller may still believe in them. The sleep between two attempts is a state
(`"sleep"`), its length is left to the clock.

### 2.2 Scheduler

Every store access of the three tasks is one action: `Boot`, `SeedWrite`; `Lead`,
`ListDue`, `Claim`/`Skip`, `Mark`, `Execute`, `Finish`, `Report`, `Ask`, `Persist`,
`Release` of the loop; `HandleAdd`, `HandleRemove`, `HandleUpdate`, `HandleList`,
`ProcWrite`, `ProcClear` of the processor; `ToolSend`, `ToolWrite`, `ToolEdit` of
`manage_cron`; and the error path of each. What is left out:

* `last_error`, the audit log, the prompt and the notification's text;
* cron, daily and weekly schedules are a `Period`, as only their next due time
  matters to the poll;
* the claim reads its time at the transaction and the listing is taken together
  with its time: `ResourceLease` models a stale `now_us` for the same statement;
* two `manage_cron` calls at once on one node: the calls of a request follow each other
  (the serial class, `aria-intelligence/src/hardware.rs:497`), those of two sessions need not;
* the leader renews at each poll only, as the code does.

### 2.3 AgentRuns

`run` is the table `agent_runs` (status, parent, session), `mail` the mailbox per
run, `work` what a worker has in hand, `op` the cancel, retry or takeover a client
is in the middle of.

| action | code |
|---|---|
| `Spawn` | `spawn_agent`, in the chat's session or in the session of a run that is executing |
| `Claim` | `claim_next_queued_agent_run`, one transaction |
| `Start`, `Return` | the Started event and the handler, or the time limit of zero |
| `Check`, `CheckError` | the row is read again; an error of that read counts as not cancelled |
| `Store`, `Tell`, `WorkError` | the outcome is upserted, then the mailbox; `?` between any two |
| `Ask` | a cancellation or takeover lists the tree; a retry reads its run |
| `CancelRead`, `CancelWrite`, `CancelTell` | `cancel_agent_run` for each run of the list, children first |
| `Requeue`, `Inform` | the new run of a retry or takeover, and the takeover's message |
| `OpError`, `Crash` | `?` in an operation; a node dies with some of the clients |

Left out: the presence table and the event log (only inspection reads them), the
fan-out limit, permissions, request texts and agents, the order in which queued
runs are claimed (any queued run may be next, which covers `ORDER BY
updated_at_us`), runs that do not ask for a message (`spawn_agent` always does).
The status a takeover reads and its listing of the tree are one step.
The rows a cancellation reaches are `Below(root, peers)`, the least set with the
root and the children of its members; it is written without recursion, so that
proofs can use it.

### 2.4 Outbox

`delivery` is the table `outbound_deliveries`, `msg` the durable queue (the message
id is made from the envelope id, so there is one per envelope), `dlq` the number of
rows a message has in the dead letters, `task` what a sender or a node's worker has
in hand. `cluster` is the configuration, chosen once.

| action | code |
|---|---|
| `Respond`, `Enqueue` | `send_universal_response` for one target, before and after the common steps |
| `Check`, `Dispatch`, `Record` | the steps senders and workers share: the check for a delivery already sent (an error counts as "not sent"), the dispatch with its retries, the mark |
| `Claim`, `Settle` (`Ack`, `Fail`) | the worker of a cluster; the claim and the failure are transactions by id |
| `List`, `Pick` | the worker of a single process: the `Limit` oldest failed deliveries, one after the other |
| `Replay` | an operator's `--replay-dlq` |
| `Crash`, `Connect` | a node dies with its tasks; a recipient comes or goes |

Every error that the code ignores with `let _ =` is an alternative of the step. A
dispatch may fail although the text arrived. Left out: `visible_at` (it delays a
claim), `claimed_until` (nothing reads it), the order of claims, the fan-out loop
(each target is a sender), payloads that do not parse. The order in which a worker
takes the deliveries of one list is left open. `rounds`, `reached` and `replays` are
auxiliary.

### 2.5 SessionTurn

One chat, whose requests arrive while earlier ones run. `stage` is where
`process_request` is, `lockOwner` and `lockQueue` the session's mutex (fair), `steering`
whose channel the gateway's map holds, `inbox` the commands in a channel.

| action | code |
|---|---|
| `Register` | the worker puts a new steering channel in the map, which closes the one that was there |
| `Admit`, `Screen`, `LockSession` | the permit, the hook and firewall, the lock |
| `Resolve`, `Clarify`, `Remember` | routing, or the question which agent was meant, kept behind the request; elevation, quotas; the user's message is kept |
| `AskModel`, `ModelAnswers`, `StartCalls` | the head of the loop; the answer; a round begins |
| `ParallelCalls`, `SerialCall`, `FollowUp` | the calls, interrupted by a command or not; the results |
| `RetryContract`, `Settle`, `AnswerUser`, `Leave` | the second run, the repair, the answer that is kept, the guards |
| `Steer`, `PullEstop` | `/stop` and `/pivot` to the channel in the map; the emergency stop |
| `ResumeApproved` | the handler of an approval appends the result of the tool to the history, without the lock |

Left out: other chats (they only take permits), the texts, the tool cache, the repair
of malformed calls inside the loop, streams; `/session clear`, which empties the history
without the lock (it is in `SessionStore`); the request a granted elevation starts anew
(`gateway_runtime.rs:1690`), which is one more request without a steering channel. A call's
own steps are `ToolCalls`.

### 2.6 ToolCalls

`permit` and `queue` are the semaphore of a workspace, `waitingRuns`, `activeHolders`,
`currentHolder` what `snapshot` shows of it, `callLease` the lease of a resource,
`results` the idempotency cache, `shells` the processes that run.

| action | code |
|---|---|
| `Arrive`, `CheckDenied`, `CheckAllowed` | the call, or an approved tool, which goes past the checks and the lock; profile, validation, policy |
| `Enter`, `LockTimeout`, `Count`, `Name` | `WorkspaceLockManager::acquire` |
| `TakeLease`, `LeaseBusy`, `LeaseExpires` | `acquire_call_lease`, in one step (its details are `ResourceLease`) |
| `Lookup`, `WriteFile`, `ShellStarts`, `ShellFails`, `ShellReturns`, `ShellTimeout`, `OtherEffect` | the cache and the effect; a shell that times out is not killed (`OrphanEnds`) |
| `ResultForgotten` | a result kept under a key expires, or is evicted when the cache is full |
| `Scan`, `DropGuard` | the result is scanned; the guard's `Drop` and then its permit |
| `GiveUpCall` | the future of the request is dropped where it awaits |

What a call returns is left out.

### 2.7 StorePool

`idle`, `total`, `schema` are the pool, `mine` the connections of a thread. `Connect`,
`Pop`, `Load`, `Cas`, `Open`, `Initialise`, `Park` are the steps of `connect`,
`GiveBack` is `Drop`, which notifies one waiter; `SpuriousWakeup` is the condition
variable's. Poisoned mutexes are left out.

### 2.8 Approvals

One session. `approvals`, `handles`, `elevated`, `decisions` are the tables, `readCopy`
what an answer has read.

| action | code |
|---|---|
| `Ask`, `StoreRecord`, `GiveHandle` | a tool, an elevation or a domain needs the user; the record is written over, its handle given |
| `Answer`, `Select`, `ReadRecord`, `WriteDecision`, `Act` | a button or a line of the console, the selector, read, check, write, and what was approved |
| `FindDecision`, `ConsumeDecision` | a web call finds an allow-once decision and deletes it |
| `HandleEnds`, `ElevationEnds`, `ProcessStops` | a day or an hour passes; a crash |

Left out: the working set and the arguments of the tool. After `Act` the button's handler
appends the tool's result to the history of the session, without the session's lock: that is
`ResumeApproved` of `SessionTurn`, which lets it come at any point of a turn.

### 2.9 TelegramIngress

`confirmed` is what the provider has forgotten, `window` and `keys` tell duplicates.
`Poll`, `Enqueue` are the polling loop, `Take`, `CheckWindow`, `CheckTable`, `Process` a
worker, `Prune` the retention, `AdapterRestarts` and `Crash` what may happen to them.
`Process` is the request as one step.

### 2.10 CliGateway

`ReadRequest`, `BeginRequest`, `EndRequest` are the lanes; `RequestShutdown`,
`LaneCloses`, `LanesDrained`, `AdaptersAwaited`, `SaveAndExit`, `LeaveWithoutConsole` the
end; `StartAdapter`, `LookAtFlag`, `AwaitNotify`, `AdapterExits`, `WakeUp` the supervisor of
an adapter, with `ShutdownCoordinator::wait` in its two steps. `senders` says who holds a
`Sender` of a lane, as a channel closes with the last.

### 2.11 SessionStore and McpPool

`SessionStore`: `log` is the table of events, whose length is the version, `copy` the
state each process has in memory.

| action | code |
|---|---|
| `AppendMessage`, `ClearOrSet`, `Commit`, `StoreCopy`, `Retry` | `apply_session_mutation`: base, transaction against the version, copy, one more try |
| `ReadHistory`, `Refresh` | the refresh before a read; a long history triggers a compaction (`ReadEnds`) |
| `LoadVersion`, `LoadEvents` | `load_session`, for a mutation without a copy, after a conflict, for a reader and at start-up: the version in one statement, the events in another |
| `StoreFails` | an error of the store: a mutation goes on from an empty session, everything else fails |
| `StartCompaction`, `SummaryArrives`, `CompactionLeaseExpires` | compaction; each write of its row may fail, and nobody is told (`Report`) |
| `Summarize`, `Save` | `compact_session`, the blind snapshot |
| `Restart`, `Boot` | the process dies; the sessions are loaded, trimmed and saved as snapshots |

Left out: what the constraints and overrides say (their events are `SettingEvent`), the JSONL audit;
the base of a retry is what its load has put into the copy, not what another task
put there in between; an error that reads the row of the compaction, which the trigger takes
for "not running".

`McpPool`: one stdio server. `pooled` and `building` are the pool and its lock, `registry`
what a client was built from, `unread` the answers in the pipe.

| action | code |
|---|---|
| `Start`, `Fetch`, `Build`, `Insert`, `EnterClient` | `pooled_mcp_client`, then the client's mutex |
| `OpenSession`, `Unsupported`, `FirstAttempt`, `Reinitialise`, `SecondAttempt` | `ensure_session` and `invoke_jsonrpc` |
| `RegisterServer`, `WriteImports`, `RefreshCache`, `DropClient`, `ChangeFails` | the commands that change the imports, and `?` in them |

`muddied`, `unannounced`, `got` are auxiliary. Left out: the HTTP transport, bindings,
further servers, `hiveclaw setup`'s own client.

### 2.12 WebStorage

`stored` has the rows of the five tables, `dates` their order, `disk` the files. A call is
at one step of its tool, or of the policy.

| action | code |
|---|---|
| `BeginCapture`, `BeginStart`, `BeginPersist`, `BeginRestore`, `BeginCrawl`, `BeginWatch` | the handlers up to the first file or row, with the limit of watch jobs |
| `Write`, `Check`, `StoreArtifact`, `StoreState`, `StoreJob` | the file, size and scan, the row; `Store` leads to the policy |
| `ReadState`, `Restored`, `Crawled`, `Remember` | a restore; the end of a crawl and the memory of the site |
| `List`, `Unlink`, `Delete` | `enforce_web_storage_policy`, table after table |
| `Setback` | an error, or a future that is dropped |

The limits in bytes are a free choice of how many more rows go. The five capturing tools
differ in what they write, not in the order of their steps, so that four are one
(`capture`). `shared`, `strays`, `bare` and
`setbacks` are auxiliary. Left out: the audit row after each call, the scheduler's job of a
watch, more than one screenshot of a crawl, two crawls of one site.

### 2.13 How the modules compose

The parts share little state in memory: where they meet, they meet in a table or in a
guard. So each module takes what it needs of its neighbours as an action or a free
choice: `ToolCalls` and `SessionStore` take a lease in one step that `ResourceLease`
takes apart, `SessionTurn` a tool call that `ToolCalls` takes apart, `TelegramIngress` and
`CliGateway` a request that is `SessionTurn`. Three modules implement an abstract
one, with the refinement mapping in the module, checked by TLC and proved:

* `Scheduler` implements `OneShot` (`FollowsLifecycle`) for each Once job;
* `Outbox` implements `DurableQueue` (`IsDurableQueue`): a claim that no worker has
  in hand is a message that was abandoned;
* `SessionTurn` implements `Conversation` (`IsConversation`): the owner of the lock has
  the floor.

`MCServices` puts eight services that share no variable into one specification. The
initial state chooses the one that moves, and all others stand still: as no variable is
shared, each property of one service has the same truth in every interleaving with the
others, and the run has the sum of their states, not the product. `ServicesApart`
(4.8) proves that each behaviour of the run is a behaviour of every service, so that the
theorems about the services hold in the run.

## 3. Runs

| run | properties | shows |
|---|---|---|
| `lease_quota` | `MutualExclusion`, `NoLeakedLease`, `LiveRowUntouched`, `CallReturns` | two requests, two channel slots, one user slot |
| `scheduler_node` | `NoLeakedJobLease`, `DispatchedInHand`, `FollowsLifecycle`, `LoopReturns` | one node with `manage_cron` calls implements `OneShot`; loop and processor around a channel of one place |
| `scheduler_cluster` | `ClaimExclusive`, `DueJobTaken` | two nodes with a leader |
| `scheduler_twice` | `OnceAtMostOnce` violated | see 3.2 |
| `agent_runs` | `RunOnce`, `BottomUp`, `NothingDropped`, `NeverRevived`, `QueuedRunEnds`, `EndReported` | two nodes, a canceller and a client that retries and takes over |
| `agent_runs_cancel` | `CancelledStays` violated | see 3.2 |
| `agent_runs_tree` | `TreeCovered` violated | see 3.2 |
| `outbox` | `OneHolder`, `DeadLettersAgree`, `Accounted`, `IsDurableQueue`, `MessageSettles`, `RecoversAfterReconnect` | two responses, one sent twice, two workers; as a cluster and as a single process |
| `outbox_window` | `RecoversAfterReconnect` violated | see 3.2 |
| `session_turn` | `AbortHasReason`, `GuardsFit`, `IsConversation`, `TurnEnds` | two requests of a chat; commands, the emergency stop and the result of an approved tool at any point |
| `services` | `PoolAccounted`, `LockListAgrees`, `GuardsReturned`, `EffectOnce`, `AnsweredOnce`, `EachUpdateOnce`, `LanesInOrder`, `CopyFollowsLog`, `CompactionMarked`, `OrphansHaveCause`, `OwnAnswer`, `PooledIsCurrent`, `StorageBounded`, `FilesFollowRows` | the eight services of `MCServices` |
| `cli_exit` | `ExitReached` violated | see 3.2 |

The type invariants (`TypeOK` of the modules, `PoolTypeOK`, `CallTypeOK`, ...) are theorems
for all values of the constants, listed in section 4; the runs do not repeat them.
`LiveClaimOwnsRow` and `HistoryPaired` are theorems, too: `MutualExclusion` follows from the
first, and the second from `IsConversation`.

### 3.1 Bounds, and why they are enough

* Leases: `Ttl = 2` and three ticks give a claim that expires while it is
  held, a take-over and a late `Drop`; two callers with two stages compete for the
  second while each holds the first. One store error and one crash may come at any
  step.
* Scheduler: `MaxTime` is two or three ticks with `Lease` one or two, so that leases
  end and repeating jobs come due again; two lives per node give one crash and one
  restart; `ChanCap = 1` is the smallest channel, the one that blocks most (the code
  has 64); `MaxCalls` is two `manage_cron` calls; `Failing` says which calls of the
  store may fail (section 5); `TimeLeft` stops crashes and store errors when the clock
  is too near its end for leases to expire. `MaxRuns` caps the auxiliary counter of
  executions. `Orders` has the jobs that `manage_cron` may edit: the repeating job in
  `scheduler_node`, none in `scheduler_cluster`.
* Agent runs: two runs are a parent and a child, or a run and its retry; two
  workers compete; `Spare` keeps a fresh id for every operation that will insert a
  run; one fault at any step. The theorems have no such bounds.
* Outbox: two envelopes compete for the workers and for the list; two senders of one
  envelope race on its mark and its message; `MaxAttempts = 2` gives a failure that
  returns to the queue and one that does not, one replay of each message a second
  round. `Limit` is two, so that a list holds every failed delivery, and one in
  `outbox_window`, the code's 64 scaled to one delivery that cannot succeed.
* `SessionTurn`: two requests are one that holds the lock and one that waits;
  `MaxToolRounds = 1` has a round, the one too many and those of the second run;
  `MaxCalls = 2` a command between two calls; `MaxResumes = 1` one result of an approved
  tool, anywhere in the history; `MaxSteers = 2` an Abort behind a Pivot, a stop and an
  Abort. `SteerCap` is two, so that a full channel is not reached by two commands; the
  code then blocks the sender.
* `StorePool`: three threads and two places, so that one waits; one of them connects
  twice; one opening fails, also the first one, with the schema.
* `ToolCalls`: five calls, of which `MaxInFlight = 3` at once hold, wait and arrive;
  one request is given up (`MaxGiveUps`) at any await; each result may be forgotten once
  (`MaxForgets`); leases may always expire.
* `Approvals`: two askers, two asks (`MaxAsks`), so that a record is written over, a
  Telegram worker and a console that answer any number of times, one trouble
  (`MaxTroubles`): an end of a handle or an elevation, or a crash. A tool that is run
  is neither elevation nor domain and differs from an elevation only in what `Act`
  does, so `ToolNames` is empty.
* `TelegramIngress`: three updates, two workers, a queue and a window of one, so that
  both are full while an update comes again; one mishap (`MaxMishaps`).
* `CliGateway`: two sessions in two lanes of two places, three lines, one adapter.
* `SessionStore`: two processes, one of which has two tasks; `Window = 2` and
  `MaxMessages = 2` with the summaries and snapshots fill the window; `MaxUpkeep = 2`
  of everything else: reads, clears, snapshots, restarts and store errors. A read that
  triggers a compaction and a restart, a load with a store error, two compactions at
  once are among them. One write of the compaction's row is lost (`MaxUnwritten`).
  The lease of a compaction may expire at any time and is not counted.
  `KeepTurns` is one (the code's 2), so that there is something to remove.
* `McpPool`: a call, a setup, an import and a setup from another process; two faults
  (`MaxMcpFaults`), as the retry needs a second one to fail; two client identities are
  enough, as at most one client is built while another one is used. Where there is a fault,
  at most three of the four operations take part (`FaultsAmongThree` of `MCServices`); without
  one, all four do.
* `WebStorage`: three groups of three calls (`MCAsked`), of which two are at work at once
  (`MaxAtOnce`): two exports to one path and a restore; a start, a page and a crawl; two
  watches and a crawl. Every limit is one row, so that the second one has the policy remove
  something; one setback (`MaxSetbacks`).

`services` uses one symmetry: `one` and `two` are the names of the two requests that ask for
approvals, of the two calls of `run_shell` with one key and of the two tasks of one process, and
either pair differs in its names alone.

Deadlock is checked in all runs but `session_turn`, `services` and `cli_exit`: there
every request has ended, each service has reached its bound, or the process is gone.

### 3.2 Where the code and the repository's own statements disagree

1. `scheduler_twice`: a Once job runs twice when two workers poll without a
   leader. The documentation says the second skips it; the code claims with a copy
   it listed before the first worker claimed, ran and released the job.
2. `agent_runs_cancel`: a cancellation that falls between the worker's read and its
   upsert is overwritten with the outcome, after the requester was told otherwise.
3. `agent_runs_tree`: a cancellation lists the runs of the root's session only, yet
   a run's children live in the session its handler worked in.
4. `outbox_window`: a delivery whose recipient is back is not sent while older ones
   that cannot succeed fill the list; a test says it is.
5. `cli_exit`: the head of `main.rs` promises a graceful shutdown by the console; each
   lane worker holds a `Sender` of its own lane, so that the lane never closes, the main
   task waits for ever and the sessions are not saved.

Each is quoted with its lines in `PROJECT.json`, "findings".

Two more that no run reports. A repeating job that waits for approval is dispatched
again, although a test of the in-memory scheduler says it pauses: the store poller does
not look at the status of repeating jobs. `UserAborted` is documented as an abort "via
steering", and also results when a second message of the chat replaces the steering
channel while the first one's parallel calls run; `AbortHasReason` lists that case.

### 3.3 Fairness

* `ResourceLease`: weak fairness of each caller's steps, as Tokio polls a ready
  task again; none for `Begin`, `Cancel`, `Crash`, the errors or the clock.
* `Scheduler`: weak fairness of the loop and of the processor of each node, of
  booting (the machine is restarted; `MaxLives` bounds how often) and of the clock.
  None for the tool, crashes and errors.
* `AgentRuns`: weak fairness of each worker (its interval of two seconds keeps
  ticking, and every handler has a time limit) and of an operation that has been
  asked for. Nobody has to spawn, ask, fail or crash.
* `Outbox`: weak fairness of each node's worker, whose loop comes round every five
  seconds; none for senders, operators, recipients and faults.
* `SessionTurn`: weak fairness of each request's own steps (a model and a tool answer or
  run into their time limit, the mutex is fair); none for the user.
* `CliGateway`: weak fairness of the lanes' workers and of the main task's steps after
  the shutdown; none for the console.

Strong fairness is nowhere assumed. The services are checked for safety only.

## 4. Proofs

TLC checks small instances; the theorems hold for all values of the constants
under the named assumptions of each module.

### 4.1 ResourceLeaseProofs

`TypeCorrect`, `ClaimOwnsRow`, `Exclusion`, `LiveRowsUntouched`, for any callers,
processes, keys, slots, attempts, lease time and number of faults.

`MutualExclusion` is not inductive: two live claims on a key exclude each other
only because each is *the* row of the key. So the invariant is
`LiveClaimOwnsRow` with `Shape`: the types, `StagesInRange` (a claim's key is one of
its stage's), `ClaimsHeld` (a caller has a claim for each stage it went through)
and `NowBehind` (`now_us` is not ahead of the clock). `NowBehind` makes the expiry
test safe: an old time can only refuse a lease that has ended, never take one that
has not, and it can only give a shorter lease. `ClaimOwnsRow` and `Exclusion`
assume `DistinctHolders`; it is true of requests (their holder id has a fresh
request id) and of tool calls with an invocation id, not of calls without
(`"direct"`). The theorem names the assumption; `LiveRowsUntouched` does without.

### 4.2 AgentRunsProofs

`TypeCorrect`, `StartedOnce`, `EndIsFinal`, `LeavesBeforeRoot`, `NothingIsDropped`,
`SessionTreeWhole`, for any runs, workers, clients, roles and faults; the inductive invariant `Inv` has these parts
beside the types and `RunOnce`:

* `WorkOwned`: what a worker has in hand was claimed, its outcome is final, and at
  `"start"` the handler was not started; `WorkDistinct`: no two workers have one run;
  `NotBegun`: a run that is queued was not started. They need that nobody sets a
  claimed run back to Queued, which is the lemma `RowStep` (`RowsKept`): only the
  claim and the insertion of a fresh row concern queued rows, the blind upserts
  write final statuses only.
* `OpListed`, `LeavesFirst`: what an operation listed exists; what it is done with
  has ended, and nothing below that is left to do.

`RowStep` is proved once for all actions; `WorkerStep` and `ClientStep` say what a
step makes of a worker's job and of an operation (`Moved`, `OpMoved`), and
`WorkAfter`, `OpAfter` derive the invariant from that.

* `NothingIsDropped`: `DutyInv`. Until the first fault a Running run is in the hands of a
  worker (`RunningInHand`) and an end has somebody who tells it (`EndTold`). The two need
  each other and `StoredBeforeTold`: the worker that finds its run ended leaves the message
  to whoever ended it, and the cancellation that finds the run ended passes it by; that
  neither happens to both is a matter of the order in which row and message are written.
  It is the safety half of `QueuedRunEnds` and `EndReported`.
* `SessionTreeWhole` (`SessionTreeCovered`, which no run lists): a cancellation covers all
  descendants of its root if they have the root's session. `agent_runs_tree` shows that they
  need not.

### 4.3 OutboxProofs

`TypeCorrect`, `HolderUnique`, `DeadLettersRight`, `BoundedRetry`, `AckedForGood`, `WorksAsQueue`, for
any envelopes, senders, nodes, limits and faults, for clusters and single processes.
The queue's operations write by id and check little, so the parts of `Inv` need each
other:

* `Located`: a worker of a cluster is never where it could go on with a list, and
  whoever dispatches, marks or settles has an envelope;
* `HoldsClaim`: what a worker has in hand is Claimed by it. A replay cannot break it:
  `DeadLettersAgree` says that what is in the dead letters is not Claimed;
* `DeadLettersAgree` itself needs `HoldsClaim`: only a claimed message fails, so a
  second row is never added;
* `TriesTied` relates the rounds to `attempt_count`: equal or less where a message is
  Pending, one more where a worker has sent and not settled.

* `WorksAsQueue` is the refinement of `DurableQueue`, with any faults. A step moves one message
  at most: the lemmas named `...Queues` say for each operation which step of the abstract
  queue it is, or that it is none (`QueueStays`). A crash, or an error on the way to the
  settlement, is `Abandon`; no step of the code takes an abandoned message up again. What is
  acknowledged was delivered because of `OkReached`: a task that goes on with ok saw the
  transport take the text.

`RoundsBounded` and `AckIsFinal` are proved only: no run lists them.

`HeldKept` says that a step leaves the messages in other hands; `QuietStep` derives
the invariant for the steps that do not write the queue, `OthersAfter` for the
messages a queue operation does not write.

### 4.4 StorageProofs

*The connection pool.* `PoolTypes`, `PoolCounted`, for any threads, also infinitely many,
any maximum and any number of connections that cannot be opened. The counter is atomic but
not under the lock of the list, and it is lowered without a comparison; that it never
falls below 0 and never goes above the maximum needs, beside `PoolAccounted` itself:

* `Opening` is finite: whoever opens a connection has been counted;
* `RoomSeen`: a thread that tries the compare-exchange has seen the counter below the
  maximum, so that its success, which means that the counter still is what it saw, leaves
  it within the maximum.

`AccountMoves` (a reservation becomes a connection) and `AccountFalls` (it is given up) are
the two steps that change what the counter counts; `HandGains` and `HandLoses` say what
moves between the list and the threads' hands.

*The memory of a session.* `StoreTypes` and `CopiesFollowLog`, for any processes and writers,
any window and any number of messages, restarts and lost leases. What a log replays to is a
fold over its events. `ReplayAppend`, that the fold of a log with one event more is that
event applied to the fold of the shorter one, is proved by induction over the length, for sets
of numbers (`Induction`), from the library's theorem that the natural numbers are
well-founded. The invariant `StoreInv` has

* `StoreKnown`: the types, where each writer is and what it has in hand;
* `CopiesFollow`: a copy that is not `skewed` ends like the replay of the log up to its version
  or a later one, and is as long as the window or as all of it (`Covers`, `Follows`);
* `BasesFollow`: the same of what a writer has in hand to commit or has loaded (`Fits`). A commit
  compares only the
  version, so the copy it leaves is right only if its base was: a base whose events are of a
  later version is never committed, as the log has moved on, and what a load has read fits
  the version it read before (`LoadFollows`).

`MarksFit` and `OrphansCaused` are about compaction, which one task may be at in the
middle of a mutation with its retry. `CompactionSteps` says that each step of any writer leaves the
compactions as they are (`AsBefore`), begins one (`Begins`), ends one with its outcome
(`Ends`) or is a restart; the lease has no part in it. So the mark of a process is set
exactly while one of its tasks compacts the session, and only a restart, or a write of the row
that failed (`unwritten`), leaves a row that says Running with nobody behind it.

*What the web tools keep.* `WebTypes`, `TablesBounded` and `FilesAndRows`, for any calls, also
infinitely many, any files, maxima and setbacks, from `WebInv`. `KeptRows` says what the fold
`Kept` leaves of a sequence.

* `Bounded` is stronger than `StorageBounded`: a table is also within the limit when any of the
  calls that have listed it will have removed what they listed, and these calls no longer
  owe anything. A listing is made once and is old when it is carried out; that other calls
  remove or insert meanwhile is harmless because of this form only.
* `OwnersSettled`, `SharedFiles`: the call that made an artifact or a state has stored it and will
  not write its file again, and two rows, stored or about to be, that have one file of two
  calls are known to (`shared`). Without it a removal could take the file of a row that
  another call is about to insert.
* `RowsHaveFiles` and `FilesHaveRows` add to `FilesFollowRows` that a file is there before its
  row is inserted, and gone before its row is deleted.
* `DatesThere`: what is stored has a date, so that a listing by date misses no row. A row
  keeps it as nobody removes a row that its own call has not yet stored.

### 4.5 SchedulerProofs

`SchedulerTypes`, `NoLeasesLeft`, `ClaimsExclusive`, `OneNodeLifecycle`, `DispatchedIsHandled`,
for any nodes, jobs, orders, faults and lives. The types alone are not inductive: `Known` adds, for each
node, where the loop is (`LoopHas`), that a status and a question in the channel are about
the event being handled, and the status is first (`ChannelHas`), and that the processor
writes about that event (`ProcHas`).

* `NoLeasesLeft`: `LeaseInv`. While the store did not fail, a row of the worker is of a job
  it is claiming or of an event it still has to release.
* `ClaimsExclusive` has no hypothesis: it is about the jobs `manage_cron` is not asked to remove
  (`Lasting`, section 5), whatever becomes of the others. `HeldLease`: a claim that may be
  unexpired is the row of its job, as in 4.1; a removal of another job leaves that row.
* `DispatchedIsHandled`: `HandInv`, on one node until its first crash or store error. A job
  that reads Dispatched has its event in the loop's hand, and while the loop asks for the
  list, the report of that event is in the channel or with the processor (`Reported`), ahead
  of the question. The answer, which the loop writes back blindly, then never says
  Dispatched, and neither do the copies boot read. With a processor that answered ahead
  of the report the job would stay Dispatched for ever (the mutant `ReceiveAhead`).
* `OneNodeLifecycle` is the refinement of `OneShot`. It assumes one node, that the tool is
  asked about no Once job and that the read at boot does not fail; with any of them
  dropped the property is false (section 5, and `scheduler_twice`). `OnceInv` says that what
  the loop, the channel, the processor and the boot have read of a Once job is still so:
  a copy at `claim` is in the store, an event of it is its only one, an answer agrees with the
  table. The blind writes then write what is there, or the next phase; each step
  is one of `OnceMoves` (schedule, dispatch, run, settle) or leaves the phase (`OnceCalm`),
  and `MoveImplements` maps them to `OneShot`'s steps.

### 4.6 SessionTurnProofs

`TurnTypes`, `TurnsPaired`, `AbortsHaveReason`, `OneTurnAtATime`, `GuardsFitAlways`,
`TurnsConverse`, for any requests, contracts, rounds, calls, capacities, commands and results of
approved tools, from
`TurnInv`:

* `OwnerLocked`, `QueueWaits`: whoever works on the session owns its lock; whoever is in the
  queue waits, once. The lock is handed to the head of the queue, so neither holds alone.
* `LastIsOwn`: the last message of the history, but for the results of approved tools, is the one
  of the request at work, and
  `SaidSince`: what is said of a request was said at or after its place in the turn, so
  that nothing is said twice.
* `AbortTold`: an Abort in a channel has its user. `AbortHasReason` needs it as the command is
  read long after it was sent. That a closed channel reads as an Abort is no exception: the
  channel closes when a later request took its place (`steering`).

`GuardsFitAlways` adds that the permits and the lock fit the place of each request
(`GuardsFit`): every way out of `process_request`, of which there are many, gives back both,
and the lock that is given up goes to the first who waits. `TurnsConverse` is the
refinement of `Conversation`: each step is one of `Enter`, `Speak`, `Interject`, `GiveUp` and `TurnAway`, or
a stutter (`SpeaksInTurn`); that nobody speaks after it has given up the floor needs `GuardsFit`,
that an answer follows its question `LastIsOwn`.

The steps of the tool loop are first brought to one form, `LoopQuiet`: they work under the
lock, move one request and write nothing of the history; `SilentKept` proves the invariant
for all of them at once.

### 4.7 ToolCallsProofs

`CallTypes`, `LocksListed`, `EffectsOnce`, `GuardsComeBack` for any calls, agents, workspaces and give-ups,
from `CallInv`:

* `PermitOwner`, `QueueOfWaiters`: the permit's owner is the only call past the lock, and a
  queue has the calls that wait, each once;
* `HolderListed` ties the two counters and the name to the place of the owner, through
  the three steps of acquiring and of dropping the guard; `WaitersCounted`
  the waiting runs: never fewer than those that wait, and equal if none was dropped;
* `KeyOnce`: a key has taken effect once more than its result was forgotten only if a result is
  stored or its process runs, and a call about to act has looked when there was no result.

`GuardsComeBack` needs in addition that a queue has a holder to wait for (`QueueServed`) and that
a lease is with a call between its lookup and its effect (`LeaseInUse`): timeouts, busy leases
and dropped futures leave the queue, the permit and the lease in different steps.

`EffectsOnce` assumes that all calls with a key go through the lock of one workspace
(`Guarded`). Keys are scoped by the session and the tool (`tools.rs:686-694`), the
lock is chosen by the whitelist of the session's agent (`tools.rs:15541`); an approved call goes
past the lock, so a key that it shares with another call is not guarded. `GuardedKeysOnce`
says the same of the guarded keys alone and has no hypothesis.

*The MCP client.* `McpTypes`, `AnswersAreOwn` and `PooledClientCurrent`, for any operations of any
kind, under `FreshClient`: however the operations that use the pool hold clients, there is
one more, as a client that is built is a new object. The invariant `McpInv` has

* `OneBuilder`: only one operation builds a client, and the pool is empty meanwhile;
* `PipesClean`: nothing is unread in the pipe of a client unless its child outlived a read
  that was given up (`muddied`). Without it a first attempt may find an old answer;
* `ClientsKnow`: the client in the pool, and the one under construction, know the tables,
  or a change is announced or will be. The client that is built must be in it: a change
  that empties the pool waits for the builder, who may have read the tables before.

### 4.8 GatewayProofs

* `ServedInOrder`, from `LaneInv`: a lane has requests of its own sessions, in order
  (`LaneFilled`), and what was begun was typed before what waits (`ServedBefore`).
* `UpdatesOnce`, from `IngressInv`. `KeyedOnce`: one worker at most is past the table of keys
  with an update. `ReceivedAccounted`: whatever the keys, the window, the offset or the provider
  take for received is on its way or is accounted for; `BatchNext`: the batch goes on where
  the offset and the provider are, so that no update is skipped.
* `AskedOnceAnswered`, from `ApprovalInv`: `AsksCover` counts also the answers that are about
  to act, and `PagesCover` the decisions that are not yet used.

`CliTypes`, `IngressTypes` and `ApprovalTypes` are the types of the three modules.

`ServicesApart` says of `MCServices` that each of its behaviours is one of every service it is
made of (of the console without its fairness, as the run has none).

### 4.9 NoLeakedLease and Accounted

`NothingLeaked` (in `ResourceLeaseProofs`) needs to know which claims a caller has at each of its steps
(`ClaimsOnly`, the counterpart of `ClaimsHeld`) and that every row is claimed
while the store did not fail (`RowsClaimed`), or belongs to a caller whose process died; and
distinct holder ids.

`NoResponseLost` (in `OutboxProofs`) is about histories without faults, as `Accounted` is. `Whole` says
that what is recorded as sent or acknowledged did reach its recipient, that a
claimed message is in a hand, and that a response of a cluster that did not get through is
queued or on its way to the queue.

### 4.10 Only model-checked

Every invariant, action property and refinement that a passing run checks is a theorem.

Liveness (`CallReturns`, `LoopReturns`, `DueJobTaken`, `QueuedRunEnds`,
`EndReported`, `MessageSettles`, `RecoversAfterReconnect`, `TurnEnds`) is beyond the
prover, which knows nothing of fairness and `ENABLED`; TLC checks it on the instances.
What is proved of it is safety: `NothingDropped`, `DispatchedInHand`, `GuardsFit` and
`GuardsReturned` say that nobody is left waiting for, or owing, what nobody will give.

## 5. Limits of what is shown

* `MutualExclusion` is about unexpired claims: nobody renews a tool lease and no
  resource checks the fencing token, so a call that outlives its lease overlaps.
* `FollowsLifecycle` holds on one node, for jobs `manage_cron` does not edit and
  without an error of the read at boot (`Failing`). With them it does not: a late tool
  write sets a job back to Scheduled, and a failed read at boot takes the config file's
  jobs again. The repository makes no statement to the contrary, so no run reports it.
* `ClaimExclusive` is stated for jobs nobody removes (`Lasting`): a Remove clears the lease of
  whoever holds it.
* `DispatchedInHand` ends with the first crash, store error or second life of a node: nothing
  looks for a Once job that reads Dispatched and is in no loop's hand.
* A crash leaves an agent run Running for ever; `NothingDropped`, `QueuedRunEnds` and
  `EndReported` exempt executions with a fault.
* A crash, or an error of the settlement, leaves a message Claimed for ever
  (`Stranded`); `Accounted` and `MessageSettles` exempt it, and `IsDurableQueue` says that it
  stays so.
* Delivery is at least once: a worker of a cluster does not check the mark, and a
  mark may go from sent back to failed. No property says otherwise.
* WebSocket recipients are known to one process; `up` lets a recipient come and go
  between any two steps, so a message that another node claims may fail and end in
  the dead letters while its recipient is connected elsewhere.
* `IsConversation` is about the requests of one gateway. Each gateway has a map of session
  locks of its own (`gateway_runtime.rs:2759`, `bootstrap.rs:2253`): two gateways that
  serve one session would mix its turns.
* `IsConversation` allows one message between a question and its answer, the result of an
  approved tool: the handler of the approval appends it in the role of the user and without
  the session's lock (`gateway_runtime.rs:1859-1864`). The model of the other request then reads
  it as part of its own turn. When the append of a clarification fails, which nobody looks
  at (`tools.rs:15707-15709`), the answer stands without its question.
* `EffectOnce` exempts a key whose first call failed, timed out or was given up after it
  had begun: the cache is written at the end. It needs the workspace lock: an approved
  tool goes past it, which is why the approved call of the run has no key. And it counts one
  more effect for each result that was forgotten: the cache has a capacity and a time to live
  (`config.rs:1586-1589`, `1685-1688`), and a key that comes again after that takes effect again.
* `LockListAgrees` exempts the count of waiting runs once a waiter's future was dropped:
  it is never counted down again.
* `AnsweredOnce` exempts a record that changed between the read and the write of an answer
  (`raced`): two answers at the same time may both run the tool.
* `EachUpdateOnce` exempts what the full queue turned away, what a crash took and what was
  pruned: the offset moves on and the key is written before the update is processed.
* `CopyFollowsLog` exempts copies that `compact_session` changed or to which a summary was
  applied after the window had cut them (`skewed`): the log then removes other messages
  than the copy. And a copy may be newer than its version says: `load_session` reads the version
  and the events in two statements (`persistence.rs:228-249`), and an append may fall between
  them. The next mutation from such a copy meets a conflict and loads again, the next
  read refreshes it; until then the version is wrong and the history is not.
* `OwnAnswer` exempts a child that outlived a failed second attempt or initialisation
  (`muddied`): the late answer is taken by the next request, as the transport accepts any
  response.
* `PooledIsCurrent` exempts a change that ended half way or was made by another process.
* `StorageBounded` counts setbacks: a call that fails between its row and the policy leaves
  the row to the next call. The policy sums the sizes of files first and reads each again
  when it removes it; when other calls have removed files meanwhile, or two rows have one
  file, the sum stays above the limit until no row is left, and `remove(0)` then panics. In
  the model all rows going, and the call ending, are among the choices.
* `FilesFollowRows` exempts paths that two calls wrote: all exports of a browser session go to
  `<browser_session_id>.enc.json`, and pruning the older row removes the file of the newer.
  A restore also writes a row again whose file was pruned meanwhile (`bare`).
* No liveness is stated of `StorePool`: a wakeup may be lost between the pop and the wait,
  until the next connection is given back, and threads that each need a second connection
  may wait for one another.
* A compaction state Running with nobody at it blocks compaction for ever; nothing in the
  repository promises otherwise. A restart leaves one, and so does a final write of the row whose
  error is dropped (`tools.rs:12707`, `12721`, `12735`). `OrphansHaveCause` says that nothing else
  does.
* `NoLeakedLease`, `NoLeakedJobLease` and `Accounted` are about executions in which no call of the
  store failed: what an ignored error leaves behind ends with its lease, or is lost.

## 6. Not modelled

* The webhooks and sockets of WhatsApp, WebSocket and the other adapters: they convert a
  payload and call `process_request`; what follows is `SessionTurn`.
* `LlmBackendPool`'s circuit breaker: shared, but a circuit closed too early only costs one
  failed request.
* Drivers of browsers, computers and robots: their state is outside the program. The records of
  their sessions, logins, challenges and audits are written by the call that changed them.
* The vector, keyword and page indexes, prompts, router, context planner: data.
* The terminal UI, operator commands, configuration and start-up checks: formatting and
  inspection of tables the modules have.
* Cedar, firewall, vault, Wasm, mesh: wrappers of libraries, whose decisions are free
  choices in the modules.
* Single-statement tables no other protocol depends on.

## 7. Plan

Done: the inventory; the modules of section 2; the proofs of section 4, which cover the safety
properties of all passing runs.

Possible next steps:

1. `EffectsOnce` for approved calls with a key of their own, and `DispatchedIsHandled` for
   several nodes with one leader.
2. Two gateways that serve one session, with a map of locks each (section 5).
3. The hazard no property covers: the pool's lost wakeup (`runtime_store/connection.rs:140`).
4. The back ends that are wrappers or data here (section 6), where they come to keep state that
   several tasks share.
