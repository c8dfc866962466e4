------------------------------ MODULE McpPool ------------------------------
(***************************************************************************)
(* The client of one MCP server (stdio) that the calls of a process share:  *)
(* the pool that builds it from the imports in the store and that a change  *)
(* of the imports empties, the child process behind it, and the requests    *)
(* written to its pipe.  A request whose answer nobody read leaves that     *)
(* answer to whoever reads next.                                            *)
(***************************************************************************)
EXTENDS Absence, Naturals, Sequences

CONSTANTS
  McpOps,       (* calls of an MCP tool, and commands that change imports    *)
  KindOf,       (* of an operation: one of McpKinds                          *)
  McpClients,   (* identities of clients                                     *)
  MaxMcpFaults  (* bound: reads given up, pipes closed, writes that fail     *)

(* setup: setup_chrome_devtools_mcp, a registration and then a sync; cli:   *)
(* the same by `hiveclaw setup`, in a process and with a client of its own. *)
McpKinds == {"invoke", "register", "import", "sync", "setup", "cli"}

ASSUME McpAssumption == KindOf \in [McpOps -> McpKinds] /\ MaxMcpFaults \in Nat

(* Those that ask the pool for a client.                                    *)
PoolOps == {q \in McpOps : KindOf[q] \in {"invoke", "sync", "setup"}}

(* A client that is built is a new object: however the operations hold      *)
(* clients, there is one that none of them holds for one that holds none.   *)
ASSUME FreshClient ==
  /\ None \notin McpOps \cup McpClients
  /\ \A held \in [PoolOps -> McpClients \cup {None}] :
       (\E q \in PoolOps : held[q] = None) =>
         \E c \in McpClients : \A q \in PoolOps : held[q] # c

VARIABLES
  imports,      (* writes to mcp_imports so far: a version                   *)
  serverRow,    (* of mcp_servers: "none", "on" or "off" (enabled)           *)
  pooled,       (* the client in the pool, or None                           *)
  building,     (* the operation that builds one under the lock of the pool  *)
  registry,     (* of a client: the tables when it was built                *)
  opened,       (* clients with a session                                    *)
  child,        (* clients with a child process                              *)
  unread,       (* requests sent to the child whose answer nobody has read   *)
  clientOf,     (* the client an operation has got from the pool             *)
  mcpPc,
  toWrite,      (* of imports, still to do                                   *)
  got,          (* whose answer an operation took for its own                *)
  muddied,      (* history: clients whose child outlived a read given up     *)
  unannounced,  (* history: a change whose operation did not empty the pool  *)
  mcpFaults

mcpVars == <<imports, serverRow, pooled, building, registry, opened, child, unread,
             clientOf, mcpPc, toWrite, got, muddied, unannounced, mcpFaults>>
mcpTables == <<imports, serverRow, unannounced>>
clientPool == <<pooled, building, registry>>
pipes == <<opened, child, unread, muddied>>

McpPcs == {"start", "pool", "build", "wait", "init", "call", "again", "retry",
           "write", "refresh", "drop", "done", "failed"}
Requests == McpOps \X {"init", "call"}
Holds(c) == {q \in McpOps : clientOf[q] = c /\ mcpPc[q] \in {"init", "call", "again", "retry"}}

McpTypeOK ==
  /\ imports \in Nat /\ serverRow \in {"none", "on", "off"}
  /\ pooled \in McpClients \cup {None}
  /\ building \in McpOps \cup {None}
  /\ registry \in [McpClients -> [imports : Nat, row : {"none", "on", "off"}]]
  /\ opened \subseteq McpClients /\ child \subseteq McpClients
  /\ unread \in [McpClients -> Seq(Requests)]
  /\ \A c \in McpClients \ child : unread[c] = <<>>
  /\ clientOf \in [McpOps -> McpClients \cup {None}]
  /\ mcpPc \in [McpOps -> McpPcs]
  /\ toWrite \in [McpOps -> 0..3]
  /\ got \in [McpOps -> {"none", "unasked", "own", "other", "stale"}]
  /\ muddied \subseteq McpClients
  /\ unannounced \in BOOLEAN
  /\ mcpFaults \in 0..MaxMcpFaults

McpInit ==
  /\ imports = 0 /\ serverRow = "none" /\ unannounced = FALSE
  /\ pooled = None /\ building = None
  /\ registry = [c \in McpClients |-> [imports |-> 0, row |-> "none"]]
  /\ opened = {} /\ child = {} /\ muddied = {}
  /\ unread = [c \in McpClients |-> <<>>]
  /\ clientOf = [q \in McpOps |-> None]
  /\ mcpPc = [q \in McpOps |-> "start"]
  /\ toWrite = [q \in McpOps |-> 0]
  /\ got = [q \in McpOps |-> "none"]
  /\ mcpFaults = 0

-----------------------------------------------------------------------------
McpGoto(q, pc) == mcpPc' = [mcpPc EXCEPT ![q] = pc]

(* The client's lock is released.                                           *)
Leave(q, pc) ==
  /\ McpGoto(q, pc)
  /\ clientOf' = [clientOf EXCEPT ![q] = None]

(* ensure_mcp_server_exists goes before an import and a sync.               *)
Start(q) ==
  /\ mcpPc[q] = "start"
  /\ LET first == CASE KindOf[q] = "invoke" -> "pool"
                    [] KindOf[q] \in {"register", "setup", "cli"} -> "write"
                    [] serverRow # "on" -> "failed"
                    [] KindOf[q] = "import" -> "write"
                    [] OTHER -> "pool"
     IN McpGoto(q, first)
  /\ toWrite' = [toWrite EXCEPT ![q] = IF KindOf[q] = "import" THEN 1 ELSE 0]
  /\ UNCHANGED <<mcpTables, clientPool, pipes, clientOf, got, mcpFaults>>

(* pooled_mcp_client: under the lock of the pool, the client it holds, or a *)
(* new one.                                                                 *)
Fetch(q) ==
  /\ mcpPc[q] = "pool" /\ building = None
  /\ IF pooled # None
     THEN /\ clientOf' = [clientOf EXCEPT ![q] = pooled]
          /\ McpGoto(q, "wait")
          /\ UNCHANGED building
     ELSE building' = q /\ McpGoto(q, "build") /\ UNCHANGED clientOf
  /\ UNCHANGED <<mcpTables, pooled, registry, pipes, toWrite, got, mcpFaults>>

(* load_mcp_registry_from_store: import_tool refuses an import of a server  *)
(* that is disabled, and with it every call fails.                          *)
Loadable == serverRow = "off" => imports = 0

(* build_mcp_client reads the tables, then the client goes into the pool:   *)
(* a change may be written between the two.                                 *)
Build(q) ==
  /\ mcpPc[q] = "build" /\ clientOf[q] = None
  /\ IF Loadable
     THEN LET c == CHOOSE c \in McpClients : c # pooled /\ \A p \in McpOps : clientOf[p] # c IN
            /\ clientOf' = [clientOf EXCEPT ![q] = c]
            /\ registry' = [registry EXCEPT ![c] = [imports |-> imports, row |-> serverRow]]
            /\ opened' = opened \ {c} /\ child' = child \ {c} /\ muddied' = muddied \ {c}
            /\ unread' = [unread EXCEPT ![c] = <<>>]
            /\ UNCHANGED <<building, mcpPc>>
     ELSE building' = None /\ McpGoto(q, "failed") /\ UNCHANGED <<clientOf, registry, pipes>>
  /\ UNCHANGED <<mcpTables, pooled, toWrite, got, mcpFaults>>

Insert(q) ==
  /\ mcpPc[q] = "build" /\ clientOf[q] # None
  /\ pooled' = clientOf[q] /\ building' = None
  /\ McpGoto(q, "wait")
  /\ UNCHANGED <<mcpTables, registry, pipes, clientOf, toWrite, got, mcpFaults>>

(* The client's lock: one operation at a time.  A tool that the registry    *)
(* does not hold is refused, and so is a session with a server that is      *)
(* unknown or disabled.                                                     *)
EnterClient(q) ==
  /\ mcpPc[q] = "wait"
  /\ LET c == clientOf[q] IN
       /\ Holds(c) = {}
       /\ CASE KindOf[q] = "invoke" /\ registry[c].imports = 0 -> Leave(q, "failed")
            [] c \in opened -> McpGoto(q, "call") /\ UNCHANGED clientOf
            [] registry[c].row # "on" -> Leave(q, "failed")
            [] OTHER -> McpGoto(q, "init") /\ UNCHANGED clientOf
  /\ UNCHANGED <<mcpTables, clientPool, pipes, toWrite, got, mcpFaults>>

(* invoke_raw that gets an answer.  It is the first one in the pipe: a      *)
(* response that names another request is taken as well.                    *)
Answered(c, request) ==
  /\ child' = child \cup {c}
  /\ unread' = [unread EXCEPT ![c] = Tail(Append(@, request))]
FirstInPipe(c, request) == Head(Append(unread[c], request))

(* invoke_raw that fails: 64 lines that are no answer, and the child stays; *)
(* a closed pipe, and it goes; no process to start, or a write that fails.  *)
Unanswered(c, request) ==
  \/ /\ child' = child \cup {c} /\ muddied' = muddied \cup {c}
     /\ unread' = [unread EXCEPT ![c] = Append(@, request)]
  \/ /\ child' = child \ {c} /\ muddied' = muddied \ {c}
     /\ unread' = [unread EXCEPT ![c] = <<>>]
  \/ UNCHANGED <<child, muddied, unread>>

McpFault == mcpFaults < MaxMcpFaults /\ mcpFaults' = mcpFaults + 1

(* open_session, by ensure_session.                                         *)
OpenSession(q) ==
  /\ mcpPc[q] = "init"
  /\ LET c == clientOf[q] IN
       \/ /\ Answered(c, <<q, "init">>)
          /\ opened' = opened \cup {c}
          /\ McpGoto(q, "call")
          /\ UNCHANGED <<muddied, clientOf, mcpFaults>>
       \/ /\ McpFault /\ Unanswered(c, <<q, "init">>)
          /\ Leave(q, "failed")
          /\ UNCHANGED opened
  /\ UNCHANGED <<mcpTables, clientPool, toWrite, got>>

(* session_supports_primitive: a call of what the server does not advertise *)
(* is refused, a page of it is empty.                                       *)
Unsupported(q) ==
  /\ mcpPc[q] = "call"
  /\ \/ KindOf[q] = "invoke" /\ Leave(q, "failed") /\ UNCHANGED <<toWrite, got>>
     \/ /\ KindOf[q] # "invoke" /\ Leave(q, "write")
        /\ toWrite' = [toWrite EXCEPT ![q] = 3]
        /\ got' = [got EXCEPT ![q] = IF @ = "none" THEN "unasked" ELSE @]
  /\ UNCHANGED <<mcpTables, clientPool, pipes, mcpFaults>>

(* The answer of invoke_jsonrpc.  A discovery asks for page after page and  *)
(* then has the imports to write, unless a page is an error.                *)
TakeAnswer(q) ==
  LET c == clientOf[q]
      whose == FirstInPipe(c, <<q, "call">>)
  IN /\ Answered(c, <<q, "call">>)
     /\ got' = [got EXCEPT ![q] = IF whose = <<q, "call">> THEN "own"
                                  ELSE IF c \in muddied THEN "stale" ELSE "other"]
     /\ \/ KindOf[q] = "invoke" /\ Leave(q, "done") /\ UNCHANGED toWrite
        \/ KindOf[q] # "invoke" /\ Leave(q, "failed") /\ UNCHANGED toWrite
        \/ KindOf[q] # "invoke" /\ McpGoto(q, "call") /\ UNCHANGED <<clientOf, toWrite>>
        \/ /\ KindOf[q] # "invoke" /\ Leave(q, "write")
           /\ toWrite' = [toWrite EXCEPT ![q] = 3]
     /\ UNCHANGED <<opened, muddied, mcpFaults>>

(* Mutant: the child is kept after a read that was given up.                *)
KeepProcess(c, request) ==
  /\ child' = child \cup {c}
  /\ unread' = [unread EXCEPT ![c] = Append(@, request)]
  /\ UNCHANGED muddied

(* remove_process: the pipe goes with whatever is in it.                    *)
RemoveProcess(c, request) ==
  /\ child' = child \ {c} /\ muddied' = muddied \ {c}
  /\ unread' = [unread EXCEPT ![c] = <<>>]

(* The first attempt: whatever goes wrong, the child is removed.            *)
FirstAttempt(q) ==
  /\ mcpPc[q] = "call"
  /\ \/ TakeAnswer(q)
     \/ /\ McpFault /\ RemoveProcess(clientOf[q], <<q, "call">>)
        /\ McpGoto(q, "again")
        /\ UNCHANGED <<opened, clientOf, toWrite, got>>
  /\ UNCHANGED <<mcpTables, clientPool>>

(* A new child is initialised; how that went is not looked at.              *)
Reinitialise(q) ==
  /\ mcpPc[q] = "again"
  /\ LET c == clientOf[q] IN
       \/ Answered(c, <<q, "init">>) /\ UNCHANGED <<muddied, mcpFaults>>
       \/ McpFault /\ Unanswered(c, <<q, "init">>)
  /\ McpGoto(q, "retry")
  /\ UNCHANGED <<mcpTables, clientPool, opened, clientOf, toWrite, got>>

(* The second attempt, with the same request.  Its failure leaves the child *)
(* where it is.                                                             *)
SecondAttempt(q) ==
  /\ mcpPc[q] = "retry"
  /\ \/ TakeAnswer(q)
     \/ /\ McpFault /\ Unanswered(clientOf[q], <<q, "call">>)
        /\ Leave(q, "failed")
        /\ UNCHANGED <<opened, toWrite, got>>
  /\ UNCHANGED <<mcpTables, clientPool>>

-----------------------------------------------------------------------------
(* upsert_mcp_server.                                                       *)
RegisterServer(q) ==
  /\ mcpPc[q] = "write" /\ toWrite[q] = 0
  /\ \E row \in IF KindOf[q] = "cli" THEN {"on"} ELSE {"on", "off"} : serverRow' = row
  /\ IF KindOf[q] = "cli"
     THEN /\ unannounced' = TRUE
          /\ toWrite' = [toWrite EXCEPT ![q] = 3]
          /\ UNCHANGED mcpPc
     ELSE McpGoto(q, "drop") /\ UNCHANGED <<unannounced, toWrite>>
  /\ UNCHANGED <<imports, clientPool, pipes, clientOf, got, mcpFaults>>

(* One import, or in a sync the tools, the prompts, the resources.          *)
WriteImports(q) ==
  /\ mcpPc[q] = "write" /\ toWrite[q] > 0
  /\ imports' = imports + 1
  /\ toWrite' = [toWrite EXCEPT ![q] = @ - 1]
  /\ IF toWrite[q] = 1 THEN McpGoto(q, "refresh") ELSE UNCHANGED mcpPc
  /\ unannounced' = (unannounced \/ KindOf[q] = "cli")
  /\ UNCHANGED <<serverRow, clientPool, pipes, clientOf, got, mcpFaults>>

(* refresh_mcp_import_cache.                                                *)
RefreshCache(q) ==
  /\ mcpPc[q] = "refresh"
  /\ McpGoto(q, IF KindOf[q] = "cli" THEN "done" ELSE "drop")
  /\ UNCHANGED <<mcpTables, clientPool, pipes, clientOf, toWrite, got, mcpFaults>>

(* Operations that have changed the tables and not yet emptied the pool.    *)
Changed == {q \in McpOps :
  mcpPc[q] \in {"refresh", "drop"}
    \/ (mcpPc[q] = "write" /\ toWrite[q] \in 1..2 /\ KindOf[q] # "import")}

(* An error of the store returns at once: the pool is left as it is.        *)
ChangeFails(q) ==
  /\ mcpPc[q] \in {"write", "refresh"}
  /\ McpFault
  /\ unannounced' = (unannounced \/ q \in Changed)
  /\ McpGoto(q, "failed")
  /\ UNCHANGED <<imports, serverRow, clientPool, pipes, clientOf, toWrite, got>>

(* Mutant: the pool is emptied without its lock.                            *)
DropUnlocked(q) == pooled' = None

(* invalidate_pooled_mcp_client waits for the lock, hence for whoever builds *)
(* a client.                                                                *)
EmptyPool(q) == building = None /\ pooled' = None

DropClient(q) ==
  /\ mcpPc[q] = "drop"
  /\ EmptyPool(q)
  /\ unannounced' = FALSE
  /\ McpGoto(q, IF KindOf[q] = "setup" /\ got[q] = "none" THEN "pool" ELSE "done")
  /\ UNCHANGED <<imports, serverRow, building, registry, pipes, clientOf, toWrite, got, mcpFaults>>

McpNext == \E q \in McpOps :
  \/ Start(q) \/ Fetch(q) \/ Build(q) \/ Insert(q) \/ EnterClient(q)
  \/ OpenSession(q) \/ Unsupported(q) \/ FirstAttempt(q) \/ Reinitialise(q) \/ SecondAttempt(q)
  \/ RegisterServer(q) \/ WriteImports(q) \/ RefreshCache(q) \/ ChangeFails(q) \/ DropClient(q)

McpSpec == McpInit /\ [][McpNext]_mcpVars

-----------------------------------------------------------------------------
(* A call returns the answer of its own request, whatever else went through *)
(* the pipe: the transport takes the first response there is, so this hangs *)
(* on the child being removed after a failed attempt.  A child that outlives *)
(* a second failed attempt, or a failed initialise, is the exception.       *)
OwnAnswer == \A q \in McpOps : got[q] # "other"

(* The client in the pool knows the tables as they are, unless a change is  *)
(* on its way to empty the pool, or one ended without (an error half way,   *)
(* the command line of another process).                                    *)
PooledIsCurrent ==
  pooled # None =>
    \/ registry[pooled] = [imports |-> imports, row |-> serverRow]
    \/ unannounced
    \/ Changed # {}
=============================================================================
