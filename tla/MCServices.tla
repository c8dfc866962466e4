----------------------------- MODULE MCServices -----------------------------
(***************************************************************************)
(* The services of one process that share no variable, in one run: the      *)
(* first state says which of them moves, and the others stay as they are.   *)
(* The states of the run are those of the small instances of each, one      *)
(* after the other.                                                         *)
(***************************************************************************)
EXTENDS TLC, StorePool, ToolCalls, Approvals, TelegramIngress, CliGateway, SessionStore, McpPool,
        WebStorage

CONSTANTS one, two   (* that ask for an approval, call run_shell, or write to memory *)

VARIABLE part

(* Two calls of run_shell with one idempotency key, the same command by an  *)
(* approval, a write_file and a call of another executor; the shells share  *)
(* a lease, and all of them a workspace.                                    *)
MCCalls == {one, two, "approved", "file", "other"}
MCToolOf == [c \in MCCalls |-> IF c \in {one, two} THEN "shell" ELSE c]
MCWorkspaceOf == [c \in MCCalls |-> "ws"]
MCResourceOf == [c \in MCCalls |-> IF c = "file" THEN "path" ELSE "proc"]
MCKeyOf == [c \in MCCalls |-> IF c \in {one, two} THEN "key" ELSE None]

(* Two sessions in two lanes.                                               *)
MCLaneOfKey == [session \in {"a", "b"} |-> IF session = "a" THEN "lane1" ELSE "lane2"]

(* Two tasks of one process and one of another.                             *)
MCWriters == {one, two, "apart"}
MCNodeOf == [w \in MCWriters |-> IF w = "apart" THEN "n2" ELSE "n1"]

(* A call of an MCP tool while the server is set up by a tool, an import is *)
(* made and the command line of another process sets it up again.           *)
MCKindOf == [q \in {"call", "setup", "import", "cli"} |-> IF q = "call" THEN "invoke" ELSE q]

(* Bound: where something fails, no more than three of them take part.      *)
FaultsAmongThree == mcpFaults' = 0 \/ \E q \in McpOps : mcpPc'[q] = "start"

(* Two exports of one browser session go to one path while a state is       *)
(* restored; pages and a crawl store artifacts; watches meet their limit.   *)
MCWebTool ==
  [c \in {"save1", "save2", "restore", "start", "page", "crawl", "watch1", "watch2"} |->
     CASE c \in {"save1", "save2"} -> "persist"
       [] c = "page" -> "capture"
       [] c \in {"watch1", "watch2"} -> "watch"
       [] OTHER -> c]
MCWebCalls == DOMAIN MCWebTool
MCFileOf == [c \in MCWebCalls |-> IF c = "save2" THEN "save1" ELSE c]
MCAsked ==
  {{}, {"save1", "save2", "restore"}, {"start", "page", "crawl"}, {"watch1", "watch2", "crawl"}}
MCKeep == [t \in ToSet(Tables) |-> 1]

(* Two requests that ask, two calls of run_shell and two tasks of a process *)
(* differ in nothing but their names.                                       *)
Interchangeable == Permutations({one, two})

Parts == {"pool", "calls", "approvals", "ingress", "cli", "memory", "mcp", "web"}

Init ==
  /\ part \in Parts
  /\ PoolInit /\ CallInit /\ ApprovalInit /\ IngressInit /\ CliInit /\ StoreInit /\ McpInit
  /\ WebInit
  /\ part # "cli" => loop = "reading"
  /\ part # "web" => \A c \in WebCalls : webPc[c] = "end"

Next ==
  \/ /\ part = "pool" /\ PoolNext
     /\ UNCHANGED <<part, callVars, approvalVars, ingressVars, cliVars, storeVars, mcpVars, webVars>>
  \/ /\ part = "calls" /\ CallNext
     /\ UNCHANGED <<part, poolVars, approvalVars, ingressVars, cliVars, storeVars, mcpVars, webVars>>
  \/ /\ part = "approvals" /\ ApprovalNext
     /\ UNCHANGED <<part, poolVars, callVars, ingressVars, cliVars, storeVars, mcpVars, webVars>>
  \/ /\ part = "ingress" /\ IngressNext
     /\ UNCHANGED <<part, poolVars, callVars, approvalVars, cliVars, storeVars, mcpVars, webVars>>
  \/ /\ part = "cli" /\ ServeNext
     /\ UNCHANGED <<part, poolVars, callVars, approvalVars, ingressVars, storeVars, mcpVars, webVars>>
  \/ /\ part = "memory" /\ StoreNext
     /\ UNCHANGED <<part, poolVars, callVars, approvalVars, ingressVars, cliVars, mcpVars, webVars>>
  \/ /\ part = "mcp" /\ McpNext /\ FaultsAmongThree
     /\ UNCHANGED <<part, poolVars, callVars, approvalVars, ingressVars, cliVars, storeVars, webVars>>
  \/ /\ part = "web" /\ WebNext
     /\ UNCHANGED <<part, poolVars, callVars, approvalVars, ingressVars, cliVars, storeVars, mcpVars>>

Spec ==
  Init /\ [][Next]_<<part, poolVars, callVars, approvalVars, ingressVars, cliVars, storeVars,
                     mcpVars, webVars>>
=============================================================================
