----------------------------- MODULE WebStorage -----------------------------
(***************************************************************************)
(* What the web tools keep: artifacts and exported browser states, each a   *)
(* row and a file, and the rows of crawl jobs, watch jobs and website       *)
(* memory.  A call writes the file, waits for checks and inserts the row;   *)
(* then enforce_web_storage_policy lists the tables one after the other and *)
(* removes the oldest files and rows of each.  The tables belong to all     *)
(* sessions, so calls of any of them may be at any point of this at once.   *)
(***************************************************************************)
EXTENDS Naturals, FiniteSets, SequencesExt

CONSTANTS
  WebCalls,
  WebTool,      (* call -> its tool                                          *)
  Asked,        (* the sets of calls that may be asked for together          *)
  FileOf,       (* call -> the storage_path it writes.  A state is written   *)
                (* to the name of its browser session, a download to the     *)
                (* name it has, so that two calls may write one path         *)
  Keep,         (* table -> the maximum count of the policy                  *)
  WatchLimit,   (* watch_max_jobs_per_agent                                  *)
  MaxAtOnce,    (* bound: calls at work                                      *)
  MaxSetbacks   (* bound: errors, calls given up                             *)

(* In the order in which the policy goes through them.                      *)
Tables == <<"artifact", "state", "crawl", "watch", "memory">>

(* A capture is a snapshot, a screenshot, a download or an extract.         *)
Capturing == {"start", "capture"}

ASSUME WebAssumption ==
  /\ WebTool \in [WebCalls -> Capturing \cup {"persist", "restore", "crawl", "watch"}]
  /\ Asked \subseteq SUBSET WebCalls
  /\ DOMAIN FileOf = WebCalls
  /\ Keep \in [ToSet(Tables) -> Nat]
  /\ {WatchLimit, MaxAtOnce, MaxSetbacks} \subseteq Nat

VARIABLES
  stored,     (* the rows <<table, call>> there are                          *)
  dates,      (* rows, the oldest first                                      *)
  disk,       (* the files there are                                         *)
  webPc,
  row,        (* the row a call stores, or has read                          *)
  sweepAt,    (* the table the policy is at                                  *)
  doomed,     (* rows the policy has listed and not yet removed              *)
  whenSwept,  (* what a call does when the policy is through                 *)
  shared,     (* files that two calls wrote                                  *)
  strays,     (* files a setback left behind                                 *)
  bare,       (* rows a setback or a restore left without their file         *)
  setbacks

webVars ==
  <<stored, dates, disk, webPc, row, sweepAt, doomed, whenSwept, shared, strays, bare, setbacks>>

Rows == ToSet(Tables) \X WebCalls
Filed(r) == r[1] \in {"artifact", "state"}
File(r) == FileOf[r[2]]
Files == {FileOf[c] : c \in WebCalls}
WebPcs == {"idle", "write", "check", "insert", "read", "bridge", "list", "unlink", "delete",
           "pages", "remember", "end"}
AtWork == {c \in WebCalls : webPc[c] \notin {"idle", "end"}}
Sweeping(c) == webPc[c] \in {"list", "unlink", "delete"}
HomeOf(c) ==
  <<CASE WebTool[c] \in Capturing -> "artifact"
      [] WebTool[c] \in {"persist", "restore"} -> "state"
      [] OTHER -> WebTool[c], c>>

WebTypeOK ==
  /\ stored \subseteq Rows
  /\ dates \in Seq(Rows) /\ IsInjective(dates)
  /\ disk \subseteq Files
  /\ webPc \in [WebCalls -> WebPcs]
  /\ row \in [WebCalls -> Rows]
  /\ sweepAt \in [WebCalls -> DOMAIN Tables]
  /\ \A c \in WebCalls : doomed[c] \in Seq(Rows)
  /\ whenSwept \in [WebCalls -> {"end", "pages", "remember", "write"}]
  /\ shared \cup strays \subseteq Files /\ bare \subseteq Rows
  /\ setbacks \in 0..MaxSetbacks

WebInit ==
  /\ stored = {} /\ dates = <<>> /\ disk = {}
  /\ \E asked \in Asked : webPc = [c \in WebCalls |-> IF c \in asked THEN "idle" ELSE "end"]
  /\ row = [c \in WebCalls |-> HomeOf(c)]
  /\ sweepAt = [c \in WebCalls |-> 1]
  /\ doomed = [c \in WebCalls |-> <<>>]
  /\ whenSwept = [c \in WebCalls |-> "end"]
  /\ shared = {} /\ strays = {} /\ bare = {}
  /\ setbacks = 0

-----------------------------------------------------------------------------
WebGoto(c, pc) == webPc' = [webPc EXCEPT ![c] = pc]
InTable(t, r) == r[1] = t
(* The rows of a sequence that are in S, as they follow each other there: a *)
(* fold, because the provers know nothing of SelectSeq.                     *)
Kept(s, S) == FoldLeft(LAMBDA kept, r : IF r \in S THEN Append(kept, r) ELSE kept, <<>>, s)
Dated(r) == Append(Kept(dates, Rows \ {r}), r)
(* The rows of a table, the oldest first.                                   *)
Listed(t) == Kept(dates, {r \in stored : InTable(t, r)})

(* A row is written, new or again, and the policy enforced; what comes next *)
(* is said by then.                                                         *)
Store(c, r, then) ==
  /\ stored' = stored \cup {r}
  /\ row' = [row EXCEPT ![c] = r]
  /\ sweepAt' = [sweepAt EXCEPT ![c] = 1]
  /\ whenSwept' = [whenSwept EXCEPT ![c] = then]
  /\ WebGoto(c, "list")

StartCall(c, pc) ==
  /\ webPc[c] = "idle" /\ Cardinality(AtWork) < MaxAtOnce
  /\ WebGoto(c, pc)
  /\ UNCHANGED <<stored, disk, sweepAt, doomed, whenSwept, shared, strays, bare, setbacks>>

(* A page is to be captured, or the state of a browser session exported.    *)
BeginCapture(c) ==
  /\ WebTool[c] \in Capturing \ {"start"}
  /\ StartCall(c, "write") /\ UNCHANGED <<dates, row>>

BeginPersist(c) ==
  /\ WebTool[c] = "persist"
  /\ StartCall(c, "write") /\ UNCHANGED <<dates, row>>

(* browser_session_start makes its artifact before it writes the file.      *)
BeginStart(c) ==
  /\ WebTool[c] = "start"
  /\ StartCall(c, "write") /\ dates' = Dated(row[c]) /\ UNCHANGED row

(* The latest state of the profile is picked, if there is one.              *)
BeginRestore(c) ==
  /\ WebTool[c] = "restore"
  /\ IF Listed("state") = <<>>
     THEN StartCall(c, "end") /\ UNCHANGED row
     ELSE StartCall(c, "read") /\ row' = [row EXCEPT ![c] = Last(Listed("state"))]
  /\ UNCHANGED dates

BeginCrawl(c) ==
  /\ WebTool[c] = "crawl"
  /\ StartCall(c, "insert") /\ UNCHANGED <<dates, row>>

(* enforce_watch_job_rate_limits counts the jobs before the row is written. *)
BeginWatch(c) ==
  /\ WebTool[c] = "watch"
  /\ StartCall(c, IF Len(Listed("watch")) < WatchLimit THEN "insert" ELSE "end")
  /\ UNCHANGED <<dates, row>>

Begin(c) ==
  BeginCapture(c) \/ BeginPersist(c) \/ BeginStart(c) \/ BeginRestore(c) \/ BeginCrawl(c)
  \/ BeginWatch(c)

PutFile(c) ==
  /\ disk' = disk \cup {FileOf[c]}
  /\ shared' = IF \E d \in WebCalls \ {c} : FileOf[d] = FileOf[c] /\ webPc[d] # "idle"
               THEN shared \cup {FileOf[c]} ELSE shared

Write(c) ==
  /\ webPc[c] = "write"
  /\ PutFile(c)
  /\ WebGoto(c, IF WebTool[c] \in {"start", "persist"} THEN "insert" ELSE "check")
  /\ row' = IF WebTool[c] = "crawl" THEN [row EXCEPT ![c] = <<"artifact", c>>] ELSE row
  /\ UNCHANGED <<stored, dates, sweepAt, doomed, whenSwept, strays, bare, setbacks>>

(* The size was right: the record is made, with its date, and the file      *)
(* scanned.                                                                 *)
Check(c) ==
  /\ webPc[c] = "check"
  /\ dates' = Dated(row[c])
  /\ WebGoto(c, "insert")
  /\ UNCHANGED <<stored, disk, row, sweepAt, doomed, whenSwept, shared, strays, bare, setbacks>>

(* An artifact has its date; the rows of states and jobs are made now.      *)
StoreArtifact(c) ==
  /\ webPc[c] = "insert" /\ row[c][1] = "artifact"
  /\ Store(c, row[c], "end")
  /\ UNCHANGED <<dates, disk, doomed, shared, strays, bare, setbacks>>

StoreState(c) ==
  /\ webPc[c] = "insert" /\ row[c][1] = "state"
  /\ Store(c, row[c], "end")
  /\ dates' = Dated(row[c])
  /\ UNCHANGED <<disk, doomed, shared, strays, bare, setbacks>>

StoreJob(c) ==
  /\ webPc[c] = "insert" /\ row[c][1] \in {"crawl", "watch"}
  /\ Store(c, row[c], IF row[c][1] = "crawl" THEN "pages" ELSE "end")
  /\ dates' = Dated(row[c])
  /\ UNCHANGED <<disk, doomed, shared, strays, bare, setbacks>>

(* The file of the state that was picked is read, or is not there.          *)
ReadState(c) ==
  /\ webPc[c] = "read"
  /\ WebGoto(c, IF File(row[c]) \in disk THEN "bridge" ELSE "end")
  /\ UNCHANGED <<stored, dates, disk, row, sweepAt, doomed, whenSwept, shared, strays, bare, setbacks>>

(* When the browser has taken the state, the row is written again, also if  *)
(* it was removed meanwhile.                                                *)
Restored(c) ==
  /\ webPc[c] = "bridge"
  /\ Store(c, row[c], "end")
  /\ dates' = Dated(row[c])
  /\ bare' = IF row[c] \in stored THEN bare ELSE bare \cup {row[c]}
  /\ UNCHANGED <<disk, doomed, shared, strays, setbacks>>

(* The pages were crawled, or could not be: the job is settled, if need be  *)
(* written anew; a crawl that succeeded goes on to the memory of the site.  *)
Crawled(c) ==
  /\ webPc[c] = "pages"
  /\ \E then \in {"remember", "end"} : Store(c, row[c], then)
  /\ dates' = Dated(row[c])
  /\ UNCHANGED <<disk, doomed, shared, strays, bare, setbacks>>

(* update_website_memory_from_crawl, and a screenshot if something changed. *)
Remember(c) ==
  /\ webPc[c] = "remember"
  /\ \E then \in {"write", "end"} : Store(c, <<"memory", c>>, then)
  /\ dates' = Dated(<<"memory", c>>)
  /\ UNCHANGED <<disk, doomed, shared, strays, bare, setbacks>>

-----------------------------------------------------------------------------
(* enforce_web_storage_policy.  A table is listed once and its oldest rows  *)
(* are removed until the count, and of artifacts and states also the bytes, *)
(* are within the limits.                                                   *)
(* Mutant: one row too many is let be.                                      *)
SurplusLate(t) ==
  LET n == Len(Listed(t)) IN IF n > Keep[t] + 1 THEN n - Keep[t] ELSE 0

Surplus(t) ==
  LET n == Len(Listed(t)) IN IF n > Keep[t] THEN n - Keep[t] ELSE 0

ToRemove(t) ==
  IF t \in {"artifact", "state"} THEN Surplus(t)..Len(Listed(t)) ELSE {Surplus(t)}

Proceed(c) ==
  IF sweepAt[c] < Len(Tables)
  THEN WebGoto(c, "list") /\ sweepAt' = [sweepAt EXCEPT ![c] = @ + 1]
  ELSE WebGoto(c, whenSwept[c]) /\ sweepAt' = [sweepAt EXCEPT ![c] = 1]

List(c) ==
  /\ webPc[c] = "list"
  /\ LET t == Tables[sweepAt[c]] IN
       \E n \in ToRemove(t) :
         /\ doomed' = [doomed EXCEPT ![c] = SubSeq(Listed(t), 1, n)]
         /\ IF n = 0 THEN Proceed(c)
            ELSE /\ WebGoto(c, IF t \in {"artifact", "state"} THEN "unlink" ELSE "delete")
                 /\ UNCHANGED sweepAt
  /\ UNCHANGED <<stored, dates, disk, row, whenSwept, shared, strays, bare, setbacks>>

(* Mutant: the files of states are forgotten.                               *)
ForgetStateFile(r) == disk' = IF r[1] = "artifact" THEN disk \ {File(r)} ELSE disk

RemoveFile(r) == disk' = disk \ {File(r)}

(* remove_file; its error is ignored.                                       *)
Unlink(c) ==
  /\ webPc[c] = "unlink"
  /\ \/ RemoveFile(Head(doomed[c])) /\ UNCHANGED <<strays, setbacks>>
     \/ /\ setbacks < MaxSetbacks
        /\ setbacks' = setbacks + 1
        /\ strays' = strays \cup {File(Head(doomed[c]))}
        /\ UNCHANGED disk
  /\ WebGoto(c, "delete")
  /\ UNCHANGED <<stored, dates, row, sweepAt, doomed, whenSwept, shared, bare>>

Delete(c) ==
  /\ webPc[c] = "delete"
  /\ stored' = stored \ {Head(doomed[c])}
  /\ dates' = Kept(dates, Rows \ {Head(doomed[c])})
  /\ doomed' = [doomed EXCEPT ![c] = Tail(@)]
  /\ IF Len(doomed[c]) = 1 THEN Proceed(c)
     ELSE /\ WebGoto(c, IF Filed(Head(doomed[c])) THEN "unlink" ELSE "delete")
          /\ UNCHANGED sweepAt
  /\ UNCHANGED <<disk, row, whenSwept, shared, strays, bare, setbacks>>

-----------------------------------------------------------------------------
(* A call fails, at a check, the bridge, the store or in the policy, which  *)
(* also panics when it has removed all rows and still counts bytes; or it   *)
(* is given up at an await.  A file that was written stays, also if the     *)
(* task that writes it is no longer waited for.  An error of the policy     *)
(* after the memory was stored is ignored, and the call goes on.            *)
Setback(c) ==
  /\ c \in AtWork /\ setbacks < MaxSetbacks
  /\ setbacks' = setbacks + 1
  /\ \/ WebGoto(c, "end")
     \/ Sweeping(c) /\ row[c][1] = "memory" /\ WebGoto(c, whenSwept[c])
  /\ IF webPc[c] = "write" THEN PutFile(c) ELSE UNCHANGED <<disk, shared>>
  /\ strays' = IF webPc[c] \in {"write", "check"} \/ (webPc[c] = "insert" /\ Filed(row[c]))
               THEN strays \cup {FileOf[c]} ELSE strays
  /\ bare' = IF webPc[c] = "delete" THEN bare \cup {Head(doomed[c])} ELSE bare
  /\ doomed' = [doomed EXCEPT ![c] = <<>>]
  /\ UNCHANGED <<stored, dates, row, sweepAt, whenSwept>>

WebStep(c) ==
  Write(c) \/ Check(c) \/ StoreArtifact(c) \/ StoreState(c) \/ StoreJob(c) \/ ReadState(c)
  \/ Restored(c) \/ Crawled(c) \/ Remember(c) \/ List(c) \/ Unlink(c) \/ Delete(c)

WebNext == \E c \in WebCalls : Begin(c) \/ WebStep(c) \/ Setback(c)

WebSpec == WebInit /\ [][WebNext]_webVars

-----------------------------------------------------------------------------
(* However the calls overlap, a table has at most as many rows more than    *)
(* the policy allows as there are calls that have stored one and not yet    *)
(* gone through the table, and calls that failed before they did.           *)
StorageBounded ==
  \A t \in DOMAIN Keep :
    LET owing == {c \in WebCalls : /\ Sweeping(c) /\ row[c][1] = t
                                   /\ \E i \in sweepAt[c]..Len(Tables) : Tables[i] = t} IN
      Cardinality({r \in stored : r[1] = t}) <= Keep[t] + Cardinality(owing) + setbacks

(* Files and rows keep company although they are never changed together: a  *)
(* row has its file unless somebody is about to delete the row, and a file  *)
(* has a row unless its call is about to insert it.  Two calls that write   *)
(* one path, and what setbacks and late restores leave, are excepted.       *)
FilesFollowRows ==
  /\ \A r \in stored : Filed(r) =>
       \/ File(r) \in disk \cup shared \/ r \in bare
       \/ \E c \in WebCalls : webPc[c] = "delete" /\ Head(doomed[c]) = r
  /\ \A f \in disk \ (shared \cup strays) :
       \/ \E r \in stored : Filed(r) /\ File(r) = f
       \/ \E c \in WebCalls : FileOf[c] = f /\ webPc[c] \in {"check", "insert"}
=============================================================================
