----------------------------- MODULE Approvals -----------------------------
(***************************************************************************)
(* The approvals of one chat session: a request that may not go on writes a *)
(* Pending record, a working-set entry and a handle and shows a prompt; the *)
(* user answers from Telegram (several workers may handle the answers at    *)
(* once) or on the console; the answer reads the record, writes it back and *)
(* then runs the tool, grants the elevation or stores the decision on a     *)
(* domain, which a later web call consumes.                                 *)
(***************************************************************************)
EXTENDS Absence, Naturals, FiniteSets

CONSTANTS
  Askers,        (* requests of the session                                  *)
  Phones,        (* Telegram workers that handle an answer                   *)
  Consoles,      (* answers typed at the console                             *)
  ToolNames,     (* tools whose calls need an approval                       *)
  Elevation,     (* AGENT_ELEVATION_TOOL_NAME                                *)
  Domain,        (* set_domain_access_decision                               *)
  MaxAsks,       (* bound: approvals asked for                               *)
  MaxTroubles    (* bound: crashes, and handles and elevations that end      *)

ASSUME ApprovalAssumption ==
  /\ Elevation # Domain /\ {Elevation, Domain} \cap ToolNames = {}
  /\ Phones \cap Consoles = {}
  /\ MaxAsks \in Nat /\ MaxTroubles \in Nat

(* approval_id_for: one record per session and tool, so the tool names it.  *)
Subjects == ToolNames \cup {Elevation, Domain}
Answerers == Phones \cup Consoles

VARIABLES
  approvals,     (* the table: the status, and which ask the record stores   *)
  old,           (* pending records made more than a day ago                 *)
  handles,       (* the handle of a record: "none", "live" or "expired"      *)
  askPc,         (* where a request is                                       *)
  about,         (* what it asks for                                         *)
  askNo,         (* which ask it is                                          *)
  found,         (* the decision on the domain its web call found            *)
  answerPc,      (* where an answer is                                       *)
  target,        (* what it is about                                         *)
  readCopy,      (* the record it read                                       *)
  elevated,      (* the row of elevations: "none", "active" or "expired"     *)
  decisions,     (* stored allow_once decisions                              *)
  asks,          (* counter of asks                                          *)
  asked, ran, denied, pages,  (* auxiliary counters                          *)
  raced,         (* auxiliary: subjects written over since they were read    *)
  troubles

approvalVars == <<approvals, old, handles, askPc, about, askNo, found, answerPc, target,
                  readCopy, elevated, decisions, asks, asked, ran, denied, pages, raced,
                  troubles>>
tables == <<approvals, old, handles, elevated, decisions>>
askerVars == <<askPc, about, askNo, found, asks, asked, pages>>
answerVars == <<answerPc, target, readCopy, ran, denied>>

Records == [status : {"Pending", "Approved", "Denied"}, ask : 1..MaxAsks]

ApprovalTypeOK ==
  /\ approvals \in [Subjects -> Records \cup {None}]
  /\ old \subseteq Subjects
  /\ handles \in [Subjects -> {"none", "live", "expired"}]
  /\ askPc \in [Askers -> {"idle", "record", "handle", "consume"}]
  /\ about \in [Askers -> Subjects \cup {None}]
  /\ askNo \in [Askers -> 0..MaxAsks]
  /\ found \in [Askers -> 1..MaxAsks \cup {None}]
  /\ answerPc \in [Answerers -> {"idle", "select", "read", "write", "act"}]
  /\ target \in [Answerers -> Subjects \cup {None}]
  /\ readCopy \in [Answerers -> Records \cup {None}]
  /\ elevated \in {"none", "active", "expired"}
  /\ decisions \subseteq 1..MaxAsks
  /\ asks \in 0..MaxAsks
  /\ asked \in [Subjects -> Nat] /\ ran \in [Subjects -> Nat] /\ denied \in [Subjects -> Nat]
  /\ pages \in Nat
  /\ raced \subseteq Subjects
  /\ troubles \in 0..MaxTroubles

ApprovalInit ==
  /\ approvals = [s \in Subjects |-> None]
  /\ old = {}
  /\ handles = [s \in Subjects |-> "none"]
  /\ askPc = [q \in Askers |-> "idle"]
  /\ about = [q \in Askers |-> None]
  /\ askNo = [q \in Askers |-> 0]
  /\ found = [q \in Askers |-> None]
  /\ answerPc = [r \in Answerers |-> "idle"]
  /\ target = [r \in Answerers |-> None]
  /\ readCopy = [r \in Answerers |-> None]
  /\ elevated = "none"
  /\ decisions = {}
  /\ asks = 0
  /\ asked = [s \in Subjects |-> 0]
  /\ ran = [s \in Subjects |-> 0]
  /\ denied = [s \in Subjects |-> 0]
  /\ pages = 0
  /\ raced = {}
  /\ troubles = 0

-----------------------------------------------------------------------------
(* A request.                                                               *)

(* The request cannot go on: a tool that asks the user, an agent that needs *)
(* an elevation it does not have, a domain nothing is decided about.        *)
Ask(q, s) ==
  /\ askPc[q] = "idle" /\ asks < MaxAsks
  /\ s = Elevation => elevated # "active"
  /\ s = Domain => decisions = {}
  /\ asks' = asks + 1
  /\ askNo' = [askNo EXCEPT ![q] = asks + 1]
  /\ about' = [about EXCEPT ![q] = s]
  /\ askPc' = [askPc EXCEPT ![q] = "record"]
  /\ UNCHANGED <<tables, found, asked, pages, answerVars, raced, troubles>>

(* resolve_domain_access_decision: the decisions are listed ...             *)
FindDecision(q) ==
  /\ askPc[q] = "idle"
  /\ \E d \in decisions : found' = [found EXCEPT ![q] = d]
  /\ askPc' = [askPc EXCEPT ![q] = "consume"]
  /\ UNCHANGED <<tables, about, askNo, asks, asked, pages, answerVars, raced, troubles>>

(* ... and one that holds once is deleted, whether it was still there or    *)
(* not.  The policy, which is asked after that, may refuse the call.        *)
ConsumeDecision(q) ==
  /\ askPc[q] = "consume"
  /\ decisions' = decisions \ {found[q]}
  /\ raced' = IF found[q] \in decisions THEN raced ELSE raced \cup {Domain}
  /\ pages' \in {pages, pages + 1}
  /\ askPc' = [askPc EXCEPT ![q] = "idle"]
  /\ found' = [found EXCEPT ![q] = None]
  /\ UNCHANGED <<approvals, old, handles, elevated, about, askNo, asks, asked,
                 answerVars, troubles>>

PendingRecord(n) == [status |-> "Pending", ask |-> n]

(* write_approval_record: whatever the table held is written over.          *)
StoreRecord(q) ==
  /\ askPc[q] = "record"
  /\ approvals' = [approvals EXCEPT ![about[q]] = PendingRecord(askNo[q])]
  /\ old' = old \ {about[q]}
  /\ asked' = [asked EXCEPT ![about[q]] = @ + 1]
  /\ askPc' = [askPc EXCEPT ![q] = "handle"]
  /\ UNCHANGED <<handles, elevated, decisions, about, askNo, found, asks, pages,
                 answerVars, raced, troubles>>

(* ensure_approval_handle: handles that were over when the record was made  *)
(* are deleted; the handle the record has is used again, with its old end;  *)
(* a new one ends a day after the record was made.                          *)
HandlesWith(s) ==
  LET pruned == [t \in Subjects |->
                   IF s \notin old /\ handles[t] = "expired" THEN "none" ELSE handles[t]] IN
  IF pruned[s] # "none" THEN pruned
  ELSE [pruned EXCEPT ![s] = IF s \in old THEN "expired" ELSE "live"]

(* The prompt is shown then, or the error (no prompt).                      *)
GiveHandle(q) ==
  /\ askPc[q] = "handle"
  /\ \/ handles' = HandlesWith(about[q])
     \/ UNCHANGED handles
  /\ askPc' = [askPc EXCEPT ![q] = "idle"]
  /\ about' = [about EXCEPT ![q] = None]
  /\ askNo' = [askNo EXCEPT ![q] = 0]
  /\ UNCHANGED <<approvals, old, elevated, decisions, found, asks, asked, pages,
                 answerVars, raced, troubles>>

-----------------------------------------------------------------------------
(* An answer.                                                               *)

(* It goes on, or ends and forgets what it was about.                       *)
AnswerGoes(r, pc) ==
  /\ answerPc' = [answerPc EXCEPT ![r] = pc]
  /\ pc = "idle" => /\ target' = [target EXCEPT ![r] = None]
                    /\ readCopy' = [readCopy EXCEPT ![r] = None]

Pending(s) == approvals[s] # None /\ approvals[s].status = "Pending"

(* A button of any prompt ever shown, or an id or a number typed.           *)
Answer(r, s) ==
  /\ answerPc[r] = "idle"
  /\ asked[s] > 0
  /\ r \in Consoles => Pending(s)
  /\ target' = [target EXCEPT ![r] = s]
  /\ answerPc' = [answerPc EXCEPT ![r] = "select"]
  /\ UNCHANGED <<tables, askerVars, readCopy, ran, denied, raced, troubles>>

(* resolve_approval_selector of a button, which holds the handle: one that  *)
(* is over is taken for the id of an approval and not found.  A number at   *)
(* the console is looked up in the list as it is now, which may name any    *)
(* pending approval, and listing gives each of them its handle; an id is    *)
(* taken as it is.                                                          *)
Select(r) ==
  /\ answerPc[r] = "select"
  /\ \/ /\ r \in Phones /\ handles[target[r]] = "live"
        /\ AnswerGoes(r, "read")
        /\ UNCHANGED <<handles, target>>
     \/ /\ r \in Phones /\ handles[target[r]] # "live"
        /\ AnswerGoes(r, "idle")
        /\ UNCHANGED handles
     \/ /\ r \in Consoles
        /\ \E s \in {t \in Subjects : Pending(t)} :
             /\ target' = [target EXCEPT ![r] = s]
             /\ handles' = HandlesWith(s)
        /\ AnswerGoes(r, "read")
     \/ /\ r \in Consoles
        /\ AnswerGoes(r, "read")
        /\ UNCHANGED <<handles, target>>
  /\ answerPc'[r] # "idle" => UNCHANGED <<readCopy>>
  /\ UNCHANGED <<approvals, old, elevated, decisions, askerVars, ran, denied, raced,
                 troubles>>

(* Mutant: whatever the record's status is, it is resolved.                 *)
ResolvableAlways(s) == approvals[s] # None

Resolvable(s) == Pending(s)

(* resolve_approval_record: the record is read and its status looked at ... *)
ReadRecord(r) ==
  /\ answerPc[r] = "read"
  /\ \/ /\ Resolvable(target[r])
        /\ readCopy' = [readCopy EXCEPT ![r] = approvals[target[r]]]
        /\ AnswerGoes(r, "write")
        /\ UNCHANGED target
     \/ ~ Resolvable(target[r]) /\ AnswerGoes(r, "idle")
  /\ UNCHANGED <<tables, askerVars, ran, denied, raced, troubles>>

(* ... and the copy is written back with the decision, which the answer    *)
(* had from the start and nothing looked at so far.                         *)
WriteDecision(r, decision) ==
  LET s == target[r] IN
  /\ answerPc[r] = "write"
  /\ approvals' = [approvals EXCEPT ![s] = [readCopy[r] EXCEPT !.status = decision]]
  /\ old' = old \ {s}
  /\ raced' = IF approvals[s] = readCopy[r] THEN raced ELSE raced \cup {s}
  /\ IF decision = "Approved"
     THEN AnswerGoes(r, "act") /\ UNCHANGED <<target, readCopy, denied>>
     ELSE AnswerGoes(r, "idle") /\ denied' = [denied EXCEPT ![s] = @ + 1]
  /\ UNCHANGED <<handles, elevated, decisions, askerVars, ran, troubles>>

(* What was approved is done: the elevation is granted for an hour (and the *)
(* session's override set), or the tool is run with the arguments of the    *)
(* copy; it may fail.  set_domain_access_decision stores allow_once.  What  *)
(* came of the tool a Telegram worker ran is appended to the history of the *)
(* session (ResumeApproved of SessionTurn), unless that fails unseen.       *)
Act(r) ==
  LET s == target[r] IN
  /\ answerPc[r] = "act"
  /\ ran' = [ran EXCEPT ![s] = @ + 1]
  /\ IF s = Elevation THEN elevated' = "active" ELSE UNCHANGED elevated
  /\ IF s = Domain THEN decisions' \in {decisions, decisions \cup {readCopy[r].ask}}
     ELSE UNCHANGED decisions
  /\ AnswerGoes(r, "idle")
  /\ UNCHANGED <<approvals, old, handles, askerVars, denied, raced, troubles>>

-----------------------------------------------------------------------------
Trouble == troubles < MaxTroubles /\ troubles' = troubles + 1

(* A day passes for the handle of an approval and for its record.           *)
HandleEnds(s) ==
  /\ handles[s] = "live"
  /\ Trouble
  /\ handles' = [handles EXCEPT ![s] = "expired"]
  /\ old' = IF Pending(s) THEN old \cup {s} ELSE old
  /\ UNCHANGED <<approvals, elevated, decisions, askerVars, answerVars, raced>>

ElevationEnds ==
  /\ elevated = "active"
  /\ Trouble
  /\ elevated' = "expired"
  /\ UNCHANGED <<approvals, old, handles, decisions, askerVars, answerVars, raced>>

(* The process stops: requests and answers are lost where they are.         *)
ProcessStops ==
  /\ Trouble
  /\ askPc' = [q \in Askers |-> "idle"]
  /\ about' = [q \in Askers |-> None]
  /\ askNo' = [q \in Askers |-> 0]
  /\ found' = [q \in Askers |-> None]
  /\ answerPc' = [r \in Answerers |-> "idle"]
  /\ target' = [r \in Answerers |-> None]
  /\ readCopy' = [r \in Answerers |-> None]
  /\ UNCHANGED <<tables, asks, asked, pages, ran, denied, raced>>

AnswerStep(r) ==
  \/ Select(r) \/ ReadRecord(r) \/ Act(r)
  \/ \E decision \in {"Approved", "Denied"} : WriteDecision(r, decision)

ApprovalNext ==
  \/ \E q \in Askers :
       \/ \E s \in Subjects : Ask(q, s)
       \/ FindDecision(q) \/ ConsumeDecision(q)
       \/ StoreRecord(q) \/ GiveHandle(q)
  \/ \E r \in Answerers :
       \/ \E s \in Subjects : Answer(r, s)
       \/ AnswerStep(r)
  \/ \E s \in Subjects : HandleEnds(s)
  \/ ElevationEnds
  \/ ProcessStops

ApprovalSpec == ApprovalInit /\ [][ApprovalNext]_approvalVars

-----------------------------------------------------------------------------
(* Each ask is answered once: what was run, what was refused and what is    *)
(* still open never exceed what was asked for, through buttons pressed      *)
(* again, answers from two places, prompts of an earlier ask, handles that  *)
(* end and crashes; and an approval of a domain opens at most one page.     *)
(* This is so as long as no record changed between the read and the write   *)
(* of an answer, and no decision between the list and the delete.           *)
AnsweredOnce ==
  \A s \in Subjects \ raced :
    /\ ran[s] + denied[s] + (IF Pending(s) THEN 1 ELSE 0) <= asked[s]
    /\ s = Domain => pages + Cardinality(decisions) <= ran[s]
=============================================================================
