--------------------------- MODULE GatewayProofs ---------------------------
(***************************************************************************)
(* Proofs about the ways into the process: CliGateway, TelegramIngress and  *)
(* Approvals, for any number of sessions, lanes, workers and answers, any   *)
(* capacities, and any number of requests, updates, asks and mishaps.       *)
(***************************************************************************)
EXTENDS MCServices, FiniteSetTheorems, SequenceTheorems, TLAPS

(* A lane holds requests of its own sessions, the last ones typed, in the   *)
(* order they were typed.                                                   *)
LaneFilled ==
  \A l \in Lanes :
    /\ \A i \in 1..Len(lane[l]) :
         LaneFor(lane[l][i].session) = l /\ lane[l][i].line <= lines
    /\ \A i, j \in 1..Len(lane[l]) : i < j => lane[l][i].line < lane[l][j].line

(* What was begun was typed before what waits in the lane of the session,   *)
(* and what is served is served by the worker of that lane.                 *)
ServedBefore ==
  /\ \A i \in 1..Len(served) :
       LET l == LaneFor(served[i].session) IN
         /\ served[i].line <= lines
         /\ \A j \in 1..Len(lane[l]) : served[i].line < lane[l][j].line
  /\ \A i, j \in 1..Len(served) :
       i < j /\ served[i].session = served[j].session => served[i].line < served[j].line
  /\ \A l \in Lanes : serving[l] # None => LaneFor(serving[l].session) = l

LaneInv == CliTypeOK /\ LaneFilled /\ ServedBefore

-----------------------------------------------------------------------------
Has(w, u, turn) == hand[w] = [update |-> u, at |-> turn]

(* An update whose key was never missing is processed once: its key is      *)
(* there before, and one worker at most is past the keys with it.           *)
KeyedOnce ==
  \A u \in Updates \ unkeyed :
    /\ handled[u] <= 1
    /\ handled[u] = 1 => u \in keys
    /\ \A w \in Workers : Has(w, u, "process") =>
         /\ u \in keys /\ handled[u] = 0
         /\ \A v \in Workers : Has(v, u, "process") => v = w

(* An update that got past the keys, that a worker goes to the keys with,   *)
(* and one that is on its way behind the batch or was turned away.          *)
Passed(u) == (\E w \in Workers : Has(w, u, "process")) \/ handled[u] > 0 \/ u \in lost
Recorded(u) == \E w \in Workers : Has(w, u, "record")
Waits(u) ==
  \/ u \in Queued \cup dropped
  \/ \E w \in Workers : Has(w, u, "check")
  \/ Recorded(u)

(* What the keys, the window and the offset say was received: it is on its  *)
(* way behind the batch, or is past it.                                     *)
ReceivedAccounted ==
  /\ \A u \in keys : Passed(u)
  /\ \A u \in Range(window) : Passed(u) \/ Recorded(u)
  /\ \A u \in Updates : u <= confirmed \/ u < offset => Passed(u) \/ Waits(u)

(* The batch goes on where the offset and the provider are.                 *)
BatchNext ==
  /\ \A i \in 1..Len(batch) : batch[i] = batch[1] + (i - 1)
  /\ batch # <<>> =>
       batch[1] <= offset \/ batch[1] <= confirmed + 1

(* The types, and a worker that is not idle has an update.                  *)
IngressKnown ==
  /\ IngressTypeOK /\ window \in Seq(Updates)
  /\ \A w \in Workers : hand[w].at # "idle" => hand[w].update \in Updates

IngressInv == IngressKnown /\ KeyedOnce /\ ReceivedAccounted /\ BatchNext

-----------------------------------------------------------------------------
ActingOn(s) == {r \in Answerers : answerPc[r] = "act" /\ target[r] = s}

(* Requests and answers know what they are about.                           *)
AskersKnow ==
  \A q \in Askers :
    /\ askPc[q] \in {"record", "handle"} => about[q] \in Subjects /\ askNo[q] \in 1..MaxAsks
    /\ askPc[q] = "consume" => found[q] \in 1..MaxAsks

AnswerersKnow ==
  \A r \in Answerers :
    /\ answerPc[r] # "idle" => target[r] \in Subjects
    /\ answerPc[r] \in {"write", "act"} => readCopy[r] \in Records
    /\ answerPc[r] = "write" => readCopy[r] # None /\ readCopy[r].status = "Pending"

(* What is about to be done counts as well.                                 *)
AsksCover ==
  \A s \in Subjects :
    /\ IsFiniteSet(ActingOn(s))
    /\ s \notin raced =>
         ran[s] + denied[s] + (IF Pending(s) THEN 1 ELSE 0) + Cardinality(ActingOn(s)) <= asked[s]

PagesCover == Domain \notin raced => pages + Cardinality(decisions) <= ran[Domain]

ApprovalKnown == ApprovalTypeOK /\ AskersKnow /\ AnswerersKnow
ApprovalInv == ApprovalKnown /\ AsksCover /\ PagesCover

-----------------------------------------------------------------------------
(* CliGateway.                                                              *)

(* No request was typed.                                                    *)
LEMMA CliInitInv == CliInit => LaneInv
<1> SUFFICES ASSUME CliInit PROVE LaneInv
  OBVIOUS
<1> USE CliAssumption DEF CliInit
<1>1. CliTypeOK
  <2>1. /\ lane \in [Lanes -> Seq(Typed)] /\ \A l \in Lanes : Len(lane[l]) <= LaneCap
        /\ served \in Seq(Typed) /\ lines \in 0..MaxLines
    OBVIOUS
  <2>2. /\ loop \in MainStages /\ stopping \in BOOLEAN /\ serving \in [Lanes -> Typed \cup {None}]
        /\ laneWorker \in [Lanes -> {"up", "ended"}]
        /\ senders \in [Lanes -> SUBSET {"bridge", "worker"}]
        /\ adapter \in [Adapters -> AdapterStages]
    BY DEF MainStages, AdapterStages
  <2> QED
    BY <2>1, <2>2 DEF CliTypeOK
<1>2. LaneFilled /\ ServedBefore
  BY DEF LaneFilled, ServedBefore
<1> QED
  BY <1>1, <1>2 DEF LaneInv

(* What Append and Tail make of a sequence.                                 *)
LEMMA Appended ==
  ASSUME NEW S, NEW s \in Seq(S), NEW e \in S
  PROVE  /\ Append(s, e) \in Seq(S) /\ Len(Append(s, e)) = Len(s) + 1
         /\ \A i \in 1..Len(s) : Append(s, e)[i] = s[i]
         /\ Append(s, e)[Len(s) + 1] = e
OBVIOUS

(* What Head and Tail make of one that has elements.                        *)
LEMMA Headed ==
  ASSUME NEW S, NEW s \in Seq(S), s # <<>>
  PROVE  /\ Head(s) = s[1] /\ Head(s) \in S /\ Len(s) \in Nat /\ Len(s) >= 1
         /\ Tail(s) \in Seq(S) /\ Len(Tail(s)) = Len(s) - 1
         /\ \A i \in 1..(Len(s) - 1) : Tail(s)[i] = s[i + 1]
OBVIOUS

(* The requests there are, and their lanes.                                 *)
LEMMA TypedRequests ==
  ASSUME CliTypeOK
  PROVE  /\ \A r \in Typed : r.line \in Nat /\ r.session \in Sessions /\ LaneFor(r.session) \in Lanes
         /\ \A l \in Lanes : \A i \in 1..Len(lane[l]) : lane[l][i] \in Typed
         /\ \A i \in 1..Len(served) : served[i] \in Typed
         /\ lines \in Nat
<1>1. \A r \in Typed : r.line \in Nat /\ r.session \in Sessions /\ LaneFor(r.session) \in Lanes
  BY CliAssumption DEF Typed, LaneFor
<1>2. ASSUME NEW l \in Lanes, NEW i \in 1..Len(lane[l]) PROVE lane[l][i] \in Typed
  <2>1. lane[l] \in Seq(Typed)
    BY DEF CliTypeOK
  <2> QED
    BY <1>2, <2>1
<1>3. ASSUME NEW i \in 1..Len(served) PROVE served[i] \in Typed
  <2>1. served \in Seq(Typed)
    BY DEF CliTypeOK
  <2> QED
    BY <1>3, <2>1
<1> QED
  BY <1>1, <1>2, <1>3 DEF CliTypeOK

(* The request goes to the end of its session's lane.                       *)
LEMMA ReadKeeps ==
  ASSUME LaneInv, NEW session \in Sessions, ReadRequest(session)
  PROVE  LaneInv'
<1> DEFINE l == LaneFor(session)
           r == [session |-> session, line |-> lines + 1]
<1> USE DEF LaneInv
<1>1. /\ l \in Lanes /\ lines \in Nat /\ lines + 1 \in 1..MaxLines /\ lines' = lines + 1
      /\ r \in Typed /\ r.session = session /\ r.line = lines + 1
      /\ UNCHANGED <<loop, stopping, serving, laneWorker, senders, served, adapter>>
  BY CliAssumption DEF ReadRequest, LaneFor, Typed, CliTypeOK
<1>2. lane[l] \in Seq(Typed)
  BY <1>1 DEF CliTypeOK
<1>3. CASE lane' = lane
  <2>1. CliTypeOK'
    BY <1>1, <1>3 DEF CliTypeOK
  <2>2. \A k \in Lanes : \A i \in 1..Len(lane[k]) : lane[k][i].line \in Nat
    BY TypedRequests
  <2>3. \A i \in 1..Len(served) : served[i].line \in Nat
    BY TypedRequests
  <2>4. LaneFilled'
    BY <1>1, <1>3, <2>2 DEF LaneFilled, LaneFor
  <2>5. ServedBefore'
    BY <1>1, <1>3, <2>3 DEF ServedBefore, LaneFor
  <2> QED
    BY <2>1, <2>4, <2>5
<1>4. CASE /\ Len(lane[l]) < LaneCap
           /\ lane' = [lane EXCEPT ![l] = Append(lane[l], r)]
  <2> DEFINE q == Append(lane[l], r)
  <2>1. /\ q \in Seq(Typed) /\ Len(q) = Len(lane[l]) + 1 /\ Len(lane[l]) \in Nat
        /\ \A i \in 1..Len(lane[l]) : q[i] = lane[l][i]
        /\ q[Len(lane[l]) + 1] = r
    BY <1>1, <1>2, Appended
  <2>2. /\ lane'[l] = q /\ \A k \in Lanes : k # l => lane'[k] = lane[k]
        /\ lane' \in [Lanes -> Seq(Typed)]
    BY <1>1, <1>4, <2>1 DEF CliTypeOK
  <2> HIDE DEF q
  <2>3. Len(q) <= LaneCap
    BY <1>4, <2>1, CliAssumption
  <2>4. CliTypeOK'
    <3>1. ASSUME NEW k \in Lanes PROVE Len(lane'[k]) <= LaneCap
      <4>1. k # l => lane'[k] = lane[k] /\ Len(lane[k]) <= LaneCap
        BY <2>2 DEF CliTypeOK
      <4> QED
        BY <2>2, <2>3, <4>1
    <3> QED
      BY <1>1, <2>2, <3>1 DEF CliTypeOK
  <2>5. \A k \in Lanes : \A i \in 1..Len(lane[k]) : lane[k][i].line \in Nat
    BY TypedRequests
  <2>6. \A i \in 1..Len(served) : served[i].line \in Nat /\ LaneFor(served[i].session) \in Lanes
    BY TypedRequests
  <2> HIDE DEF r, l
  <2>7. \A i \in 1..Len(q) : (i \in 1..Len(lane[l]) /\ q[i] = lane[l][i]) \/ (i = Len(lane[l]) + 1 /\ q[i] = r)
    BY <2>1
  <2>8. LaneFor(r.session) = l
    BY <1>1 DEF l
  <2>9. LaneFilled'
    <3>1. ASSUME NEW k \in Lanes, k # l
          PROVE  /\ \A i \in 1..Len(lane'[k]) :
                      LaneFor(lane'[k][i].session) = k /\ lane'[k][i].line <= lines'
                 /\ \A i, j \in 1..Len(lane'[k]) : i < j => lane'[k][i].line < lane'[k][j].line
      <4>1. lane'[k] = lane[k] /\ \A i \in 1..Len(lane[k]) : lane[k][i].line <= lines
        BY <2>2, <3>1 DEF LaneFilled
      <4>2. \A i \in 1..Len(lane[k]) : lane[k][i].line <= lines + 1
        BY <1>1, <2>5, <4>1
      <4> QED
        BY <1>1, <4>1, <4>2 DEF LaneFilled
    <3>2. \A i \in 1..Len(q) : LaneFor(q[i].session) = l /\ q[i].line <= lines'
      BY <1>1, <2>5, <2>7, <2>8 DEF LaneFilled
    <3>3. ASSUME NEW i \in 1..Len(q), NEW j \in 1..Len(q), i < j
          PROVE  q[i].line < q[j].line
      <4>1. i \in 1..Len(lane[l]) /\ q[i] = lane[l][i]
        BY <2>1, <3>3
      <4>2. lane[l][i].line \in Nat /\ lane[l][i].line <= lines
        BY <1>1, <2>5, <4>1 DEF LaneFilled
      <4> QED
        BY <1>1, <2>7, <3>3, <4>1, <4>2 DEF LaneFilled
    <3> QED
      BY <2>2, <3>1, <3>2, <3>3 DEF LaneFilled, LaneFor
  <2>10. ServedBefore'
    <3>1. ASSUME NEW i \in 1..Len(served)
          PROVE  /\ served[i].line <= lines'
                 /\ \A j \in 1..Len(lane'[LaneFor(served[i].session)]) :
                      served[i].line < lane'[LaneFor(served[i].session)][j].line
      <4>1. served[i].line \in Nat /\ served[i].line <= lines /\ LaneFor(served[i].session) \in Lanes
        BY <2>6 DEF ServedBefore
      <4>2. CASE LaneFor(served[i].session) = l
        <5>1. \A j \in 1..Len(lane[l]) : served[i].line < lane[l][j].line
          BY <4>2 DEF ServedBefore
        <5>2. \A j \in 1..Len(q) : served[i].line < q[j].line
          BY <1>1, <2>7, <4>1, <5>1
        <5> QED
          BY <1>1, <2>2, <4>1, <4>2, <5>2
      <4>3. CASE LaneFor(served[i].session) # l
        BY <1>1, <2>2, <4>1, <4>3 DEF ServedBefore
      <4> QED
        BY <4>2, <4>3
    <3> QED
      BY <1>1, <3>1 DEF ServedBefore, LaneFor
  <2> QED
    BY <2>4, <2>9, <2>10
<1> QED
  BY <1>1, <1>3, <1>4 DEF ReadRequest

(* The worker takes the first request of its lane.                          *)
LEMMA BeginKeeps ==
  ASSUME LaneInv, NEW l \in Lanes, BeginRequest(l)
  PROVE  LaneInv'
<1> DEFINE r == Head(lane[l])
<1> USE DEF LaneInv
<1>1. /\ lane[l] \in Seq(Typed) /\ lane[l] # <<>>
      /\ serving' = [serving EXCEPT ![l] = r] /\ lane' = [lane EXCEPT ![l] = Tail(lane[l])]
      /\ served' = Append(served, r) /\ served \in Seq(Typed)
      /\ UNCHANGED <<loop, stopping, lines, laneWorker, senders, adapter>>
  BY DEF BeginRequest, CliTypeOK
<1>2. /\ r = lane[l][1] /\ r \in Typed /\ Len(lane[l]) \in Nat /\ Len(lane[l]) >= 1
      /\ Tail(lane[l]) \in Seq(Typed) /\ Len(Tail(lane[l])) = Len(lane[l]) - 1
      /\ \A i \in 1..(Len(lane[l]) - 1) : Tail(lane[l])[i] = lane[l][i + 1]
  BY <1>1, Headed
<1> HIDE DEF r
<1>3. /\ lane'[l] = Tail(lane[l]) /\ \A k \in Lanes : k # l => lane'[k] = lane[k]
      /\ lane' \in [Lanes -> Seq(Typed)]
      /\ serving'[l] = r /\ \A k \in Lanes : k # l => serving'[k] = serving[k]
      /\ serving' \in [Lanes -> Typed \cup {None}]
  BY <1>1, <1>2 DEF CliTypeOK
<1>4. /\ served' \in Seq(Typed) /\ Len(served') = Len(served) + 1 /\ Len(served) \in Nat
      /\ \A i \in 1..Len(served) : served'[i] = served[i]
      /\ served'[Len(served) + 1] = r
  BY <1>1, <1>2, Appended
<1>5. LaneFor(r.session) = l /\ r.line <= lines /\ r.line \in Nat /\ lines \in Nat
  BY <1>2, TypedRequests DEF LaneFilled
<1>6. CliTypeOK'
  <2>1. ASSUME NEW k \in Lanes PROVE Len(lane'[k]) <= LaneCap
    <3>1. Len(lane[k]) <= LaneCap /\ (k # l => lane'[k] = lane[k])
      BY <1>3 DEF CliTypeOK
    <3> QED
      BY <1>2, <1>3, <3>1, CliAssumption
  <2> QED
    BY <1>1, <1>3, <1>4, <2>1 DEF CliTypeOK
<1>7. \A k \in Lanes : \A i \in 1..Len(lane[k]) : lane[k][i].line \in Nat
  BY TypedRequests
<1>8. \A k \in Lanes : \A i \in 1..Len(lane'[k]) :
        \E n \in 1..Len(lane[k]) :
          /\ lane'[k][i] = lane[k][n]
          /\ n = IF k = l THEN i + 1 ELSE i
  <2>1. ASSUME NEW i \in 1..Len(lane'[l])
        PROVE  i + 1 \in 1..Len(lane[l]) /\ lane'[l][i] = lane[l][i + 1]
    BY <1>2, <1>3
  <2> QED
    BY <1>3, <2>1
<1>9. LaneFilled'
  <2>1. ASSUME NEW k \in Lanes, NEW i \in 1..Len(lane'[k])
        PROVE  LaneFor(lane'[k][i].session) = k /\ lane'[k][i].line <= lines'
    BY <1>1, <1>8 DEF LaneFilled
  <2>2. ASSUME NEW k \in Lanes, NEW i \in 1..Len(lane'[k]), NEW j \in 1..Len(lane'[k]), i < j
        PROVE  lane'[k][i].line < lane'[k][j].line
    <3>1. PICK n \in 1..Len(lane[k]) : lane'[k][i] = lane[k][n] /\ n = IF k = l THEN i + 1 ELSE i
      BY <1>8
    <3>2. PICK m \in 1..Len(lane[k]) : lane'[k][j] = lane[k][m] /\ m = IF k = l THEN j + 1 ELSE j
      BY <1>8
    <3>3. n < m
      BY <2>2, <3>1, <3>2
    <3> QED
      BY <3>1, <3>2, <3>3 DEF LaneFilled
  <2> QED
    BY <2>1, <2>2 DEF LaneFilled, LaneFor
<1>10. \A i \in 1..Len(served') :
         (i \in 1..Len(served) /\ served'[i] = served[i]) \/ (i = Len(served) + 1 /\ served'[i] = r)
  BY <1>4
<1>11. \A i \in 1..Len(served) : served[i].line \in Nat /\ LaneFor(served[i].session) \in Lanes
  BY TypedRequests
<1>12. ASSUME NEW i \in 1..Len(served')
       PROVE  /\ served'[i].line <= lines'
              /\ \A j \in 1..Len(lane'[LaneFor(served'[i].session)]) :
                   served'[i].line < lane'[LaneFor(served'[i].session)][j].line
  <2>1. CASE i \in 1..Len(served) /\ served'[i] = served[i]
    <3>1. /\ served[i].line <= lines
          /\ \A j \in 1..Len(lane[LaneFor(served[i].session)]) :
               served[i].line < lane[LaneFor(served[i].session)][j].line
      BY <2>1 DEF LaneInv, ServedBefore
    <3>2. LaneFor(served'[i].session) = LaneFor(served[i].session) /\ LaneFor(served[i].session) \in Lanes
      BY <1>11, <2>1
    <3>3. ASSUME NEW j \in 1..Len(lane'[LaneFor(served[i].session)])
          PROVE  served[i].line < lane'[LaneFor(served[i].session)][j].line
      <4>1. PICK n \in 1..Len(lane[LaneFor(served[i].session)]) :
              lane'[LaneFor(served[i].session)][j] = lane[LaneFor(served[i].session)][n]
        BY <1>8, <3>2, <3>3
      <4> QED
        BY <3>1, <4>1
    <3> QED
      BY <1>1, <2>1, <3>1, <3>2, <3>3
  <2>2. CASE served'[i] = r
    <3>1. ASSUME NEW j \in 1..Len(lane'[l]) PROVE r.line < lane'[l][j].line
      <4>1. lane'[l][j] = lane[l][j + 1] /\ j + 1 \in 1..Len(lane[l]) /\ 1 < j + 1
        BY <1>2, <1>3
      <4> QED
        BY <1>2, <4>1 DEF LaneFilled
    <3> QED
      BY <1>1, <1>5, <2>2, <3>1
  <2> QED
    BY <1>10, <2>1, <2>2
<1>13. ASSUME NEW i \in 1..Len(served'), NEW j \in 1..Len(served'), i < j,
              served'[i].session = served'[j].session
       PROVE  served'[i].line < served'[j].line
  <2>1. i \in 1..Len(served) /\ served'[i] = served[i]
    BY <1>4, <1>13
  <2>2. CASE j \in 1..Len(served) /\ served'[j] = served[j]
    BY <1>13, <2>1, <2>2 DEF ServedBefore
  <2>3. CASE served'[j] = r
    <3>1. LaneFor(served[i].session) = l
      BY <1>5, <1>13, <2>1, <2>3 DEF LaneFor
    <3> QED
      BY <1>2, <2>1, <2>3, <3>1 DEF ServedBefore
  <2> QED
    BY <1>10, <2>2, <2>3
<1>14. \A k \in Lanes : serving'[k] # None => LaneFor(serving'[k].session) = k
  BY <1>3, <1>5 DEF ServedBefore
<1>15. ServedBefore'
  BY <1>12, <1>13, <1>14 DEF ServedBefore, LaneFor
<1> QED
  BY <1>6, <1>9, <1>15

(* The steps that move no request, except out of a worker's hands.          *)
LEMMA CliKept ==
  ASSUME LaneInv, CliTypeOK', UNCHANGED <<lines, lane, served>>,
         \A l \in Lanes : serving'[l] = serving[l] \/ serving'[l] = None
  PROVE  LaneInv'
BY DEF LaneInv, LaneFilled, ServedBefore, LaneFor

(* Every step keeps the lanes filled and served in order.                   *)
LEMMA CliInductive == LaneInv /\ [CliNext]_cliVars => LaneInv'
<1> SUFFICES ASSUME LaneInv, [CliNext]_cliVars PROVE LaneInv'
  OBVIOUS
<1>1. CliTypeOK
  BY DEF LaneInv
<1>2. ASSUME NEW l \in Lanes, EndRequest(l) PROVE LaneInv'
  <2>1. CliTypeOK'
    BY <1>1, <1>2 DEF CliTypeOK, EndRequest
  <2> QED
    BY <1>1, <1>2, <2>1, CliKept DEF EndRequest, CliTypeOK
<1>3. ASSUME NEW l \in Lanes, LaneCloses(l) PROVE LaneInv'
  <2>1. CliTypeOK'
    BY <1>1, <1>3 DEF CliTypeOK, LaneCloses
  <2> QED
    BY <1>3, <2>1, CliKept DEF LaneCloses
<1>4. ASSUME NEW a \in Adapters, AdapterStep(a) PROVE LaneInv'
  <2>1. PICK from, to \in AdapterStages : Supervise(a, from, to)
    BY <1>4 DEF AdapterStep, StartAdapter, LookAtFlag, AwaitNotify, AdapterExits, WakeUp, AdapterStages
  <2>2. CliTypeOK'
    BY <1>1, <2>1 DEF CliTypeOK, Supervise, laneVars
  <2> QED
    BY <2>1, <2>2, CliKept DEF Supervise, laneVars
<1>5. CASE RequestShutdown
  <2>1. adapter' \in [Adapters -> AdapterStages] /\ senders' \in [Lanes -> SUBSET {"bridge", "worker"}]
    BY <1>1, <1>5 DEF CliTypeOK, RequestShutdown, AdapterStages
  <2>2. loop' \in MainStages /\ stopping' \in BOOLEAN
    BY <1>5 DEF RequestShutdown, MainStages
  <2>3. CliTypeOK'
    BY <1>1, <1>5, <2>1, <2>2 DEF CliTypeOK, RequestShutdown
  <2> QED
    BY <1>5, <2>3, CliKept DEF RequestShutdown
<1>6. CASE LanesDrained \/ AdaptersAwaited \/ SaveAndExit \/ LeaveWithoutConsole
  <2>1. loop' \in MainStages /\ UNCHANGED <<stopping, lines, laneVars, adapter>>
    BY <1>6 DEF LanesDrained, AdaptersAwaited, SaveAndExit, LeaveWithoutConsole, MainStages
  <2>2. CliTypeOK'
    BY <1>1, <2>1 DEF CliTypeOK, laneVars
  <2> QED
    BY <2>1, <2>2, CliKept DEF laneVars
<1>7. CASE UNCHANGED cliVars
  <2>1. CliTypeOK'
    BY <1>1, <1>7 DEF CliTypeOK, cliVars
  <2> QED
    BY <1>7, <2>1, CliKept DEF cliVars
<1> QED
  BY <1>2, <1>3, <1>4, <1>5, <1>6, <1>7, ReadKeeps, BeginKeeps
     DEF CliNext, ServeNext, DrainNext, LaneStep

(* Every variable keeps to its values, the lanes to their capacity.         *)
THEOREM CliTypes == CliSpec => []CliTypeOK
<1>1. LaneInv => CliTypeOK
  BY DEF LaneInv
<1> QED
  BY <1>1, CliInitInv, CliInductive, PTL DEF CliSpec

(* The requests of a session are served in the order they were typed, one   *)
(* at a time, however full the lanes are and whatever ends meanwhile.       *)
THEOREM ServedInOrder == CliSpec => []LanesInOrder
<1>1. LaneInv => LanesInOrder
  BY DEF LaneInv, ServedBefore, LanesInOrder, LaneFor
<1> QED
  BY <1>1, CliInitInv, CliInductive, PTL DEF CliSpec

-----------------------------------------------------------------------------
(* TelegramIngress.                                                         *)

(* What is in a sequence.                                                   *)
LEMMA RangeIs ==
  ASSUME NEW S, NEW s \in Seq(S)
  PROVE  Range(s) = {s[i] : i \in 1..Len(s)}
<1>1. DOMAIN s = 1..Len(s)
  OBVIOUS
<1> QED
  BY <1>1 DEF Range

(* What is in a sequence over a set is in the set.                          *)
LEMMA RangeInSet ==
  ASSUME NEW S, NEW s \in Seq(S)
  PROVE  Range(s) \subseteq S
<1>1. \A i \in 1..Len(s) : s[i] \in S
  OBVIOUS
<1> QED
  BY <1>1, RangeIs

(* Nothing is in the empty sequence.                                        *)
LEMMA RangeOfNone == Range(<<>>) = {}
BY DEF Range

(* Append adds its element.                                                 *)
LEMMA RangeAppended ==
  ASSUME NEW S, NEW s \in Seq(S), NEW e \in S
  PROVE  Range(Append(s, e)) = Range(s) \cup {e}
<1> DEFINE t == Append(s, e)
<1>1. /\ t \in Seq(S) /\ Len(t) = Len(s) + 1 /\ Len(s) \in Nat
      /\ \A i \in 1..Len(s) : t[i] = s[i]
      /\ t[Len(s) + 1] = e
  BY Appended
<1> HIDE DEF t
<1>2. \A x : x \in Range(s) <=> (\E i \in 1..Len(s) : x = s[i])
  BY RangeIs
<1>3. \A x : x \in Range(t) <=> (\E i \in 1..Len(t) : x = t[i])
  BY <1>1, RangeIs
<1>4. \A i \in 1..Len(t) : i \in 1..Len(s) \/ i = Len(s) + 1
  BY <1>1
<1>5. 1..Len(s) \subseteq 1..Len(t) /\ Len(s) + 1 \in 1..Len(t)
  BY <1>1
<1>6. \A x : x \in Range(t) <=> x \in Range(s) \/ x = e
  BY <1>1, <1>2, <1>3, <1>4, <1>5
<1> QED
  BY <1>6 DEF t

(* Head and Tail share the elements.                                        *)
LEMMA RangeHeaded ==
  ASSUME NEW S, NEW s \in Seq(S), s # <<>>
  PROVE  Range(s) = {Head(s)} \cup Range(Tail(s))
<1> DEFINE t == Tail(s)
           e == Head(s)
<1>1. /\ e = s[1] /\ Len(s) \in Nat /\ Len(s) >= 1
      /\ t \in Seq(S) /\ Len(t) = Len(s) - 1
      /\ \A i \in 1..(Len(s) - 1) : t[i] = s[i + 1]
  BY Headed
<1> HIDE DEF t, e
<1>2. \A x : x \in Range(s) <=> (\E i \in 1..Len(s) : x = s[i])
  BY RangeIs
<1>3. \A x : x \in Range(t) <=> (\E i \in 1..Len(t) : x = t[i])
  BY <1>1, RangeIs
<1>4. \A i \in 1..Len(s) : i = 1 \/ (i - 1 \in 1..Len(t) /\ s[i] = t[i - 1])
  BY <1>1
<1>5. \A i \in 1..Len(t) : i + 1 \in 1..Len(s) /\ t[i] = s[i + 1]
  BY <1>1
<1>6. 1 \in 1..Len(s)
  BY <1>1
<1>7. \A x : x \in Range(s) <=> x \in Range(t) \/ x = e
  BY <1>1, <1>2, <1>3, <1>4, <1>5, <1>6
<1> QED
  BY <1>7 DEF t, e

(* A concatenation has the elements of both.                                *)
LEMMA RangeJoined ==
  ASSUME NEW S, NEW s \in Seq(S), NEW t \in Seq(S)
  PROVE  s \o t \in Seq(S) /\ Range(s \o t) = Range(s) \cup Range(t)
<1> DEFINE b == s \o t
<1>1. /\ b \in Seq(S) /\ Len(b) = Len(s) + Len(t) /\ Len(s) \in Nat /\ Len(t) \in Nat
      /\ \A i \in 1..Len(s) : b[i] = s[i]
      /\ \A i \in 1..Len(t) : b[Len(s) + i] = t[i]
  OBVIOUS
<1> HIDE DEF b
<1>2. \A x : x \in Range(s) <=> (\E i \in 1..Len(s) : x = s[i])
  BY RangeIs
<1>3. \A x : x \in Range(t) <=> (\E i \in 1..Len(t) : x = t[i])
  BY RangeIs
<1>4. \A x : x \in Range(b) <=> (\E i \in 1..Len(b) : x = b[i])
  BY <1>1, RangeIs
<1>5. ASSUME NEW i \in 1..Len(b)
      PROVE  \/ i \in 1..Len(s) /\ b[i] = s[i]
             \/ i - Len(s) \in 1..Len(t) /\ b[i] = t[i - Len(s)]
  <2>1. CASE i <= Len(s)
    BY <1>1, <2>1
  <2>2. CASE ~(i <= Len(s))
    <3>1. i - Len(s) \in 1..Len(t) /\ Len(s) + (i - Len(s)) = i
      BY <1>1, <2>2
    <3>2. b[Len(s) + (i - Len(s))] = t[i - Len(s)]
      BY <1>1, <3>1
    <3> QED
      BY <3>1, <3>2
  <2> QED
    BY <2>1, <2>2
<1>6. \A i \in 1..Len(s) : i \in 1..Len(b) /\ b[i] = s[i]
  BY <1>1
<1>7. \A i \in 1..Len(t) : Len(s) + i \in 1..Len(b) /\ b[Len(s) + i] = t[i]
  BY <1>1
<1>8. ASSUME NEW x \in Range(b) PROVE x \in Range(s) \cup Range(t)
  <2>1. PICK i \in 1..Len(b) : x = b[i]
    BY <1>4
  <2> QED
    BY <1>2, <1>3, <1>5, <2>1
<1>9. ASSUME NEW x \in Range(s) PROVE x \in Range(b)
  BY <1>2, <1>4, <1>6
<1>10. ASSUME NEW x \in Range(t) PROVE x \in Range(b)
  BY <1>3, <1>4, <1>7
<1> QED
  BY <1>1, <1>8, <1>9, <1>10 DEF b

(* No update was received.                                                  *)
LEMMA IngressInitInv == IngressInit => IngressInv
<1> SUFFICES ASSUME IngressInit PROVE IngressInv
  OBVIOUS
<1> USE IngressAssumption DEF IngressInit
<1>1. IngressKnown
  <2>1. /\ batch \in Seq(Updates) /\ backlog \in Seq(Updates) /\ leftover \in Seq(Updates)
        /\ window \in Seq(Updates) /\ Len(backlog) <= QueueCap /\ Len(window) <= WindowCap
    OBVIOUS
  <2>3. confirmed \in 0..MaxUpdates /\ offset \in 0..(MaxUpdates + 1) /\ mishaps \in 0..MaxMishaps
    OBVIOUS
  <2>4. /\ keys \subseteq Updates /\ handled \in [Updates -> Nat]
        /\ dropped \subseteq Updates /\ unkeyed \subseteq Updates /\ lost \subseteq Updates
    OBVIOUS
  <2>2. /\ hand \in [Workers -> [update : Updates \cup {None}, at : {"idle", "check", "record", "process"}]]
        /\ \A w \in Workers : hand[w].at = "idle"
    BY DEF Idle
  <2> QED
    BY <2>1, <2>2, <2>3, <2>4 DEF IngressKnown, IngressTypeOK
<1>2. \A w \in Workers : \A u : ~ Has(w, u, "process")
  BY DEF Has, Idle
<1>3. KeyedOnce
  BY <1>2 DEF KeyedOnce
<1>4. ReceivedAccounted
  <2>1. Range(window) = {} /\ keys = {}
    BY RangeOfNone
  <2>2. \A u \in Updates : ~ (u <= confirmed \/ u < offset)
    BY DEF Updates
  <2> QED
    BY <2>1, <2>2 DEF ReceivedAccounted
<1>5. BatchNext
  BY DEF BatchNext
<1> QED
  BY <1>1, <1>3, <1>4, <1>5 DEF IngressInv

(* The ids that follow the confirmed ones, as many as are left, are updates. *)
LEMMA RunFits ==
  ASSUME NEW m \in Nat, NEW c \in 0..m, NEW n \in 0..(m - c)
  PROVE  n \in Nat /\ \A i \in 1..n : c + i \in 1..m
OBVIOUS

(* Every variable keeps to its values, by action.                           *)
LEMMA PollKnown ==
  ASSUME IngressKnown, Poll
  PROVE  IngressKnown' /\ BatchNext'
<1> USE IngressAssumption DEF IngressKnown
<1>1. confirmed' \in 0..MaxUpdates /\ confirmed' \in Nat /\ (offset <= confirmed + 1 \/ offset = confirmed' + 1)
  BY DEF Poll, IngressTypeOK
<1>2. PICK n \in 0..(MaxUpdates - confirmed') : batch' = [i \in 1..n |-> confirmed' + i]
  BY DEF Poll
<1>3. n \in Nat /\ \A i \in 1..n : confirmed' + i \in Updates
  BY <1>1, <1>2, RunFits DEF Updates
<1>4. batch' \in Seq(Updates) /\ Len(batch') = n /\ \A i \in 1..n : batch'[i] = confirmed' + i
  <2>1. batch' \in [1..n -> Updates]
    BY <1>2, <1>3
  <2>2. batch' \in Seq(Updates)
    BY <1>3, <2>1, SeqDef
  <2>3. DOMAIN batch' = 1..n /\ DOMAIN batch' = 1..Len(batch') /\ Len(batch') \in Nat
    BY <2>1, <2>2
  <2>4. Len(batch') = n
    BY <1>3, <2>3
  <2> QED
    BY <1>2, <2>2, <2>4
<1>5. IngressKnown'
  BY <1>1, <1>4 DEF Poll, IngressTypeOK, bookVars
<1>6. BatchNext'
  BY <1>1, <1>2, <1>4 DEF BatchNext
<1> QED
  BY <1>5, <1>6

(* Enqueue leaves the queue within its capacity and the batch going on      *)
(* behind the offset.                                                       *)
LEMMA EnqueueKnown ==
  ASSUME IngressKnown, BatchNext, Enqueue
  PROVE  IngressKnown' /\ BatchNext'
<1> USE IngressAssumption DEF IngressKnown
<1> DEFINE u == Head(batch)
<1>1. /\ u = batch[1] /\ u \in Updates /\ Len(batch) \in Nat /\ Len(batch) >= 1
      /\ batch' = Tail(batch) /\ batch' \in Seq(Updates) /\ Len(batch') = Len(batch) - 1
      /\ \A i \in 1..(Len(batch) - 1) : batch'[i] = batch[i + 1]
      /\ offset' = u + 1 /\ offset' \in 0..MaxUpdates + 1
  <2>1. batch # <<>> /\ batch \in Seq(Updates) /\ batch' = Tail(batch) /\ offset' = u + 1
    BY DEF Enqueue, Offer, IngressTypeOK
  <2>2. /\ u = batch[1] /\ u \in Updates /\ Len(batch) \in Nat /\ Len(batch) >= 1
        /\ Tail(batch) \in Seq(Updates) /\ Len(Tail(batch)) = Len(batch) - 1
        /\ \A i \in 1..(Len(batch) - 1) : Tail(batch)[i] = batch[i + 1]
    BY <2>1, Headed
  <2>3. u + 1 \in 0..MaxUpdates + 1
    BY <2>2 DEF Updates
  <2> QED
    BY <2>1, <2>2, <2>3
<1> HIDE DEF u
<1>2. \/ Len(backlog) < QueueCap /\ backlog' = Append(backlog, u) /\ dropped' = dropped
      \/ backlog' = backlog /\ dropped' = dropped \cup {u}
  BY DEF Enqueue, Offer, u
<1>3. backlog' \in Seq(Updates) /\ Len(backlog') <= QueueCap
  <2>1. backlog \in Seq(Updates) /\ Len(backlog) <= QueueCap
    BY DEF IngressTypeOK
  <2>2. /\ Append(backlog, u) \in Seq(Updates) /\ Len(Append(backlog, u)) = Len(backlog) + 1
        /\ Len(backlog) \in Nat
    BY <1>1, <2>1, Appended
  <2> QED
    BY <1>2, <2>1, <2>2
<1>4. IngressKnown'
  BY <1>1, <1>2, <1>3 DEF Enqueue, IngressTypeOK
<1>5. BatchNext'
  <2>1. \A i \in 1..Len(batch') : i + 1 \in 1..Len(batch)
    BY <1>1
  <2>2. ASSUME NEW i \in 1..Len(batch') PROVE batch'[i] = u + i
    <3>1. batch'[i] = batch[i + 1] /\ i + 1 \in 1..Len(batch) /\ (i + 1) - 1 = i
      BY <1>1, <2>1
    <3> QED
      BY <1>1, <3>1 DEF BatchNext
  <2>3. batch' # <<>> => 1 \in 1..Len(batch')
    BY <1>1
  <2>4. batch' # <<>> => batch'[1] = u + 1
    BY <2>2, <2>3
  <2>5. ASSUME NEW i \in 1..Len(batch') PROVE batch'[i] = (u + 1) + (i - 1)
    <3>1. i \in Nat /\ u \in Nat
      BY <1>1, <2>5 DEF Updates
    <3>2. u + i = (u + 1) + (i - 1)
      BY <3>1
    <3> QED
      BY <2>2, <2>5, <3>2
  <2>6. \A i \in 1..Len(batch') : 1 \in 1..Len(batch')
    BY <1>1
  <2>7. \A i \in 1..Len(batch') : batch'[i] = batch'[1] + (i - 1)
    BY <2>2, <2>5, <2>6
  <2> QED
    BY <1>1, <2>4, <2>7 DEF BatchNext, Updates
<1> QED
  BY <1>4, <1>5

(* A worker goes on with an update or drops it.                             *)
Hands == [update : Updates \cup {None}, at : {"idle", "check", "record", "process"}]

(* What a worker turns to, and that the others stay where they are.         *)
LEMMA HandMoves ==
  ASSUME IngressKnown, NEW w \in Workers, NEW h \in Hands, hand' = [hand EXCEPT ![w] = h],
         h.at # "idle" => h.update \in Updates
  PROVE  /\ hand' \in [Workers -> Hands]
         /\ \A v \in Workers : hand'[v].at # "idle" => hand'[v].update \in Updates
         /\ hand'[w] = h /\ \A v \in Workers : v # w => hand'[v] = hand[v]
BY DEF IngressKnown, IngressTypeOK, Hands

(* What there is to turn to.                                                *)
LEMMA HandKinds ==
  /\ Idle \in Hands /\ Idle.at = "idle"
  /\ \A u \in Updates : \A turn \in {"check", "record", "process"} :
       [update |-> u, at |-> turn] \in Hands /\ [update |-> u, at |-> turn].at # "idle"
       /\ [update |-> u, at |-> turn].update = u /\ [update |-> u, at |-> turn] # Idle
BY DEF Hands, Idle

(* A worker that puts its update down, or goes on with it.                  *)
LEMMA HandTurns ==
  ASSUME IngressKnown, NEW w \in Workers, NEW u \in Updates,
         NEW turn \in {"check", "record", "process"},
         \/ hand' = [hand EXCEPT ![w] = Idle]
         \/ hand' = [hand EXCEPT ![w] = [update |-> u, at |-> turn]]
  PROVE  /\ hand' \in [Workers -> Hands]
         /\ \A v \in Workers : hand'[v].at # "idle" => hand'[v].update \in Updates
<1>1. CASE hand' = [hand EXCEPT ![w] = Idle]
  BY <1>1, HandMoves, HandKinds
<1>2. CASE hand' = [hand EXCEPT ![w] = [update |-> u, at |-> turn]]
  BY <1>2, HandMoves, HandKinds
<1> QED
  BY <1>1, <1>2

(* What a worker with an update has.                                        *)
LEMMA HandHas ==
  ASSUME IngressKnown, NEW w \in Workers, hand[w].at # "idle"
  PROVE  Has(w, hand[w].update, hand[w].at) /\ hand[w].update \in Updates
<1>1. hand[w] \in Hands
  BY DEF IngressKnown, IngressTypeOK, Hands
<1>2. hand[w] = [update |-> hand[w].update, at |-> hand[w].at]
  BY <1>1 DEF Hands
<1> QED
  BY <1>2 DEF Has, IngressKnown

(* A worker takes the first update of a queue.                              *)
LEMMA Taken ==
  ASSUME IngressKnown, NEW w \in Workers, Take(w)
  PROVE  \E u \in Updates :
           /\ hand' = [hand EXCEPT ![w] = [update |-> u, at |-> "check"]]
           /\ Queued \subseteq Queued' \cup {u}
           /\ backlog' \in Seq(Updates) /\ leftover' \in Seq(Updates)
           /\ Len(backlog') <= QueueCap
<1>1. backlog \in Seq(Updates) /\ leftover \in Seq(Updates) /\ Len(backlog) <= QueueCap
  BY DEF IngressKnown, IngressTypeOK
<1>2. QueueCap \in Nat
  BY IngressAssumption
<1>3. CASE backlog # <<>> /\ Turn(w, Head(backlog), "check") /\ backlog' = Tail(backlog)
           /\ UNCHANGED leftover
  <2>1. /\ Head(backlog) \in Updates /\ Tail(backlog) \in Seq(Updates)
        /\ Len(Tail(backlog)) = Len(backlog) - 1 /\ Len(backlog) \in Nat
    BY <1>1, <1>3, Headed
  <2>2. Range(backlog) = {Head(backlog)} \cup Range(Tail(backlog))
    BY <1>1, <1>3, RangeHeaded
  <2>3. Queued \subseteq Queued' \cup {Head(backlog)}
    BY <1>3, <2>2 DEF Queued
  <2>4. Len(backlog') <= QueueCap
    BY <1>1, <1>2, <1>3, <2>1
  <2> QED
    BY <1>1, <1>3, <2>1, <2>3, <2>4 DEF Turn
<1>4. CASE leftover # <<>> /\ Turn(w, Head(leftover), "check") /\ leftover' = Tail(leftover)
           /\ UNCHANGED backlog
  <2>1. Head(leftover) \in Updates /\ Tail(leftover) \in Seq(Updates)
    BY <1>1, <1>4, Headed
  <2>2. Range(leftover) = {Head(leftover)} \cup Range(Tail(leftover))
    BY <1>1, <1>4, RangeHeaded
  <2>3. Queued \subseteq Queued' \cup {Head(leftover)}
    BY <1>4, <2>2 DEF Queued
  <2> QED
    BY <1>1, <1>4, <2>1, <2>3 DEF Turn
<1> QED
  BY <1>3, <1>4 DEF Take

(* The window grows by the update at most and keeps to its size.            *)
LEMMA WindowGrows ==
  ASSUME IngressKnown, NEW u \in Updates
  PROVE  LET order == Evicted(Append(window, u)) IN
           /\ order \in Seq(Updates) /\ Len(order) <= WindowCap
           /\ Range(order) \subseteq Range(window) \cup {u}
<1> DEFINE t == Append(window, u)
<1>1. window \in Seq(Updates) /\ Len(window) <= WindowCap /\ WindowCap \in Nat
  BY IngressAssumption DEF IngressKnown, IngressTypeOK
<1>2. /\ t \in Seq(Updates) /\ Len(t) = Len(window) + 1 /\ Len(window) \in Nat
      /\ t[Len(window) + 1] = u
  BY <1>1, Appended
<1>3. Range(t) = Range(window) \cup {u}
  BY <1>1, RangeAppended
<1> HIDE DEF t
<1>4. t # <<>>
  BY <1>2
<1>5. /\ Tail(t) \in Seq(Updates) /\ Len(Tail(t)) = Len(t) - 1
  BY <1>2, <1>4, Headed
<1>6. Range(t) = {Head(t)} \cup Range(Tail(t))
  BY <1>2, <1>4, RangeHeaded
<1>7. CASE Len(t) > WindowCap
  <2>1. Evicted(t) = Tail(t)
    BY <1>7 DEF Evicted
  <2>2. Len(Tail(t)) <= WindowCap
    BY <1>1, <1>2, <1>5
  <2>3. Range(Tail(t)) \subseteq Range(window) \cup {u}
    BY <1>3, <1>6
  <2> QED
    BY <1>5, <2>1, <2>2, <2>3 DEF t
<1>8. CASE ~(Len(t) > WindowCap)
  <2>1. Evicted(t) = t
    BY <1>8 DEF Evicted
  <2>2. Len(t) <= WindowCap
    BY <1>1, <1>2, <1>8
  <2> QED
    BY <1>2, <1>3, <2>1, <2>2 DEF t
<1> QED
  BY <1>7, <1>8

(* Mishaps are counted up to their bound.                                   *)
LEMMA MishapCounted == IngressKnown /\ Mishap => mishaps' \in 0..MaxMishaps
BY IngressAssumption DEF Mishap, IngressKnown, IngressTypeOK

(* Take: one update from a queue to a worker.                               *)
LEMMA TakeKnown ==
  ASSUME IngressKnown, BatchNext, NEW w \in Workers, Take(w)
  PROVE  IngressKnown' /\ BatchNext'
<1>1. PICK u \in Updates :
         /\ hand' = [hand EXCEPT ![w] = [update |-> u, at |-> "check"]]
         /\ backlog' \in Seq(Updates) /\ leftover' \in Seq(Updates)
         /\ Len(backlog') <= QueueCap
  BY Taken
<1>2. /\ hand' \in [Workers -> Hands]
      /\ \A v \in Workers : hand'[v].at # "idle" => hand'[v].update \in Updates
  BY <1>1, HandMoves, HandKinds
<1>3. UNCHANGED <<confirmed, offset, batch, window, keys, bookVars>>
  BY DEF Take
<1>4. IngressKnown'
  BY <1>1, <1>2, <1>3 DEF IngressKnown, IngressTypeOK, Hands, bookVars
<1> QED
  BY <1>3, <1>4 DEF BatchNext

(* CheckWindow: the window keeps to its size.                               *)
LEMMA CheckWindowKnown ==
  ASSUME IngressKnown, BatchNext, NEW w \in Workers, CheckWindow(w)
  PROVE  IngressKnown' /\ BatchNext'
<1> DEFINE u == hand[w].update
<1>1. u \in Updates /\ hand[w].at = "check"
  BY HandHas DEF CheckWindow
<1>2. \/ hand' = [hand EXCEPT ![w] = Idle]
      \/ hand' = [hand EXCEPT ![w] = [update |-> u, at |-> "record"]]
  BY DEF CheckWindow, Discard, Turn
<1>3. /\ hand' \in [Workers -> Hands]
      /\ \A v \in Workers : hand'[v].at # "idle" => hand'[v].update \in Updates
  BY <1>1, <1>2, HandTurns
<1>4. window' \in Seq(Updates) /\ Len(window') <= WindowCap
  <2>1. window \in Seq(Updates) /\ Len(window) <= WindowCap
    BY DEF IngressKnown, IngressTypeOK
  <2>2. Evicted(Append(window, u)) \in Seq(Updates) /\ Len(Evicted(Append(window, u))) <= WindowCap
    BY <1>1, WindowGrows
  <2>3. window' = window \/ window' = Evicted(Append(window, u))
    BY DEF CheckWindow
  <2> QED
    BY <2>1, <2>2, <2>3
<1>5. UNCHANGED <<confirmed, offset, batch, backlog, leftover, keys, bookVars>>
  BY DEF CheckWindow
<1>6. IngressKnown'
  BY <1>3, <1>4, <1>5 DEF IngressKnown, IngressTypeOK, Hands, bookVars
<1> QED
  BY <1>5, <1>6 DEF BatchNext

(* CheckTable: the key of an update, or a mishap.                           *)
LEMMA CheckTableKnown ==
  ASSUME IngressKnown, BatchNext, NEW w \in Workers, CheckTable(w)
  PROVE  IngressKnown' /\ BatchNext'
<1> DEFINE u == hand[w].update
<1>1. u \in Updates /\ hand[w].at = "record"
  BY HandHas DEF CheckTable
<1>2. \/ hand' = [hand EXCEPT ![w] = Idle]
      \/ hand' = [hand EXCEPT ![w] = [update |-> u, at |-> "process"]]
  BY DEF CheckTable, RecordKey, Discard, Turn
<1>3. /\ hand' \in [Workers -> Hands]
      /\ \A v \in Workers : hand'[v].at # "idle" => hand'[v].update \in Updates
  BY <1>1, <1>2, HandTurns
<1>4. keys' \subseteq Updates /\ unkeyed' \subseteq Updates /\ mishaps' \in 0..MaxMishaps
  <2>1. keys \subseteq Updates /\ unkeyed \subseteq Updates /\ mishaps \in 0..MaxMishaps
    BY DEF IngressKnown, IngressTypeOK
  <2>2. keys' = keys \/ keys' = keys \cup {u}
    BY DEF CheckTable, RecordKey
  <2>3. unkeyed' = unkeyed \/ unkeyed' = unkeyed \cup {u}
    BY DEF CheckTable
  <2>4. mishaps' = mishaps \/ (mishaps < MaxMishaps /\ mishaps' = mishaps + 1)
    BY DEF CheckTable, Mishap
  <2>5. mishaps' \in 0..MaxMishaps
    BY <2>1, <2>4, IngressAssumption
  <2> QED
    BY <1>1, <2>1, <2>2, <2>3, <2>5
<1>5. UNCHANGED <<confirmed, offset, batch, backlog, leftover, window, handled, dropped, lost>>
  BY DEF CheckTable
<1>6. IngressKnown'
  BY <1>3, <1>4, <1>5 DEF IngressKnown, IngressTypeOK, Hands
<1> QED
  BY <1>5, <1>6 DEF BatchNext

(* Process: the worker is idle again.                                       *)
LEMMA ProcessKnown ==
  ASSUME IngressKnown, BatchNext, NEW w \in Workers, Process(w)
  PROVE  IngressKnown' /\ BatchNext'
<1> DEFINE u == hand[w].update
<1>1. u \in Updates
  BY HandHas DEF Process
<1>2. hand' = [hand EXCEPT ![w] = Idle]
  BY DEF Process, Discard
<1>3. /\ hand' \in [Workers -> Hands]
      /\ \A v \in Workers : hand'[v].at # "idle" => hand'[v].update \in Updates
  BY <1>2, HandMoves, HandKinds
<1>4. handled' \in [Updates -> Nat]
  <2>1. handled \in [Updates -> Nat] /\ handled' = [handled EXCEPT ![u] = @ + 1]
    BY DEF Process, IngressKnown, IngressTypeOK
  <2> QED
    BY <1>1, <2>1
<1>5. UNCHANGED <<confirmed, offset, batch, backlog, leftover, window, keys, dropped, unkeyed, lost, mishaps>>
  BY DEF Process
<1>6. IngressKnown'
  BY <1>3, <1>4, <1>5 DEF IngressKnown, IngressTypeOK, Hands
<1> QED
  BY <1>5, <1>6 DEF BatchNext

(* Prune: a key goes.                                                       *)
LEMMA PruneKnown ==
  ASSUME IngressKnown, BatchNext, Prune
  PROVE  IngressKnown' /\ BatchNext'
<1>1. keys' \subseteq Updates /\ unkeyed' \subseteq Updates
  BY DEF Prune, IngressKnown, IngressTypeOK
<1>2. mishaps' \in 0..MaxMishaps
  BY MishapCounted DEF Prune
<1>3. UNCHANGED <<confirmed, offset, batch, backlog, leftover, hand, window, handled, dropped, lost>>
  BY DEF Prune
<1>4. IngressKnown'
  BY <1>1, <1>2, <1>3 DEF IngressKnown, IngressTypeOK
<1> QED
  BY <1>3, <1>4 DEF BatchNext

(* AdapterRestarts: what was queued is left to the old workers.             *)
LEMMA RestartKnown ==
  ASSUME IngressKnown, AdapterRestarts
  PROVE  IngressKnown' /\ BatchNext' /\ Queued' = Queued
<1>1. leftover \in Seq(Updates) /\ backlog \in Seq(Updates)
  BY DEF IngressKnown, IngressTypeOK
<1>2. leftover' \in Seq(Updates) /\ Range(leftover') = Range(leftover) \cup Range(backlog)
  BY <1>1, RangeJoined DEF AdapterRestarts
<1>3. batch' = <<>> /\ window' = <<>> /\ backlog' = <<>> /\ offset' = 0
  BY DEF AdapterRestarts
<1>4. /\ batch' \in Seq(Updates) /\ window' \in Seq(Updates) /\ backlog' \in Seq(Updates)
      /\ Len(backlog') <= QueueCap /\ Len(window') <= WindowCap
      /\ offset' \in 0..MaxUpdates + 1
  BY <1>3, IngressAssumption
<1>5. mishaps' \in 0..MaxMishaps
  BY MishapCounted DEF AdapterRestarts
<1>6. UNCHANGED <<confirmed, hand, keys, handled, dropped, unkeyed, lost>>
  BY DEF AdapterRestarts
<1>7. IngressKnown'
  BY <1>2, <1>4, <1>5, <1>6 DEF IngressKnown, IngressTypeOK
<1>8. Queued' = Queued
  BY <1>2, <1>3, RangeOfNone DEF Queued
<1>9. BatchNext'
  BY <1>3 DEF BatchNext
<1> QED
  BY <1>7, <1>8, <1>9

(* Crash: what is lost are updates.                                         *)
LEMMA CrashKnown ==
  ASSUME IngressKnown, Crash
  PROVE  IngressKnown' /\ BatchNext'
<1>1. batch' = <<>> /\ window' = <<>> /\ backlog' = <<>> /\ leftover' = <<>> /\ offset' = 0
  BY DEF Crash
<1>2. /\ batch' \in Seq(Updates) /\ window' \in Seq(Updates) /\ backlog' \in Seq(Updates)
      /\ leftover' \in Seq(Updates)
      /\ Len(backlog') <= QueueCap /\ Len(window') <= WindowCap
      /\ offset' \in 0..MaxUpdates + 1
  BY <1>1, IngressAssumption
<1>3. mishaps' \in 0..MaxMishaps
  BY MishapCounted DEF Crash
<1>4. lost' \subseteq Updates
  <2>1. Range(batch) \subseteq Updates /\ Range(backlog) \subseteq Updates /\ Range(leftover) \subseteq Updates
    BY RangeInSet DEF IngressKnown, IngressTypeOK
  <2>2. InHands \subseteq Updates
    BY DEF InHands, IngressKnown, IngressTypeOK
  <2>3. lost \subseteq Updates
    BY DEF IngressKnown, IngressTypeOK
  <2> QED
    BY <2>1, <2>2, <2>3 DEF Crash, Queued
<1>5. /\ hand' \in [Workers -> Hands]
      /\ \A v \in Workers : hand'[v].at = "idle"
  BY HandKinds DEF Crash
<1>6. UNCHANGED <<confirmed, keys, handled, dropped, unkeyed>>
  BY DEF Crash
<1>7. IngressKnown'
  BY <1>2, <1>3, <1>4, <1>5, <1>6 DEF IngressKnown, IngressTypeOK, Hands
<1>8. BatchNext'
  BY <1>1 DEF BatchNext
<1> QED
  BY <1>7, <1>8

(* What the workers have after one of them turned to an update ...          *)
LEMMA HasTurned ==
  ASSUME IngressKnown, NEW w \in Workers, NEW u, NEW at0,
         hand' = [hand EXCEPT ![w] = [update |-> u, at |-> at0]]
  PROVE  /\ \A x, turn : Has(w, x, turn)' <=> (x = u /\ turn = at0)
         /\ \A v \in Workers : v # w => \A x, turn : Has(v, x, turn)' <=> Has(v, x, turn)
<1>1. hand'[w] = [update |-> u, at |-> at0] /\ \A v \in Workers : v # w => hand'[v] = hand[v]
  BY DEF IngressKnown, IngressTypeOK
<1>2. \A x, turn : ([update |-> u, at |-> at0] = [update |-> x, at |-> turn]) <=> (x = u /\ turn = at0)
  OBVIOUS
<1> QED
  BY <1>1, <1>2 DEF Has

(* ... or put one down.                                                     *)
LEMMA HasDropped ==
  ASSUME IngressKnown, NEW w \in Workers, hand' = [hand EXCEPT ![w] = Idle]
  PROVE  /\ \A x \in Updates : \A turn : ~ Has(w, x, turn)'
         /\ \A v \in Workers : v # w => \A x, turn : Has(v, x, turn)' <=> Has(v, x, turn)
<1>1. hand'[w] = Idle /\ \A v \in Workers : v # w => hand'[v] = hand[v]
  BY DEF IngressKnown, IngressTypeOK
<1>2. ASSUME NEW x \in Updates, NEW turn PROVE [update |-> x, at |-> turn] # Idle
  BY IngressAssumption DEF Idle, Updates
<1> QED
  BY <1>1, <1>2 DEF Has

(* A worker has one update at one place.                                    *)
LEMMA HasOne ==
  ASSUME NEW w, NEW x, NEW turn, NEW y, NEW bt, Has(w, x, turn), Has(w, y, bt)
  PROVE  x = y /\ turn = bt
<1>1. [update |-> x, at |-> turn] = [update |-> y, at |-> bt]
  BY DEF Has
<1> QED
  BY <1>1

(* Nobody gets past the keys, and no key goes.                              *)
LEMMA KeyedKept ==
  ASSUME KeyedOnce, handled' = handled, keys' = keys, unkeyed' = unkeyed,
         \A v \in Workers : \A x \in Updates : Has(v, x, "process")' => Has(v, x, "process")
  PROVE  KeyedOnce'
BY DEF KeyedOnce

(* CheckTable: a worker gets past the keys with an update whose key was not *)
(* there, so nobody else had and it was not processed.                      *)
LEMMA CheckTableKeyed ==
  ASSUME IngressKnown, KeyedOnce, NEW w \in Workers, CheckTable(w)
  PROVE  KeyedOnce'
<1>1. PICK u \in Updates : u = hand[w].update /\ Has(w, u, "record")
  BY HandHas DEF CheckTable
<1>2. handled' = handled
  BY DEF CheckTable
<1>3. CASE u \in keys /\ hand' = [hand EXCEPT ![w] = Idle] /\ keys' = keys /\ unkeyed' = unkeyed
  BY <1>2, <1>3, HasDropped, KeyedKept
<1>4. CASE /\ u \notin keys /\ hand' = [hand EXCEPT ![w] = [update |-> u, at |-> "process"]]
           /\ keys' = keys \cup {u} /\ unkeyed' = unkeyed
  <2>0. /\ hand'[w] = [update |-> u, at |-> "process"]
        /\ \A v \in Workers : v # w => hand'[v] = hand[v]
    BY <1>4 DEF IngressKnown, IngressTypeOK
  <2>5. \A x : Has(w, x, "process")' <=> (x = u)
    BY <2>0 DEF Has
  <2>6. \A v \in Workers : v # w => \A x : Has(v, x, "process")' <=> Has(v, x, "process")
    BY <2>0 DEF Has
  <2>1. \A x : x # u => \A v \in Workers : Has(v, x, "process")' => Has(v, x, "process")
    BY <2>5, <2>6 DEF Has
  <2>2. u \notin unkeyed => handled[u] = 0 /\ \A v \in Workers : ~ Has(v, u, "process")
    <3>1. handled[u] \in Nat
      BY <1>1 DEF IngressKnown, IngressTypeOK
    <3> QED
      BY <1>1, <1>4, <3>1 DEF KeyedOnce
  <2>3. ASSUME NEW x \in Updates \ unkeyed, x # u
        PROVE  /\ handled'[x] <= 1 /\ (handled'[x] = 1 => x \in keys')
               /\ \A v \in Workers : Has(v, x, "process")' =>
                    /\ x \in keys' /\ handled'[x] = 0
                    /\ \A y \in Workers : Has(y, x, "process")' => y = v
    BY <1>2, <1>4, <2>1, <2>3 DEF KeyedOnce
  <2>4. u \notin unkeyed => 
          /\ handled'[u] <= 1 /\ u \in keys' /\ handled'[u] = 0
          /\ \A v \in Workers : Has(v, u, "process")' => v = w
    <3>1. \A v \in Workers : v # w /\ Has(v, u, "process")' => Has(v, u, "process")
      BY <2>6
    <3> QED
      BY <1>2, <1>4, <2>2, <3>1
  <2> QED
    BY <1>4, <2>3, <2>4 DEF KeyedOnce, Has
<1>5. CASE /\ hand' = [hand EXCEPT ![w] = [update |-> u, at |-> "process"]]
           /\ keys' = keys /\ unkeyed' = unkeyed \cup {u}
  <2>0. /\ hand'[w] = [update |-> u, at |-> "process"]
        /\ \A v \in Workers : v # w => hand'[v] = hand[v]
    BY <1>5 DEF IngressKnown, IngressTypeOK
  <2>1. \A x : Has(w, x, "process")' <=> x = u
    BY <2>0 DEF Has
  <2>2. \A v \in Workers : v # w => \A x : Has(v, x, "process")' <=> Has(v, x, "process")
    BY <2>0 DEF Has
  <2> QED
    BY <1>2, <1>5, <2>1, <2>2 DEF KeyedOnce
<1> QED
  <2>1. keys \cup {u} = keys \/ u \notin keys
    OBVIOUS
  <2> QED
    BY <1>1, <1>3, <1>4, <1>5, <2>1 DEF CheckTable, RecordKey, Discard, Turn

(* Process: the one worker past the keys is the one that counts.            *)
LEMMA ProcessKeyed ==
  ASSUME IngressKnown, KeyedOnce, NEW w \in Workers, Process(w)
  PROVE  KeyedOnce'
<1>1. PICK u \in Updates : u = hand[w].update /\ Has(w, u, "process")
  BY HandHas DEF Process
<1>2. keys' = keys /\ unkeyed' = unkeyed
  BY DEF Process
<1>3. /\ \A x \in Updates : ~ Has(w, x, "process")'
      /\ \A v \in Workers : v # w => \A x : Has(v, x, "process")' <=> Has(v, x, "process")
  <2>1. hand' = [hand EXCEPT ![w] = Idle]
    BY DEF Process, Discard
  <2> QED
    BY <2>1, HasDropped
<1>4. handled[u] \in Nat /\ handled'[u] = handled[u] + 1 /\ \A x \in Updates : x # u => handled'[x] = handled[x]
  <2>1. handled \in [Updates -> Nat] /\ handled' = [handled EXCEPT ![u] = @ + 1]
    BY <1>1 DEF Process, IngressKnown, IngressTypeOK
  <2> QED
    BY <1>1, <2>1
<1>5. u \notin unkeyed => u \in keys /\ handled[u] = 0 /\ \A v \in Workers : Has(v, u, "process") => v = w
  BY <1>1 DEF KeyedOnce
<1>6. u \notin unkeyed => handled'[u] = 1 /\ u \in keys' /\ \A v \in Workers : ~ Has(v, u, "process")'
  <2>1. \A v \in Workers : v # w /\ Has(v, u, "process")' => Has(v, u, "process")
    BY <1>3
  <2>2. ~ Has(w, u, "process")'
    BY <1>1, <1>3
  <2> QED
    BY <1>2, <1>4, <1>5, <2>1, <2>2
<1>7. ASSUME NEW x \in Updates \ unkeyed, x # u
      PROVE  /\ handled'[x] <= 1 /\ (handled'[x] = 1 => x \in keys')
             /\ \A v \in Workers : Has(v, x, "process")' =>
                  /\ x \in keys' /\ handled'[x] = 0
                  /\ \A y \in Workers : Has(y, x, "process")' => y = v
  BY <1>2, <1>3, <1>4, <1>7 DEF KeyedOnce
<1> QED
  BY <1>2, <1>6, <1>7 DEF KeyedOnce, Has

(* Every step keeps the keys deciding.                                      *)
LEMMA KeyedInductive ==
  ASSUME IngressKnown, KeyedOnce, IngressNext
  PROVE  KeyedOnce'
<1>1. CASE Poll \/ Enqueue \/ AdapterRestarts
  <2>1. UNCHANGED <<hand, handled, keys, unkeyed>>
    BY <1>1 DEF Poll, Enqueue, Offer, AdapterRestarts, bookVars
  <2> QED
    BY <2>1, KeyedKept DEF Has
<1>2. CASE Prune
  BY <1>2 DEF Prune, KeyedOnce, Has
<1>3. CASE Crash
  <2>1. \A v \in Workers : \A x : hand'[v] = Idle
    BY <1>3 DEF Crash
  <2>2. ASSUME NEW x \in Updates PROVE [update |-> x, at |-> "process"] # Idle
    BY DEF Idle
  <2>3. UNCHANGED <<handled, keys, unkeyed>>
    BY <1>3 DEF Crash
  <2> QED
    BY <2>1, <2>2, <2>3, KeyedKept DEF Has
<1>4. ASSUME NEW w \in Workers, Take(w) PROVE KeyedOnce'
  <2>1. PICK u \in Updates : hand' = [hand EXCEPT ![w] = [update |-> u, at |-> "check"]]
    BY <1>4, Taken
  <2>2. UNCHANGED <<handled, keys, unkeyed>>
    BY <1>4 DEF Take, bookVars
  <2>3. \A v \in Workers : \A x \in Updates : Has(v, x, "process")' => Has(v, x, "process")
    BY <1>4, <2>1, HasTurned DEF Has
  <2> QED
    BY <2>2, <2>3, KeyedKept
<1>5. ASSUME NEW w \in Workers, CheckWindow(w) PROVE KeyedOnce'
  <2>1. UNCHANGED <<handled, keys, unkeyed>>
    BY <1>5 DEF CheckWindow, bookVars
  <2>2. CASE hand' = [hand EXCEPT ![w] = Idle]
    BY <1>5, <2>1, <2>2, HasDropped, KeyedKept
  <2>3. CASE hand' = [hand EXCEPT ![w] = [update |-> hand[w].update, at |-> "record"]]
    <3>1. \A v \in Workers : \A x \in Updates : Has(v, x, "process")' => Has(v, x, "process")
      BY <1>5, <2>3, HasTurned DEF Has
    <3> QED
      BY <2>1, <3>1, KeyedKept
  <2> QED
    BY <1>5, <2>2, <2>3 DEF CheckWindow, Discard, Turn
<1> QED
  BY <1>1, <1>2, <1>3, <1>4, <1>5, CheckTableKeyed, ProcessKeyed DEF IngressNext

(* What a step does to an update that was received.                         *)
LEMMA AccountedKept ==
  ASSUME ReceivedAccounted, IngressKnown, IngressKnown',
         \A x \in Updates : Passed(x) => Passed(x)',
         \A x \in Updates : Recorded(x) => Passed(x)' \/ Recorded(x)',
         \A x \in Updates : Waits(x) => Passed(x)' \/ Waits(x)',
         \A x \in keys' : x \in keys \/ Passed(x)',
         \A x \in Range(window)' : x \in Range(window) \/ Recorded(x)',
         \A x \in Updates : (x <= confirmed' \/ x < offset') =>
                              (x <= confirmed \/ x < offset \/ Waits(x)')
  PROVE  ReceivedAccounted'
<1>1. keys' \subseteq Updates /\ keys \subseteq Updates
  BY DEF IngressKnown, IngressTypeOK
<1>2. Range(window)' \subseteq Updates
  <2>1. window' \in Seq(Updates)
    BY DEF IngressKnown
  <2>2. Range(window') \subseteq Updates
    BY <2>1, RangeInSet
  <2>3. Range(window)' = Range(window')
    OBVIOUS
  <2> QED
    BY <2>2, <2>3
<1>3. ASSUME NEW x \in keys' PROVE Passed(x)'
  BY <1>1, <1>3 DEF ReceivedAccounted
<1>4. ASSUME NEW x \in Range(window)' PROVE Passed(x)' \/ Recorded(x)'
  BY <1>2, <1>4 DEF ReceivedAccounted
<1>5. ASSUME NEW x \in Updates, x <= confirmed' \/ x < offset' PROVE Passed(x)' \/ Waits(x)'
  BY <1>5 DEF ReceivedAccounted
<1> QED
  BY <1>3, <1>4, <1>5 DEF ReceivedAccounted

(* The same, when nobody turns to another update and the keys, the window   *)
(* and what was handled are left alone.                                     *)
LEMMA AccountedHands ==
  ASSUME hand' = hand, handled' = handled, lost \subseteq lost',
         Queued \cup dropped \subseteq Queued' \cup dropped'
  PROVE  \A x \in Updates : /\ Passed(x) => Passed(x)'
                            /\ Recorded(x) => Recorded(x)'
                            /\ Waits(x) => Waits(x)'
<1>1. \A v, x, turn : Has(v, x, turn)' <=> Has(v, x, turn)
  BY DEF Has
<1> QED
  BY <1>1 DEF Passed, Recorded, Waits, Has

(* Poll: what it confirms is below the offset.                              *)
LEMMA PollAccounted ==
  ASSUME IngressKnown, ReceivedAccounted, Poll
  PROVE  ReceivedAccounted'
<1>1. IngressKnown'
  BY PollKnown
<1>2. UNCHANGED <<offset, backlog, leftover, hand, window, keys, handled, dropped, lost>>
  BY DEF Poll, bookVars
<1>3. Queued' = Queued /\ Range(window)' = Range(window)
  BY <1>2 DEF Queued
<1>4. \A x \in Updates : (x <= confirmed' \/ x < offset') => (x <= confirmed \/ x < offset)
  BY <1>2 DEF Poll, Updates, IngressKnown, IngressTypeOK
<1> QED
  BY <1>1, <1>2, <1>3, <1>4, AccountedHands, AccountedKept

(* Enqueue: the one id the offset goes past is queued or turned away; the   *)
(* others were below it or confirmed.                                       *)
LEMMA EnqueueAccounted ==
  ASSUME IngressKnown, ReceivedAccounted, BatchNext, Enqueue
  PROVE  ReceivedAccounted'
<1>1. IngressKnown'
  BY EnqueueKnown
<1>2. PICK u \in Updates : u = Head(batch) /\ u = batch[1] /\ batch # <<>>
  <2>1. batch # <<>> /\ batch \in Seq(Updates)
    BY DEF Enqueue, IngressKnown, IngressTypeOK
  <2> QED
    BY <2>1, Headed
<1>3. /\ UNCHANGED <<confirmed, leftover, hand, window, keys, handled, lost>>
      /\ offset' = u + 1
  BY <1>2 DEF Enqueue, Offer
<1>4. Queued' \cup dropped' = Queued \cup dropped \cup {u}
  <2>1. backlog \in Seq(Updates)
    BY DEF IngressKnown, IngressTypeOK
  <2>2. Range(Append(backlog, u)) = Range(backlog) \cup {u}
    BY <2>1, RangeAppended
  <2>3. \/ backlog' = Append(backlog, u) /\ dropped' = dropped
        \/ backlog' = backlog /\ dropped' = dropped \cup {u}
    BY <1>2 DEF Enqueue, Offer
  <2>4. leftover' = leftover
    BY <1>3
  <2> QED
    BY <2>2, <2>3, <2>4 DEF Queued
<1>5. ASSUME NEW x \in Updates, x <= confirmed' \/ x < offset'
      PROVE  x <= confirmed \/ x < offset \/ Waits(x)'
  <2>1. CASE x = u
    BY <1>4, <2>1 DEF Waits
  <2>2. CASE x # u
    <3>1. x <= confirmed \/ x < u
      BY <1>3, <1>5, <2>2 DEF Updates
    <3>2. u <= offset \/ u <= confirmed + 1
      BY <1>2 DEF BatchNext
    <3>3. offset \in Nat /\ confirmed \in Nat /\ x \in Nat /\ u \in Nat
      BY IngressAssumption DEF IngressKnown, IngressTypeOK, Updates
    <3> QED
      BY <3>1, <3>2, <3>3
  <2> QED
    BY <2>1, <2>2
<1>6. Range(window)' = Range(window)
  BY <1>3
<1> QED
  BY <1>1, <1>3, <1>4, <1>5, <1>6, AccountedHands, AccountedKept

(* Take: from the queue into the hands.                                     *)
LEMMA TakeAccounted ==
  ASSUME IngressKnown, ReceivedAccounted, BatchNext, NEW w \in Workers, Take(w)
  PROVE  ReceivedAccounted'
<1>1. IngressKnown'
  BY TakeKnown
<1>2. PICK u \in Updates : /\ hand' = [hand EXCEPT ![w] = [update |-> u, at |-> "check"]]
                           /\ Queued \subseteq Queued' \cup {u}
  BY Taken
<1>3. hand[w] = Idle /\ UNCHANGED <<confirmed, offset, window, keys, handled, dropped, lost>>
  BY DEF Take, bookVars
<1>4. /\ hand'[w] = [update |-> u, at |-> "check"]
      /\ \A v \in Workers : v # w => hand'[v] = hand[v]
  BY <1>2 DEF IngressKnown, IngressTypeOK
<1>5. \A x \in Updates : \A turn : ~ Has(w, x, turn)
  BY <1>3, IngressAssumption DEF Has, Idle, Updates
<1>6. \A v \in Workers : \A x \in Updates : \A turn : Has(v, x, turn) => Has(v, x, turn)'
  BY <1>4, <1>5 DEF Has
<1>7. Waits(u)'
  BY <1>4 DEF Waits, Has
<1>8. ASSUME NEW x \in Updates
      PROVE  /\ Passed(x) => Passed(x)'
             /\ Recorded(x) => Recorded(x)'
             /\ Waits(x) => Waits(x)'
  <2>1. Passed(x) => Passed(x)'
    BY <1>3, <1>6 DEF Passed, Has
  <2>2. Recorded(x) => Recorded(x)'
    BY <1>6 DEF Recorded, Has
  <2>3. CASE x = u
    BY <1>7, <2>1, <2>2, <2>3
  <2>4. CASE x # u
    <3>1. x \in Queued \cup dropped => x \in Queued' \cup dropped'
      BY <1>2, <1>3, <2>4
    <3>2. (\E v \in Workers : Has(v, x, "check")) => (\E v \in Workers : Has(v, x, "check")')
      BY <1>6 DEF Has
    <3>3. Waits(x) => Waits(x)'
      BY <2>2, <3>1, <3>2 DEF Waits, Has
    <3> QED
      BY <2>1, <2>2, <3>3
  <2> QED
    BY <2>3, <2>4
<1>9. Range(window)' = Range(window)
  BY <1>3
<1> QED
  BY <1>1, <1>3, <1>8, <1>9, AccountedKept

(* CheckWindow: what the window takes for a duplicate has another worker at *)
(* the keys or is past them.                                                *)
LEMMA CheckWindowAccounted ==
  ASSUME IngressKnown, ReceivedAccounted, BatchNext, NEW w \in Workers, CheckWindow(w)
  PROVE  ReceivedAccounted'
<1>1. IngressKnown'
  BY CheckWindowKnown
<1>2. PICK u \in Updates : u = hand[w].update /\ Has(w, u, "check")
  BY HandHas DEF CheckWindow
<1>3. /\ UNCHANGED <<confirmed, offset, backlog, leftover, keys, handled, dropped, lost>>
      /\ Queued' = Queued
  BY DEF CheckWindow, bookVars, Queued
<1>4. \A v \in Workers : v # w => hand'[v] = hand[v]
  <2>1. \E h : hand' = [hand EXCEPT ![w] = h]
    BY DEF CheckWindow, Discard, Turn
  <2>2. hand \in [Workers -> Hands]
    BY DEF IngressKnown, IngressTypeOK, Hands
  <2> QED
    BY <2>1, <2>2
<1>5. \A x, turn : Has(w, x, turn) => x = u /\ turn = "check"
  BY <1>2, HasOne
<1>6. ASSUME NEW v \in Workers, NEW x, NEW turn \in {"process", "record"}, Has(v, x, turn) PROVE Has(v, x, turn)'
  <2>1. v # w
    BY <1>5, <1>6
  <2> QED
    BY <1>4, <1>6, <2>1 DEF Has
<1>7. \A x \in Updates : Passed(x) => Passed(x)'
  BY <1>3, <1>6 DEF Passed, Has
<1>8. \A x \in Updates : Recorded(x) => Recorded(x)'
  BY <1>6 DEF Recorded, Has
<1>9. ASSUME NEW x \in Updates, x # u, Waits(x) PROVE Waits(x)'
  <2>1. (\E v \in Workers : Has(v, x, "check")) => (\E v \in Workers : Has(v, x, "check")')
    BY <1>4, <1>5, <1>9 DEF Has
  <2> QED
    BY <1>3, <1>8, <1>9, <2>1 DEF Waits, Has
<1>10. CASE u \in Range(window) /\ window' = window
  <2>1. Passed(u) \/ Recorded(u)
    BY <1>10 DEF ReceivedAccounted
  <2>2. Passed(u)' \/ Waits(u)'
    BY <1>2, <1>7, <1>8, <2>1 DEF Waits
  <2>3. Range(window)' = Range(window)
    BY <1>10
  <2> QED
    BY <1>1, <1>3, <1>7, <1>8, <1>9, <2>2, <2>3, AccountedKept
<1>11. CASE /\ hand' = [hand EXCEPT ![w] = [update |-> u, at |-> "record"]]
            /\ window' = Evicted(Append(window, u))
  <2>1. hand'[w] = [update |-> u, at |-> "record"]
    BY <1>11 DEF IngressKnown, IngressTypeOK
  <2>2. Recorded(u)' /\ Waits(u)'
    BY <2>1 DEF Recorded, Waits, Has
  <2>3. Range(window)' \subseteq Range(window) \cup {u}
    BY <1>2, <1>11, WindowGrows
  <2>4. \A x \in Range(window)' : x \in Range(window) \/ Recorded(x)'
    BY <2>2, <2>3
  <2> QED
    BY <1>1, <1>3, <1>7, <1>8, <1>9, <2>2, <2>4, AccountedKept
<1> QED
  BY <1>2, <1>10, <1>11 DEF CheckWindow, Turn

(* CheckTable: what the table takes for a duplicate is past the keys.       *)
LEMMA CheckTableAccounted ==
  ASSUME IngressKnown, ReceivedAccounted, BatchNext, NEW w \in Workers, CheckTable(w)
  PROVE  ReceivedAccounted'
<1>1. IngressKnown'
  BY CheckTableKnown
<1>2. PICK u \in Updates : u = hand[w].update /\ Has(w, u, "record")
  BY HandHas DEF CheckTable
<1>3. /\ UNCHANGED <<confirmed, offset, backlog, leftover, window, handled, dropped, lost>>
      /\ Queued' = Queued /\ Range(window)' = Range(window)
  BY DEF CheckTable, Queued
<1>4. \A v \in Workers : v # w => hand'[v] = hand[v]
  <2>1. \E h : hand' = [hand EXCEPT ![w] = h]
    BY DEF CheckTable, RecordKey, Discard, Turn
  <2>2. hand \in [Workers -> Hands]
    BY DEF IngressKnown, IngressTypeOK, Hands
  <2> QED
    BY <2>1, <2>2
<1>5. \A x, turn : Has(w, x, turn) => x = u /\ turn = "record"
  BY <1>2, HasOne
<1>6. ASSUME NEW x \in Updates, Passed(x) PROVE Passed(x)'
  <2>1. ASSUME NEW v \in Workers, Has(v, x, "process") PROVE Has(v, x, "process")'
    <3>1. v # w
      BY <1>5, <2>1
    <3> QED
      BY <1>4, <2>1, <3>1 DEF Has
  <2> QED
    BY <1>3, <1>6, <2>1 DEF Passed, Has
<1>7. Passed(u)'
  <2>1. CASE u \in keys
    BY <1>2, <1>6, <2>1 DEF ReceivedAccounted
  <2>2. CASE hand' = [hand EXCEPT ![w] = [update |-> u, at |-> "process"]]
    <3>1. hand'[w] = [update |-> u, at |-> "process"]
      BY <2>2 DEF IngressKnown, IngressTypeOK
    <3> QED
      BY <3>1 DEF Passed, Has
  <2> QED
    BY <1>2, <2>1, <2>2 DEF CheckTable, RecordKey, Turn
<1>8. \A x \in keys' : x \in keys \/ Passed(x)'
  BY <1>2, <1>7 DEF CheckTable, RecordKey
<1>9. ASSUME NEW x \in Updates, x # u
      PROVE  /\ Recorded(x) => Recorded(x)'
             /\ Waits(x) => Waits(x)'
  <2>1. ASSUME NEW v \in Workers, NEW turn, Has(v, x, turn) PROVE Has(v, x, turn)'
    <3>1. v # w
      BY <1>5, <1>9, <2>1
    <3> QED
      BY <1>4, <2>1, <3>1 DEF Has
  <2>2. Recorded(x) => Recorded(x)'
    BY <2>1 DEF Recorded, Has
  <2>3. (\E v \in Workers : Has(v, x, "check")) => (\E v \in Workers : Has(v, x, "check")')
    BY <2>1 DEF Has
  <2> QED
    BY <1>3, <2>2, <2>3 DEF Waits, Has
<1>10. \A x \in Updates : (x <= confirmed' \/ x < offset') => (x <= confirmed \/ x < offset)
  BY <1>3
<1>11. /\ \A x \in Updates : Recorded(x) => Passed(x)' \/ Recorded(x)'
       /\ \A x \in Updates : Waits(x) => Passed(x)' \/ Waits(x)'
  BY <1>7, <1>9
<1> QED
  BY <1>1, <1>3, <1>6, <1>8, <1>10, <1>11, AccountedKept

(* Process: what was past the keys is handled.                              *)
LEMMA ProcessAccounted ==
  ASSUME IngressKnown, ReceivedAccounted, BatchNext, NEW w \in Workers, Process(w)
  PROVE  ReceivedAccounted'
<1>1. IngressKnown'
  BY ProcessKnown
<1>2. PICK u \in Updates : u = hand[w].update /\ Has(w, u, "process")
  BY HandHas DEF Process
<1>3. /\ UNCHANGED <<confirmed, offset, backlog, leftover, window, keys, dropped, lost>>
      /\ Queued' = Queued /\ Range(window)' = Range(window)
  BY DEF Process, Queued
<1>4. \A v \in Workers : v # w => hand'[v] = hand[v]
  <2>1. hand \in [Workers -> Hands]
    BY DEF IngressKnown, IngressTypeOK, Hands
  <2> QED
    BY <2>1 DEF Process, Discard
<1>5. \A x, turn : Has(w, x, turn) => x = u /\ turn = "process"
  BY <1>2, HasOne
<1>6. Passed(u)' /\ \A x \in Updates : handled[x] > 0 => handled'[x] > 0
  <2>1. handled \in [Updates -> Nat] /\ handled' = [handled EXCEPT ![u] = @ + 1]
    BY <1>2 DEF Process, IngressKnown, IngressTypeOK
  <2>2. handled[u] \in Nat /\ handled'[u] = handled[u] + 1 /\ \A x \in Updates : x # u => handled'[x] = handled[x]
    BY <2>1
  <2>3. handled'[u] > 0
    BY <2>2
  <2> QED
    BY <2>2, <2>3 DEF Passed
<1>7. ASSUME NEW x \in Updates, x # u
      PROVE  /\ Passed(x) => Passed(x)'
             /\ Recorded(x) => Recorded(x)'
             /\ Waits(x) => Waits(x)'
  <2>1. ASSUME NEW v \in Workers, NEW turn, Has(v, x, turn) PROVE Has(v, x, turn)'
    <3>1. v # w
      BY <1>5, <1>7, <2>1
    <3> QED
      BY <1>4, <2>1, <3>1 DEF Has
  <2>2. Recorded(x) => Recorded(x)'
    BY <2>1 DEF Recorded, Has
  <2>3. (\E v \in Workers : Has(v, x, "check")) => (\E v \in Workers : Has(v, x, "check")')
    BY <2>1 DEF Has
  <2>4. (\E v \in Workers : Has(v, x, "process")) => (\E v \in Workers : Has(v, x, "process")')
    BY <2>1 DEF Has
  <2>5. Waits(x) => Waits(x)'
    BY <1>3, <2>2, <2>3 DEF Waits, Has
  <2>6. Passed(x) => Passed(x)'
    BY <1>3, <1>6, <2>4 DEF Passed, Has
  <2> QED
    BY <2>2, <2>5, <2>6
<1>8. \A x \in Updates : (x <= confirmed' \/ x < offset') => (x <= confirmed \/ x < offset)
  BY <1>3
<1>9. /\ \A x \in Updates : Passed(x) => Passed(x)'
      /\ \A x \in Updates : Recorded(x) => Passed(x)' \/ Recorded(x)'
      /\ \A x \in Updates : Waits(x) => Passed(x)' \/ Waits(x)'
  BY <1>6, <1>7
<1>10. /\ \A x \in keys' : x \in keys \/ Passed(x)'
       /\ \A x \in Range(window)' : x \in Range(window) \/ Recorded(x)'
  BY <1>3
<1> QED
  BY <1>1, <1>8, <1>9, <1>10, AccountedKept

(* Prune: one key less to account for.                                      *)
LEMMA PruneAccounted ==
  ASSUME IngressKnown, ReceivedAccounted, BatchNext, Prune
  PROVE  ReceivedAccounted'
<1>1. IngressKnown'
  BY PruneKnown
<1>2. /\ UNCHANGED <<confirmed, offset, backlog, leftover, hand, window, handled, dropped, lost>>
      /\ Queued' = Queued /\ Range(window)' = Range(window) /\ keys' \subseteq keys
  BY DEF Prune, Queued
<1> QED
  BY <1>1, <1>2, AccountedHands, AccountedKept

(* AdapterRestarts: the offset starts again, nothing queued is lost.        *)
LEMMA RestartAccounted ==
  ASSUME IngressKnown, ReceivedAccounted, AdapterRestarts
  PROVE  ReceivedAccounted'
<1>1. IngressKnown' /\ Queued' = Queued
  BY RestartKnown
<1>2. /\ UNCHANGED <<confirmed, hand, keys, handled, dropped, lost>>
      /\ offset' = 0
  BY DEF AdapterRestarts
<1>3. Range(window)' = {}
  BY RangeOfNone DEF AdapterRestarts
<1>4. \A x \in Updates : (x <= confirmed' \/ x < offset') => x <= confirmed
  BY <1>2 DEF Updates
<1> QED
  BY <1>1, <1>2, <1>3, <1>4, AccountedHands, AccountedKept

(* Crash: what was on its way and will not be sent again, or has its key    *)
(* written, is counted as lost.                                             *)
LEMMA CrashAccounted ==
  ASSUME IngressKnown, ReceivedAccounted, Crash
  PROVE  ReceivedAccounted'
<1>1. ASSUME NEW x \in Updates, x <= confirmed \/ x \in keys, Passed(x) \/ Waits(x)
      PROVE  Passed(x)' \/ Waits(x)'
  <2>1. CASE handled[x] > 0 \/ x \in lost
    BY <2>1 DEF Crash, Passed
  <2>2. CASE x \in dropped
    BY <2>2 DEF Crash, Waits
  <2>3. CASE x \in Queued \/ x \in InHands
    BY <1>1, <2>3 DEF Crash, Passed
  <2>4. ASSUME NEW v \in Workers, NEW turn, Has(v, x, turn) PROVE x \in InHands
    BY <2>4, IngressAssumption DEF Has, InHands, Updates
  <2> QED
    BY <1>1, <2>1, <2>2, <2>3, <2>4 DEF Passed, Waits, Recorded
<1>2. keys' = keys /\ confirmed' = confirmed /\ offset' = 0 /\ Range(window)' = {}
  BY RangeOfNone DEF Crash
<1>3. ASSUME NEW x \in keys PROVE Passed(x)'
  <2>1. x \in Updates /\ Passed(x)
    BY <1>3 DEF ReceivedAccounted, IngressKnown, IngressTypeOK
  <2>2. CASE handled[x] > 0 \/ x \in lost
    BY <2>2 DEF Crash, Passed
  <2>3. ASSUME NEW v \in Workers, Has(v, x, "process") PROVE x \in InHands
    BY <2>1, <2>3, IngressAssumption DEF Has, InHands, Updates
  <2>4. CASE x \in InHands
    BY <1>3, <2>4 DEF Crash, Passed
  <2> QED
    BY <2>1, <2>2, <2>3, <2>4 DEF Passed
<1>4. ASSUME NEW x \in Updates, x <= confirmed' \/ x < offset' PROVE Passed(x)' \/ Waits(x)'
  <2>1. x <= confirmed
    BY <1>2, <1>4 DEF Updates
  <2> QED
    BY <1>1, <2>1 DEF ReceivedAccounted
<1> QED
  BY <1>2, <1>3, <1>4 DEF ReceivedAccounted

(* Every step keeps all of it.                                              *)
LEMMA IngressInductive == IngressInv /\ [IngressNext]_ingressVars => IngressInv'
<1> SUFFICES ASSUME IngressInv, [IngressNext]_ingressVars PROVE IngressInv'
  OBVIOUS
<1>1. IngressKnown /\ KeyedOnce /\ ReceivedAccounted /\ BatchNext
  BY DEF IngressInv
<1>2. CASE UNCHANGED ingressVars
  BY <1>1, <1>2 DEF IngressInv, ingressVars, IngressKnown, IngressTypeOK, KeyedOnce, ReceivedAccounted,
     BatchNext, Passed, Recorded, Waits, Queued, Has
<1>3. CASE IngressNext
  <2>1. KeyedOnce'
    BY <1>1, <1>3, KeyedInductive
  <2>2. CASE Poll
    BY <1>1, <2>1, <2>2, PollKnown, PollAccounted DEF IngressInv
  <2>3. CASE Enqueue
    BY <1>1, <2>1, <2>3, EnqueueKnown, EnqueueAccounted DEF IngressInv
  <2>4. CASE Prune
    BY <1>1, <2>1, <2>4, PruneKnown, PruneAccounted DEF IngressInv
  <2>5. CASE AdapterRestarts
    BY <1>1, <2>1, <2>5, RestartKnown, RestartAccounted DEF IngressInv
  <2>6. CASE Crash
    BY <1>1, <2>1, <2>6, CrashKnown, CrashAccounted DEF IngressInv
  <2>7. ASSUME NEW w \in Workers, Take(w) PROVE IngressInv'
    BY <1>1, <2>1, <2>7, TakeKnown, TakeAccounted DEF IngressInv
  <2>8. ASSUME NEW w \in Workers, CheckWindow(w) PROVE IngressInv'
    BY <1>1, <2>1, <2>8, CheckWindowKnown, CheckWindowAccounted DEF IngressInv
  <2>9. ASSUME NEW w \in Workers, CheckTable(w) PROVE IngressInv'
    BY <1>1, <2>1, <2>9, CheckTableKnown, CheckTableAccounted DEF IngressInv
  <2>10. ASSUME NEW w \in Workers, Process(w) PROVE IngressInv'
    BY <1>1, <2>1, <2>10, ProcessKnown, ProcessAccounted DEF IngressInv
  <2> QED
    BY <1>3, <2>2, <2>3, <2>4, <2>5, <2>6, <2>7, <2>8, <2>9, <2>10 DEF IngressNext
<1> QED
  BY <1>2, <1>3

(* Every variable keeps to its values, the queue and the window to their    *)
(* sizes.                                                                   *)
THEOREM IngressTypes == IngressSpec => []IngressTypeOK
<1>1. IngressInv => IngressTypeOK
  BY DEF IngressInv, IngressKnown
<1> QED
  BY <1>1, IngressInitInv, IngressInductive, PTL DEF IngressSpec

(* An update is processed once, whatever is delivered again, and none that  *)
(* will not come again is lost in silence.                                  *)
THEOREM UpdatesOnce == IngressSpec => []EachUpdateOnce
<1>1. IngressInv => HandledOnce
  BY DEF IngressInv, KeyedOnce, HandledOnce, IngressKnown, IngressTypeOK
<1>2. IngressInv => UpdatesAccounted
  <2> SUFFICES ASSUME IngressInv, NEW u \in Updates, u <= confirmed \/ u \in keys
               PROVE  \/ u \in Range(batch) \cup Queued \cup InHands
                      \/ handled[u] > 0
                      \/ u \in dropped \cup lost
    BY DEF UpdatesAccounted
  <2>1. Passed(u) \/ Waits(u)
    BY DEF IngressInv, ReceivedAccounted
  <2>2. ASSUME NEW v \in Workers, NEW turn, Has(v, u, turn) PROVE u \in InHands
    BY <2>2, IngressAssumption DEF Has, InHands, Updates
  <2> QED
    BY <2>1, <2>2 DEF Passed, Waits, Recorded
<1>3. IngressInv => EachUpdateOnce
  BY <1>1, <1>2 DEF EachUpdateOnce
<1> QED
  BY <1>3, IngressInitInv, IngressInductive, PTL DEF IngressSpec

-----------------------------------------------------------------------------
(* Approvals.                                                               *)

(* Nothing was asked.                                                       *)
LEMMA ApprovalInitInv == ApprovalInit => ApprovalInv
<1> SUFFICES ASSUME ApprovalInit PROVE ApprovalInv
  OBVIOUS
<1>1. ApprovalTypeOK
  BY ApprovalAssumption DEF ApprovalInit, ApprovalTypeOK
<1>2. AskersKnow /\ AnswerersKnow
  BY DEF ApprovalInit, AskersKnow, AnswerersKnow
<1>3. AsksCover
  <2> SUFFICES ASSUME NEW s \in Subjects
               PROVE  /\ IsFiniteSet(ActingOn(s))
                      /\ ran[s] + denied[s] + (IF Pending(s) THEN 1 ELSE 0) + Cardinality(ActingOn(s)) <= asked[s]
    BY DEF AsksCover
  <2>1. ActingOn(s) = {}
    BY DEF ApprovalInit, ActingOn
  <2>2. IsFiniteSet(ActingOn(s)) /\ Cardinality(ActingOn(s)) = 0
    BY <2>1, FS_EmptySet
  <2>3. ran[s] = 0 /\ denied[s] = 0 /\ asked[s] = 0 /\ ~ Pending(s)
    BY DEF ApprovalInit, Pending
  <2> QED
    BY <2>2, <2>3
<1>4. PagesCover
  <2>1. pages = 0 /\ Cardinality(decisions) = 0 /\ ran[Domain] = 0
    BY FS_EmptySet DEF ApprovalInit, Subjects
  <2> QED
    BY <2>1 DEF PagesCover
<1> QED
  BY <1>1, <1>2, <1>3, <1>4 DEF ApprovalInv, ApprovalKnown

(* One request moves, and knows what it is about.                           *)
LEMMA OneAsks ==
  ASSUME AskersKnow, NEW q \in Askers,
         \A x \in Askers : x # q => /\ askPc'[x] = askPc[x] /\ about'[x] = about[x]
                                    /\ askNo'[x] = askNo[x] /\ found'[x] = found[x],
         askPc'[q] \in {"record", "handle"} => about'[q] \in Subjects /\ askNo'[q] \in 1..MaxAsks,
         askPc'[q] = "consume" => found'[q] \in 1..MaxAsks
  PROVE  AskersKnow'
BY DEF AskersKnow, Subjects

(* One answer moves, and knows what it is about.                            *)
LEMMA OneAnswers ==
  ASSUME AnswerersKnow, NEW r \in Answerers,
         \A x \in Answerers : x # r => /\ answerPc'[x] = answerPc[x] /\ target'[x] = target[x]
                                       /\ readCopy'[x] = readCopy[x],
         answerPc'[r] # "idle" => target'[r] \in Subjects,
         answerPc'[r] \in {"write", "act"} => readCopy'[r] \in Records,
         answerPc'[r] = "write" => readCopy'[r] # None /\ readCopy'[r].status = "Pending"
  PROVE  AnswerersKnow'
BY DEF AnswerersKnow, Subjects, Answerers, Records

(* What HandlesWith makes of the handles.                                   *)
LEMMA HandlesTyped ==
  ASSUME ApprovalTypeOK, NEW s \in Subjects
  PROVE  HandlesWith(s) \in [Subjects -> {"none", "live", "expired"}]
<1> DEFINE pruned == [t \in Subjects |-> IF s \notin old /\ handles[t] = "expired" THEN "none" ELSE handles[t]]
<1>1. pruned \in [Subjects -> {"none", "live", "expired"}]
  BY DEF ApprovalTypeOK
<1>2. HandlesWith(s) = IF pruned[s] # "none" THEN pruned
                       ELSE [pruned EXCEPT ![s] = IF s \in old THEN "expired" ELSE "live"]
  BY DEF HandlesWith
<1> HIDE DEF pruned
<1> QED
  BY <1>1, <1>2

(* Troubles are counted up to their bound.                                  *)
LEMMA TroubleCounted == ApprovalTypeOK /\ Trouble => troubles' \in 0..MaxTroubles
BY ApprovalAssumption DEF ApprovalTypeOK, Trouble

(* Ask: the request knows its subject and its number.                       *)
LEMMA AskKnown ==
  ASSUME ApprovalKnown, NEW q \in Askers, NEW s \in Subjects, Ask(q, s)
  PROVE  ApprovalKnown'
<1>1. ApprovalTypeOK /\ AskersKnow /\ AnswerersKnow
  BY DEF ApprovalKnown
<1>2. asks' \in 0..MaxAsks /\ asks + 1 \in 1..MaxAsks /\ asks + 1 \in 0..MaxAsks
  BY <1>1, ApprovalAssumption DEF Ask, ApprovalTypeOK
<1>3. /\ askPc' \in [Askers -> {"idle", "record", "handle", "consume"}]
      /\ about' \in [Askers -> Subjects \cup {None}]
      /\ askNo' \in [Askers -> 0..MaxAsks]
      /\ askPc'[q] = "record" /\ about'[q] = s /\ askNo'[q] = asks + 1
      /\ \A x \in Askers : x # q => askPc'[x] = askPc[x] /\ about'[x] = about[x] /\ askNo'[x] = askNo[x]
  BY <1>1, <1>2 DEF Ask, ApprovalTypeOK
<1>4. UNCHANGED <<tables, found, asked, pages, answerVars, raced, troubles>>
  BY DEF Ask
<1>5. ApprovalTypeOK'
  BY <1>1, <1>2, <1>3, <1>4 DEF ApprovalTypeOK, tables, answerVars
<1>6. AskersKnow'
  BY <1>1, <1>2, <1>3, <1>4, OneAsks
<1>7. AnswerersKnow'
  BY <1>1, <1>4 DEF AnswerersKnow, answerVars
<1> QED
  BY <1>5, <1>6, <1>7 DEF ApprovalKnown

(* FindDecision: the request knows the decision it found.                   *)
LEMMA FindDecisionKnown ==
  ASSUME ApprovalKnown, NEW q \in Askers, FindDecision(q)
  PROVE  ApprovalKnown'
<1>1. ApprovalTypeOK /\ AskersKnow /\ AnswerersKnow
  BY DEF ApprovalKnown
<1>2. PICK d \in decisions : found' = [found EXCEPT ![q] = d]
  BY DEF FindDecision
<1>3. d \in 1..MaxAsks
  BY <1>1, <1>2 DEF ApprovalTypeOK
<1>4. /\ askPc' \in [Askers -> {"idle", "record", "handle", "consume"}]
      /\ found' \in [Askers -> 1..MaxAsks \cup {None}]
      /\ askPc'[q] = "consume" /\ found'[q] = d
      /\ \A x \in Askers : x # q => askPc'[x] = askPc[x] /\ found'[x] = found[x]
  BY <1>1, <1>2, <1>3 DEF FindDecision, ApprovalTypeOK
<1>5. UNCHANGED <<tables, about, askNo, asks, asked, pages, answerVars, raced, troubles>>
  BY DEF FindDecision
<1>6. ApprovalTypeOK'
  BY <1>1, <1>4, <1>5 DEF ApprovalTypeOK, tables, answerVars
<1>7. AskersKnow'
  BY <1>1, <1>3, <1>4, <1>5, OneAsks
<1>8. AnswerersKnow'
  BY <1>1, <1>5 DEF AnswerersKnow, answerVars
<1> QED
  BY <1>6, <1>7, <1>8 DEF ApprovalKnown

(* ConsumeDecision: a decision goes, a page may open.                       *)
LEMMA ConsumeDecisionKnown ==
  ASSUME ApprovalKnown, NEW q \in Askers, ConsumeDecision(q)
  PROVE  ApprovalKnown'
<1>1. ApprovalTypeOK /\ AskersKnow /\ AnswerersKnow
  BY DEF ApprovalKnown
<1>2. decisions' \subseteq 1..MaxAsks /\ raced' \subseteq Subjects /\ pages' \in Nat
  <2>1. decisions \subseteq 1..MaxAsks /\ raced \subseteq Subjects /\ pages \in Nat /\ Domain \in Subjects
    BY <1>1 DEF ApprovalTypeOK, Subjects
  <2>2. /\ decisions' = decisions \ {found[q]} /\ (raced' = raced \/ raced' = raced \cup {Domain})
        /\ pages' \in {pages, pages + 1}
    BY DEF ConsumeDecision
  <2>3. pages' \in Nat
    BY <2>1, <2>2
  <2> QED
    BY <2>1, <2>2, <2>3
<1>3. /\ askPc' \in [Askers -> {"idle", "record", "handle", "consume"}]
      /\ found' \in [Askers -> 1..MaxAsks \cup {None}]
      /\ askPc'[q] = "idle"
      /\ \A x \in Askers : x # q => askPc'[x] = askPc[x] /\ found'[x] = found[x]
  BY <1>1 DEF ConsumeDecision, ApprovalTypeOK
<1>4. UNCHANGED <<approvals, old, handles, elevated, about, askNo, asks, asked, answerVars, troubles>>
  BY DEF ConsumeDecision
<1>5. ApprovalTypeOK'
  BY <1>1, <1>2, <1>3, <1>4 DEF ApprovalTypeOK, answerVars
<1>6. AskersKnow'
  BY <1>1, <1>3, <1>4, OneAsks
<1>7. AnswerersKnow'
  BY <1>1, <1>4 DEF AnswerersKnow, answerVars
<1> QED
  BY <1>5, <1>6, <1>7 DEF ApprovalKnown

(* StoreRecord: the record is one of the table.                             *)
LEMMA StoreRecordKnown ==
  ASSUME ApprovalKnown, NEW q \in Askers, StoreRecord(q)
  PROVE  ApprovalKnown'
<1>1. ApprovalTypeOK /\ AskersKnow /\ AnswerersKnow
  BY DEF ApprovalKnown
<1>2. about[q] \in Subjects /\ PendingRecord(askNo[q]) \in Records
  BY <1>1 DEF StoreRecord, AskersKnow, PendingRecord, Records
<1>3. /\ approvals' \in [Subjects -> Records \cup {None}] /\ old' \subseteq Subjects
      /\ asked' \in [Subjects -> Nat]
  <2>1. approvals \in [Subjects -> Records \cup {None}] /\ old \subseteq Subjects /\ asked \in [Subjects -> Nat]
    BY <1>1 DEF ApprovalTypeOK
  <2> QED
    BY <1>2, <2>1 DEF StoreRecord
<1>4. /\ askPc' \in [Askers -> {"idle", "record", "handle", "consume"}]
      /\ askPc'[q] = "handle" /\ \A x \in Askers : x # q => askPc'[x] = askPc[x]
  BY <1>1 DEF StoreRecord, ApprovalTypeOK
<1>5. UNCHANGED <<handles, elevated, decisions, about, askNo, found, asks, pages, answerVars, raced, troubles>>
  BY DEF StoreRecord
<1>6. ApprovalTypeOK'
  BY <1>1, <1>3, <1>4, <1>5 DEF ApprovalTypeOK, answerVars
<1>7. about[q] \in Subjects /\ askNo[q] \in 1..MaxAsks
  BY <1>1 DEF StoreRecord, AskersKnow
<1>8. AskersKnow'
  BY <1>1, <1>4, <1>5, <1>7, OneAsks
<1>9. AnswerersKnow'
  BY <1>1, <1>5 DEF AnswerersKnow, answerVars
<1> QED
  BY <1>6, <1>8, <1>9 DEF ApprovalKnown

(* GiveHandle: the request ends.                                            *)
LEMMA GiveHandleKnown ==
  ASSUME ApprovalKnown, NEW q \in Askers, GiveHandle(q)
  PROVE  ApprovalKnown'
<1>1. ApprovalTypeOK /\ AskersKnow /\ AnswerersKnow
  BY DEF ApprovalKnown
<1>2. about[q] \in Subjects
  BY <1>1 DEF GiveHandle, AskersKnow
<1>3. handles' \in [Subjects -> {"none", "live", "expired"}]
  <2>1. handles \in [Subjects -> {"none", "live", "expired"}]
    BY <1>1 DEF ApprovalTypeOK
  <2>2. handles' = handles \/ handles' = HandlesWith(about[q])
    BY DEF GiveHandle
  <2> QED
    BY <1>1, <1>2, <2>1, <2>2, HandlesTyped
<1>4. /\ askPc' \in [Askers -> {"idle", "record", "handle", "consume"}]
      /\ about' \in [Askers -> Subjects \cup {None}]
      /\ askNo' \in [Askers -> 0..MaxAsks]
      /\ askPc'[q] = "idle"
      /\ \A x \in Askers : x # q => askPc'[x] = askPc[x] /\ about'[x] = about[x] /\ askNo'[x] = askNo[x]
  <2>1. /\ askPc \in [Askers -> {"idle", "record", "handle", "consume"}]
        /\ about \in [Askers -> Subjects \cup {None}]
        /\ askNo \in [Askers -> 0..MaxAsks] /\ 0 \in 0..MaxAsks
    BY <1>1, ApprovalAssumption DEF ApprovalTypeOK
  <2>2. /\ askPc' = [askPc EXCEPT ![q] = "idle"] /\ about' = [about EXCEPT ![q] = None]
        /\ askNo' = [askNo EXCEPT ![q] = 0]
    BY DEF GiveHandle
  <2> QED
    BY <2>1, <2>2
<1>5. UNCHANGED <<approvals, old, elevated, decisions, found, asks, asked, pages, answerVars, raced, troubles>>
  BY DEF GiveHandle
<1>6. ApprovalTypeOK'
  BY <1>1, <1>3, <1>4, <1>5 DEF ApprovalTypeOK, answerVars
<1>7. AskersKnow'
  BY <1>1, <1>4, <1>5, OneAsks
<1>8. AnswerersKnow'
  BY <1>1, <1>5 DEF AnswerersKnow, answerVars
<1> QED
  BY <1>6, <1>7, <1>8 DEF ApprovalKnown

(* One answer goes on.                                                      *)
LEMMA AnswerKnown ==
  ASSUME ApprovalKnown, NEW r \in Answerers, NEW s \in Subjects, Answer(r, s)
  PROVE  ApprovalKnown'
<1>1. ApprovalTypeOK /\ AskersKnow /\ AnswerersKnow
  BY DEF ApprovalKnown
<1>2. /\ answerPc' \in [Answerers -> {"idle", "select", "read", "write", "act"}]
      /\ target' \in [Answerers -> Subjects \cup {None}]
      /\ answerPc'[r] = "select" /\ target'[r] = s
      /\ \A x \in Answerers : x # r => answerPc'[x] = answerPc[x] /\ target'[x] = target[x]
  BY <1>1 DEF Answer, ApprovalTypeOK
<1>3. UNCHANGED <<tables, askerVars, readCopy, ran, denied, raced, troubles>>
  BY DEF Answer
<1>4. ApprovalTypeOK'
  BY <1>1, <1>2, <1>3 DEF ApprovalTypeOK, tables, askerVars
<1>5. AnswerersKnow'
  BY <1>1, <1>2, <1>3, OneAnswers
<1>6. AskersKnow'
  BY <1>1, <1>3 DEF AskersKnow, askerVars
<1> QED
  BY <1>4, <1>5, <1>6 DEF ApprovalKnown

(* Where AnswerGoes brings an answer.                                       *)
LEMMA AnswerWent ==
  ASSUME ApprovalTypeOK, NEW r \in Answerers,
         NEW pc \in {"idle", "select", "read", "write", "act"}, AnswerGoes(r, pc)
  PROVE  /\ answerPc' \in [Answerers -> {"idle", "select", "read", "write", "act"}]
         /\ answerPc'[r] = pc /\ \A x \in Answerers : x # r => answerPc'[x] = answerPc[x]
         /\ pc = "idle" =>
              /\ target' \in [Answerers -> Subjects \cup {None}]
              /\ readCopy' \in [Answerers -> Records \cup {None}]
              /\ \A x \in Answerers : x # r => target'[x] = target[x] /\ readCopy'[x] = readCopy[x]
<1>1. /\ answerPc \in [Answerers -> {"idle", "select", "read", "write", "act"}]
      /\ target \in [Answerers -> Subjects \cup {None}]
      /\ readCopy \in [Answerers -> Records \cup {None}]
  BY DEF ApprovalTypeOK
<1>2. answerPc' = [answerPc EXCEPT ![r] = pc]
  BY DEF AnswerGoes
<1>3. pc = "idle" => target' = [target EXCEPT ![r] = None] /\ readCopy' = [readCopy EXCEPT ![r] = None]
  BY DEF AnswerGoes
<1>4. /\ answerPc' \in [Answerers -> {"idle", "select", "read", "write", "act"}]
      /\ answerPc'[r] = pc /\ \A x \in Answerers : x # r => answerPc'[x] = answerPc[x]
  BY <1>1, <1>2
<1>5. pc = "idle" => /\ target' \in [Answerers -> Subjects \cup {None}]
                     /\ \A x \in Answerers : x # r => target'[x] = target[x]
  BY <1>1, <1>3
<1>6. pc = "idle" => /\ readCopy' \in [Answerers -> Records \cup {None}]
                     /\ \A x \in Answerers : x # r => readCopy'[x] = readCopy[x]
  BY <1>1, <1>3
<1> QED
  BY <1>4, <1>5, <1>6

(* The three steps of an answer leave these alone, and what they change has *)
(* its type; an answer that is not at its deed did not come from there.     *)
AnswerMoved(r) ==
  /\ answerPc' \in [Answerers -> {"idle", "select", "read", "write", "act"}]
  /\ target' \in [Answerers -> Subjects \cup {None}]
  /\ readCopy' \in [Answerers -> Records \cup {None}]
  /\ \A x \in Answerers : x # r => /\ answerPc'[x] = answerPc[x] /\ target'[x] = target[x]
                                   /\ readCopy'[x] = readCopy[x]
  /\ answerPc'[r] # "idle" => target'[r] \in Subjects
  /\ answerPc'[r] \in {"write", "act"} => readCopy'[r] \in Records
  /\ answerPc'[r] = "write" => readCopy'[r] # None /\ readCopy'[r].status = "Pending"

(* Select: the answer goes on with a subject, or ends.                      *)
LEMMA SelectMoves ==
  ASSUME ApprovalKnown, NEW r \in Answerers, Select(r)
  PROVE  /\ AnswerMoved(r) /\ answerPc[r] = "select" /\ answerPc'[r] \in {"idle", "read"}
         /\ handles' \in [Subjects -> {"none", "live", "expired"}]
<1>1. ApprovalTypeOK /\ AnswerersKnow
  BY DEF ApprovalKnown
<1>2. /\ target \in [Answerers -> Subjects \cup {None}] /\ readCopy \in [Answerers -> Records \cup {None}]
      /\ handles \in [Subjects -> {"none", "live", "expired"}]
      /\ answerPc[r] = "select" /\ target[r] \in Subjects
  BY <1>1 DEF ApprovalTypeOK, AnswerersKnow, Select
<1>3. CASE AnswerGoes(r, "idle") /\ UNCHANGED handles
  BY <1>1, <1>2, <1>3, AnswerWent DEF AnswerMoved
<1>4. CASE AnswerGoes(r, "read") /\ UNCHANGED <<handles, target>>
  <2>1. answerPc'[r] = "read"
    BY <1>1, <1>4, AnswerWent
  <2>2. readCopy' = readCopy
    BY <2>1 DEF Select
  <2> QED
    BY <1>1, <1>2, <1>4, <2>1, <2>2, AnswerWent DEF AnswerMoved
<1>5. ASSUME AnswerGoes(r, "read"), NEW s \in Subjects,
             target' = [target EXCEPT ![r] = s], handles' = HandlesWith(s)
      PROVE  /\ AnswerMoved(r) /\ answerPc'[r] = "read"
             /\ handles' \in [Subjects -> {"none", "live", "expired"}]
  <2>1. answerPc'[r] = "read"
    BY <1>1, <1>5, AnswerWent
  <2>2. readCopy' = readCopy
    BY <2>1 DEF Select
  <2>3. /\ target' \in [Answerers -> Subjects \cup {None}] /\ target'[r] = s
        /\ \A x \in Answerers : x # r => target'[x] = target[x]
    BY <1>2, <1>5
  <2>4. /\ answerPc' \in [Answerers -> {"idle", "select", "read", "write", "act"}]
        /\ \A x \in Answerers : x # r => answerPc'[x] = answerPc[x]
    BY <1>1, <1>5, AnswerWent
  <2>5. AnswerMoved(r)
    BY <1>2, <2>1, <2>2, <2>3, <2>4 DEF AnswerMoved
  <2> QED
    BY <1>1, <1>5, <2>1, <2>5, HandlesTyped
<1>6. \/ AnswerGoes(r, "idle") /\ UNCHANGED handles
      \/ AnswerGoes(r, "read") /\ UNCHANGED <<handles, target>>
      \/ /\ AnswerGoes(r, "read")
         /\ \E s \in Subjects : target' = [target EXCEPT ![r] = s] /\ handles' = HandlesWith(s)
  BY DEF Select
<1>7. CASE AnswerGoes(r, "idle") /\ UNCHANGED handles
  BY <1>1, <1>2, <1>3, <1>7, AnswerWent
<1>8. CASE AnswerGoes(r, "read") /\ UNCHANGED <<handles, target>>
  BY <1>1, <1>2, <1>4, <1>8, AnswerWent
<1>9. CASE /\ AnswerGoes(r, "read")
           /\ \E s \in Subjects : target' = [target EXCEPT ![r] = s] /\ handles' = HandlesWith(s)
  BY <1>2, <1>5, <1>9
<1> QED
  BY <1>6, <1>7, <1>8, <1>9

(* ReadRecord: the answer holds a copy that is Pending, or ends.            *)
LEMMA ReadRecordMoves ==
  ASSUME ApprovalKnown, NEW r \in Answerers, ReadRecord(r)
  PROVE  AnswerMoved(r) /\ answerPc[r] = "read" /\ answerPc'[r] \in {"idle", "write"}
<1>1. ApprovalTypeOK /\ AnswerersKnow /\ answerPc[r] = "read"
  BY DEF ApprovalKnown, ReadRecord
<1>2. /\ target \in [Answerers -> Subjects \cup {None}] /\ readCopy \in [Answerers -> Records \cup {None}]
      /\ approvals \in [Subjects -> Records \cup {None}]
      /\ target[r] \in Subjects
  BY <1>1 DEF ApprovalTypeOK, AnswerersKnow
<1>3. CASE AnswerGoes(r, "idle")
  BY <1>1, <1>2, <1>3, AnswerWent DEF AnswerMoved
<1>4. CASE /\ Pending(target[r]) /\ readCopy' = [readCopy EXCEPT ![r] = approvals[target[r]]]
           /\ AnswerGoes(r, "write") /\ UNCHANGED target
  <2>1. /\ approvals[target[r]] \in Records /\ approvals[target[r]] # None
        /\ approvals[target[r]].status = "Pending"
    BY <1>2, <1>4 DEF Pending
  <2>2. /\ readCopy' \in [Answerers -> Records \cup {None}] /\ readCopy'[r] = approvals[target[r]]
        /\ \A x \in Answerers : x # r => readCopy'[x] = readCopy[x]
    BY <1>2, <1>4, <2>1
  <2>3. /\ answerPc' \in [Answerers -> {"idle", "select", "read", "write", "act"}]
        /\ answerPc'[r] = "write" /\ \A x \in Answerers : x # r => answerPc'[x] = answerPc[x]
    BY <1>1, <1>4, AnswerWent
  <2> QED
    BY <1>1, <1>2, <1>4, <2>1, <2>2, <2>3 DEF AnswerMoved
<1> QED
  BY <1>1, <1>3, <1>4 DEF ReadRecord, Resolvable

(* WriteDecision: the record of one subject is settled; if it was changed   *)
(* since it was read, the subject counts as raced.                          *)
LEMMA WriteDecisionMoves ==
  ASSUME ApprovalKnown, NEW r \in Answerers, NEW decision \in {"Approved", "Denied"},
         WriteDecision(r, decision)
  PROVE  \E s \in Subjects :
           /\ s = target[r] /\ AnswerMoved(r) /\ answerPc[r] = "write"
           /\ answerPc'[r] = (IF decision = "Approved" THEN "act" ELSE "idle")
           /\ decision = "Approved" => target' = target
           /\ approvals' \in [Subjects -> Records \cup {None}]
           /\ approvals'[s].status # "Pending"
           /\ \A t \in Subjects : t # s => approvals'[t] = approvals[t]
           /\ denied' \in [Subjects -> Nat]
           /\ denied'[s] = denied[s] + (IF decision = "Denied" THEN 1 ELSE 0)
           /\ \A t \in Subjects : t # s => denied'[t] = denied[t]
           /\ s \notin raced' => Pending(s)
           /\ raced' \subseteq Subjects /\ raced \subseteq raced' /\ old' \subseteq Subjects
<1>1. ApprovalTypeOK /\ AnswerersKnow /\ answerPc[r] = "write"
  BY DEF ApprovalKnown, WriteDecision
<1>2. PICK s \in Subjects : s = target[r]
  BY <1>1 DEF AnswerersKnow
<1>3. /\ target \in [Answerers -> Subjects \cup {None}] /\ readCopy \in [Answerers -> Records \cup {None}]
      /\ approvals \in [Subjects -> Records \cup {None}] /\ denied \in [Subjects -> Nat]
      /\ raced \subseteq Subjects /\ old \subseteq Subjects
      /\ readCopy[r] \in Records /\ readCopy[r] # None /\ readCopy[r].status = "Pending"
  BY <1>1 DEF ApprovalTypeOK, AnswerersKnow
<1>4. PICK new : new = [readCopy[r] EXCEPT !.status = decision]
  OBVIOUS
<1>5. new \in Records /\ new.status # "Pending"
  BY <1>3, <1>4 DEF Records
<1>6. /\ approvals' \in [Subjects -> Records \cup {None}] /\ approvals'[s] = new
      /\ \A t \in Subjects : t # s => approvals'[t] = approvals[t]
  <2>1. approvals' = [approvals EXCEPT ![s] = new]
    BY <1>2, <1>4 DEF WriteDecision
  <2> QED
    BY <1>3, <1>5, <2>1
<1>7. raced' = (IF approvals[s] = readCopy[r] THEN raced ELSE raced \cup {s}) /\ old' = old \ {s}
  BY <1>2 DEF WriteDecision
<1>8. s \notin raced' => Pending(s)
  BY <1>3, <1>7 DEF Pending
<1>9. raced' \subseteq Subjects /\ raced \subseteq raced' /\ old' \subseteq Subjects
  BY <1>3, <1>7
<1>10. CASE decision = "Approved"
  <2>1. AnswerGoes(r, "act") /\ UNCHANGED <<target, readCopy, denied>>
    BY <1>10 DEF WriteDecision
  <2>2. /\ answerPc' \in [Answerers -> {"idle", "select", "read", "write", "act"}]
        /\ answerPc'[r] = "act" /\ \A x \in Answerers : x # r => answerPc'[x] = answerPc[x]
    BY <1>1, <2>1, AnswerWent
  <2>3. AnswerMoved(r)
    BY <1>2, <1>3, <2>1, <2>2 DEF AnswerMoved
  <2>4. denied'[s] = denied[s] + 0
    BY <1>3, <2>1
  <2> QED
    BY <1>1, <1>2, <1>3, <1>5, <1>6, <1>8, <1>9, <1>10, <2>1, <2>2, <2>3, <2>4
<1>11. CASE decision = "Denied"
  <2>1. AnswerGoes(r, "idle") /\ denied' = [denied EXCEPT ![s] = @ + 1]
    BY <1>2, <1>11 DEF WriteDecision
  <2>2. AnswerMoved(r) /\ answerPc'[r] = "idle"
    BY <1>1, <2>1, AnswerWent DEF AnswerMoved
  <2>3. /\ denied' \in [Subjects -> Nat] /\ denied'[s] = denied[s] + 1
        /\ \A t \in Subjects : t # s => denied'[t] = denied[t]
    BY <1>3, <2>1
  <2> QED
    BY <1>1, <1>2, <1>5, <1>6, <1>8, <1>9, <1>11, <2>2, <2>3
<1> QED
  BY <1>10, <1>11

(* Act: the deed of one subject is done.                                    *)
LEMMA ActMoves ==
  ASSUME ApprovalKnown, NEW r \in Answerers, Act(r)
  PROVE  \E s \in Subjects :
           /\ s = target[r] /\ AnswerMoved(r) /\ answerPc[r] = "act" /\ answerPc'[r] = "idle"
           /\ ran' \in [Subjects -> Nat] /\ ran'[s] = ran[s] + 1
           /\ \A t \in Subjects : t # s => ran'[t] = ran[t]
           /\ elevated' \in {"none", "active", "expired"}
           /\ \/ decisions' = decisions
              \/ s = Domain /\ \E d \in 1..MaxAsks : decisions' = decisions \cup {d}
<1>1. ApprovalTypeOK /\ AnswerersKnow /\ answerPc[r] = "act"
  BY DEF ApprovalKnown, Act
<1>2. PICK s \in Subjects : s = target[r]
  BY <1>1 DEF AnswerersKnow
<1>3. AnswerMoved(r) /\ answerPc'[r] = "idle"
  <2>1. AnswerGoes(r, "idle")
    BY DEF Act
  <2> QED
    BY <1>1, <2>1, AnswerWent DEF AnswerMoved
<1>4. /\ ran' \in [Subjects -> Nat] /\ ran'[s] = ran[s] + 1
      /\ \A t \in Subjects : t # s => ran'[t] = ran[t]
  <2>1. ran \in [Subjects -> Nat] /\ ran' = [ran EXCEPT ![s] = @ + 1]
    BY <1>1, <1>2 DEF Act, ApprovalTypeOK
  <2> QED
    BY <2>1
<1>5. elevated' \in {"none", "active", "expired"}
  BY <1>1 DEF Act, ApprovalTypeOK
<1>6. \/ decisions' = decisions
      \/ s = Domain /\ \E d \in 1..MaxAsks : decisions' = decisions \cup {d}
  <2>1. readCopy[r].ask \in 1..MaxAsks
    BY <1>1 DEF AnswerersKnow, Records
  <2> QED
    BY <1>2, <2>1 DEF Act
<1> QED
  BY <1>1, <1>2, <1>3, <1>4, <1>5, <1>6

(* What an answer changes has its type.                                     *)
LEMMA AnswerStepKnown ==
  ASSUME ApprovalKnown, NEW r \in Answerers, AnswerStep(r)
  PROVE  ApprovalKnown'
<1>1. ApprovalTypeOK /\ AskersKnow /\ AnswerersKnow
  BY DEF ApprovalKnown
<1>2. ASSUME AnswerMoved(r), UNCHANGED <<askerVars, troubles>>,
             approvals' \in [Subjects -> Records \cup {None}], old' \subseteq Subjects,
             handles' \in [Subjects -> {"none", "live", "expired"}],
             elevated' \in {"none", "active", "expired"}, decisions' \subseteq 1..MaxAsks,
             ran' \in [Subjects -> Nat], denied' \in [Subjects -> Nat], raced' \subseteq Subjects
      PROVE  ApprovalKnown'
  <2>1. ApprovalTypeOK'
    BY <1>1, <1>2 DEF ApprovalTypeOK, AnswerMoved, askerVars
  <2>2. AskersKnow'
    BY <1>1, <1>2 DEF AskersKnow, askerVars
  <2>3. AnswerersKnow'
    BY <1>1, <1>2, OneAnswers DEF AnswerMoved
  <2> QED
    BY <2>1, <2>2, <2>3 DEF ApprovalKnown
<1>3. /\ approvals \in [Subjects -> Records \cup {None}] /\ old \subseteq Subjects
      /\ handles \in [Subjects -> {"none", "live", "expired"}]
      /\ elevated \in {"none", "active", "expired"} /\ decisions \subseteq 1..MaxAsks
      /\ ran \in [Subjects -> Nat] /\ denied \in [Subjects -> Nat] /\ raced \subseteq Subjects
  BY <1>1 DEF ApprovalTypeOK
<1>4. CASE Select(r)
  <2>1. UNCHANGED <<approvals, old, elevated, decisions, askerVars, ran, denied, raced, troubles>>
    BY <1>4 DEF Select
  <2> QED
    BY <1>2, <1>3, <1>4, <2>1, SelectMoves
<1>5. CASE ReadRecord(r)
  <2>1. UNCHANGED <<tables, askerVars, ran, denied, raced, troubles>>
    BY <1>5 DEF ReadRecord
  <2> QED
    BY <1>2, <1>3, <1>5, <2>1, ReadRecordMoves DEF tables
<1>6. ASSUME NEW decision \in {"Approved", "Denied"}, WriteDecision(r, decision)
      PROVE  ApprovalKnown'
  <2>1. UNCHANGED <<handles, elevated, decisions, askerVars, ran, troubles>>
    BY <1>6 DEF WriteDecision
  <2>2. /\ AnswerMoved(r) /\ approvals' \in [Subjects -> Records \cup {None}]
        /\ denied' \in [Subjects -> Nat] /\ raced' \subseteq Subjects /\ old' \subseteq Subjects
    BY <1>6, WriteDecisionMoves
  <2> QED
    BY <1>2, <1>3, <2>1, <2>2
<1>7. CASE Act(r)
  <2>1. UNCHANGED <<approvals, old, handles, askerVars, denied, raced, troubles>>
    BY <1>7 DEF Act
  <2>2. /\ AnswerMoved(r) /\ ran' \in [Subjects -> Nat] /\ elevated' \in {"none", "active", "expired"}
        /\ decisions' \subseteq 1..MaxAsks
    BY <1>3, <1>7, ActMoves
  <2> QED
    BY <1>2, <1>3, <2>1, <2>2
<1> QED
  BY <1>4, <1>5, <1>6, <1>7 DEF AnswerStep

(* Ends of handles and of the elevation, and a stop of the process.         *)
LEMMA TroublesKnown ==
  ASSUME ApprovalKnown,
         (\E s \in Subjects : HandleEnds(s)) \/ ElevationEnds \/ ProcessStops
  PROVE  ApprovalKnown'
<1>1. ApprovalTypeOK /\ AskersKnow /\ AnswerersKnow
  BY DEF ApprovalKnown
<1>2. troubles' \in 0..MaxTroubles
  BY <1>1, TroubleCounted DEF HandleEnds, ElevationEnds, ProcessStops
<1>3. ASSUME NEW s \in Subjects, HandleEnds(s) PROVE ApprovalKnown'
  <2>1. handles' \in [Subjects -> {"none", "live", "expired"}] /\ old' \subseteq Subjects
    BY <1>1, <1>3 DEF HandleEnds, ApprovalTypeOK
  <2>2. UNCHANGED <<approvals, elevated, decisions, askerVars, answerVars, raced>>
    BY <1>3 DEF HandleEnds
  <2>3. ApprovalTypeOK'
    BY <1>1, <1>2, <2>1, <2>2 DEF ApprovalTypeOK, askerVars, answerVars
  <2> QED
    BY <1>1, <2>2, <2>3 DEF ApprovalKnown, AskersKnow, AnswerersKnow, askerVars, answerVars
<1>4. CASE ElevationEnds
  <2>1. elevated' \in {"none", "active", "expired"}
    BY <1>4 DEF ElevationEnds
  <2>2. UNCHANGED <<approvals, old, handles, decisions, askerVars, answerVars, raced>>
    BY <1>4 DEF ElevationEnds
  <2>3. ApprovalTypeOK'
    BY <1>1, <1>2, <2>1, <2>2 DEF ApprovalTypeOK, askerVars, answerVars
  <2> QED
    BY <1>1, <2>2, <2>3 DEF ApprovalKnown, AskersKnow, AnswerersKnow, askerVars, answerVars
<1>5. CASE ProcessStops
  <2>1. /\ askPc' \in [Askers -> {"idle", "record", "handle", "consume"}]
        /\ about' \in [Askers -> Subjects \cup {None}]
        /\ askNo' \in [Askers -> 0..MaxAsks]
        /\ found' \in [Askers -> 1..MaxAsks \cup {None}]
    BY <1>5, ApprovalAssumption DEF ProcessStops
  <2>2. /\ answerPc' \in [Answerers -> {"idle", "select", "read", "write", "act"}]
        /\ target' \in [Answerers -> Subjects \cup {None}]
        /\ readCopy' \in [Answerers -> Records \cup {None}]
    BY <1>5 DEF ProcessStops
  <2>3. /\ \A q \in Askers : askPc'[q] = "idle"
        /\ \A r \in Answerers : answerPc'[r] = "idle"
    BY <1>5 DEF ProcessStops
  <2>4. UNCHANGED <<tables, asks, asked, pages, ran, denied, raced>>
    BY <1>5 DEF ProcessStops
  <2>5. ApprovalTypeOK'
    BY <1>1, <1>2, <2>1, <2>2, <2>4 DEF ApprovalTypeOK, tables
  <2> QED
    BY <2>3, <2>5 DEF ApprovalKnown, AskersKnow, AnswerersKnow
<1> QED
  BY <1>3, <1>4, <1>5

(* Who is about to do what.                                                 *)
LEMMA ActingSame ==
  ASSUME NEW s,
         \A x \in Answerers : /\ answerPc'[x] = "act" <=> answerPc[x] = "act"
                              /\ answerPc[x] = "act" => target'[x] = target[x]
  PROVE  ActingOn(s)' = ActingOn(s)
BY DEF ActingOn

(* A step that answers nothing and opens no ask.                            *)
LEMMA CoverKept ==
  ASSUME AsksCover,
         \A x \in Answerers : /\ answerPc'[x] = "act" <=> answerPc[x] = "act"
                              /\ answerPc[x] = "act" => target'[x] = target[x],
         ran' = ran, denied' = denied, asked' = asked, approvals' = approvals,
         raced \subseteq raced'
  PROVE  AsksCover'
<1> SUFFICES ASSUME NEW s \in Subjects
             PROVE  /\ IsFiniteSet(ActingOn(s)')
                    /\ s \notin raced' =>
                         ran'[s] + denied'[s] + (IF Pending(s)' THEN 1 ELSE 0)
                           + Cardinality(ActingOn(s)') <= asked'[s]
  BY DEF AsksCover, Subjects
<1>1. ActingOn(s)' = ActingOn(s)
  BY ActingSame
<1>2. Pending(s)' <=> Pending(s)
  BY DEF Pending
<1> QED
  BY <1>1, <1>2 DEF AsksCover

(* A step that opens no page and stores no decision.                        *)
LEMMA PagesKept ==
  ASSUME ApprovalTypeOK, PagesCover, pages' = pages, decisions' = decisions, raced \subseteq raced',
         ran'[Domain] = ran[Domain]
  PROVE  PagesCover'
BY DEF PagesCover

(* StoreRecord: one ask more, one record pending at most.                   *)
LEMMA StoreRecordCovers ==
  ASSUME ApprovalKnown, AsksCover, NEW q \in Askers, StoreRecord(q)
  PROVE  AsksCover'
<1>1. ApprovalTypeOK /\ UNCHANGED <<answerVars, raced>>
  BY DEF ApprovalKnown, StoreRecord
<1>2. PICK t \in Subjects : t = about[q]
  BY DEF ApprovalKnown, AskersKnow, StoreRecord
<1>3. /\ asked' = [asked EXCEPT ![t] = @ + 1]
      /\ approvals' = [approvals EXCEPT ![t] = PendingRecord(askNo[q])]
  BY <1>2 DEF StoreRecord
<1>4. ASSUME NEW s \in Subjects
      PROVE  /\ IsFiniteSet(ActingOn(s)')
             /\ s \notin raced' =>
                  ran'[s] + denied'[s] + (IF Pending(s)' THEN 1 ELSE 0)
                    + Cardinality(ActingOn(s)') <= asked'[s]
  <2>1. ActingOn(s)' = ActingOn(s)
    BY <1>1, ActingSame DEF answerVars
  <2>2. /\ IsFiniteSet(ActingOn(s)) /\ Cardinality(ActingOn(s)) \in Nat
        /\ s \notin raced =>
             ran[s] + denied[s] + (IF Pending(s) THEN 1 ELSE 0) + Cardinality(ActingOn(s)) <= asked[s]
    BY FS_CardinalityType DEF AsksCover
  <2>3. ran[s] \in Nat /\ denied[s] \in Nat /\ asked[s] \in Nat
    BY <1>1 DEF ApprovalTypeOK
  <2>4. ran' = ran /\ denied' = denied /\ raced' = raced
    BY <1>1 DEF answerVars
  <2>5. CASE s = t
    <3>1. asked'[s] = asked[s] + 1
      BY <1>1, <1>3, <2>5 DEF ApprovalTypeOK
    <3> QED
      BY <2>1, <2>2, <2>3, <2>4, <3>1
  <2>6. CASE s # t
    <3>1. asked'[s] = asked[s] /\ approvals'[s] = approvals[s]
      BY <1>1, <1>3, <2>6 DEF ApprovalTypeOK
    <3>2. Pending(s)' <=> Pending(s)
      BY <3>1 DEF Pending
    <3> QED
      BY <2>1, <2>2, <2>4, <3>1, <3>2
  <2> QED
    BY <2>5, <2>6
<1> QED
  BY <1>4 DEF AsksCover, Subjects

(* WriteDecision: a pending record less, and a deed to do or a refusal      *)
(* more.                                                                    *)
LEMMA WriteDecisionCovers ==
  ASSUME ApprovalKnown, AsksCover, NEW r \in Answerers, NEW decision \in {"Approved", "Denied"},
         WriteDecision(r, decision)
  PROVE  AsksCover'
<1>1. ApprovalTypeOK /\ ran' = ran /\ asked' = asked
  BY DEF ApprovalKnown, WriteDecision, askerVars
<1>2. PICK t \in Subjects :
         /\ t = target[r] /\ AnswerMoved(r) /\ answerPc[r] = "write"
         /\ answerPc'[r] = (IF decision = "Approved" THEN "act" ELSE "idle")
         /\ decision = "Approved" => target' = target
         /\ approvals'[t].status # "Pending"
         /\ \A s \in Subjects : s # t => approvals'[s] = approvals[s]
         /\ denied'[t] = denied[t] + (IF decision = "Denied" THEN 1 ELSE 0)
         /\ \A s \in Subjects : s # t => denied'[s] = denied[s]
         /\ t \notin raced' => Pending(t)
         /\ raced \subseteq raced'
  BY WriteDecisionMoves
<1>3. /\ \A x \in Answerers : x # r => answerPc'[x] = answerPc[x] /\ target'[x] = target[x]
  BY <1>2 DEF AnswerMoved
<1>4. ASSUME NEW s \in Subjects
      PROVE  /\ IsFiniteSet(ActingOn(s)')
             /\ s \notin raced' =>
                  ran'[s] + denied'[s] + (IF Pending(s)' THEN 1 ELSE 0)
                    + Cardinality(ActingOn(s)') <= asked'[s]
  <2>1. /\ IsFiniteSet(ActingOn(s)) /\ Cardinality(ActingOn(s)) \in Nat
        /\ s \notin raced =>
             ran[s] + denied[s] + (IF Pending(s) THEN 1 ELSE 0) + Cardinality(ActingOn(s)) <= asked[s]
    BY FS_CardinalityType DEF AsksCover
  <2>2. ran[s] \in Nat /\ denied[s] \in Nat /\ asked[s] \in Nat
    BY <1>1 DEF ApprovalTypeOK
  <2>3. r \notin ActingOn(s)
    BY <1>2 DEF ActingOn
  <2>4. CASE s # t
    <3>1. ActingOn(s)' = ActingOn(s)
      BY <1>2, <1>3, <2>4 DEF ActingOn
    <3>2. Pending(s)' <=> Pending(s)
      BY <1>2, <2>4 DEF Pending
    <3>3. denied'[s] = denied[s]
      BY <1>2, <2>4
    <3> QED
      BY <1>1, <1>2, <2>1, <3>1, <3>2, <3>3
  <2>5. CASE s = t /\ decision = "Approved"
    <3>1. answerPc'[r] = "act" /\ target'[r] = s
      BY <1>2, <2>5
    <3>2. ActingOn(s)' = ActingOn(s) \cup {r}
      BY <1>3, <3>1 DEF ActingOn
    <3>3. IsFiniteSet(ActingOn(s)') /\ Cardinality(ActingOn(s)') = Cardinality(ActingOn(s)) + 1
      BY <2>1, <2>3, <3>2, FS_AddElement
    <3>4. ~ Pending(s)' /\ (s \notin raced' => Pending(s))
      BY <1>2, <2>5 DEF Pending
    <3>5. denied'[s] = denied[s]
      BY <1>2, <2>2, <2>5
    <3> QED
      BY <1>1, <1>2, <2>1, <2>2, <3>3, <3>4, <3>5
  <2>6. CASE s = t /\ decision = "Denied"
    <3>1. answerPc'[r] = "idle"
      BY <1>2, <2>6
    <3>2. ActingOn(s)' = ActingOn(s)
      BY <1>2, <1>3, <3>1 DEF ActingOn
    <3>3. ~ Pending(s)' /\ (s \notin raced' => Pending(s))
      BY <1>2, <2>6 DEF Pending
    <3>4. denied'[s] = denied[s] + 1
      BY <1>2, <2>6
    <3> QED
      BY <1>1, <1>2, <2>1, <2>2, <3>2, <3>3, <3>4
  <2> QED
    BY <2>4, <2>5, <2>6
<1> QED
  BY <1>4 DEF AsksCover, Subjects

(* Act: a deed to do less, a deed done more.                                *)
LEMMA ActCovers ==
  ASSUME ApprovalKnown, AsksCover, NEW r \in Answerers, Act(r)
  PROVE  AsksCover'
<1>1. ApprovalTypeOK /\ UNCHANGED <<approvals, denied, asked, raced>>
  BY DEF ApprovalKnown, Act, askerVars
<1>2. PICK t \in Subjects :
         /\ t = target[r] /\ AnswerMoved(r) /\ answerPc[r] = "act" /\ answerPc'[r] = "idle"
         /\ ran'[t] = ran[t] + 1 /\ \A s \in Subjects : s # t => ran'[s] = ran[s]
  BY ActMoves
<1>3. /\ \A x \in Answerers : x # r => answerPc'[x] = answerPc[x] /\ target'[x] = target[x]
  BY <1>2 DEF AnswerMoved
<1>4. ASSUME NEW s \in Subjects
      PROVE  /\ IsFiniteSet(ActingOn(s)')
             /\ s \notin raced' =>
                  ran'[s] + denied'[s] + (IF Pending(s)' THEN 1 ELSE 0)
                    + Cardinality(ActingOn(s)') <= asked'[s]
  <2>1. /\ IsFiniteSet(ActingOn(s)) /\ Cardinality(ActingOn(s)) \in Nat
        /\ s \notin raced =>
             ran[s] + denied[s] + (IF Pending(s) THEN 1 ELSE 0) + Cardinality(ActingOn(s)) <= asked[s]
    BY FS_CardinalityType DEF AsksCover
  <2>2. ran[s] \in Nat /\ denied[s] \in Nat /\ asked[s] \in Nat
    BY <1>1 DEF ApprovalTypeOK
  <2>3. Pending(s)' <=> Pending(s)
    BY <1>1 DEF Pending
  <2>4. CASE s # t
    <3>1. ActingOn(s)' = ActingOn(s)
      BY <1>2, <1>3, <2>4 DEF ActingOn
    <3> QED
      BY <1>1, <1>2, <2>1, <2>3, <2>4, <3>1
  <2>5. CASE s = t
    <3>1. r \in ActingOn(s) /\ ActingOn(s)' = ActingOn(s) \ {r}
      BY <1>2, <1>3, <2>5 DEF ActingOn
    <3>2. IsFiniteSet(ActingOn(s)') /\ Cardinality(ActingOn(s)') = Cardinality(ActingOn(s)) - 1
      BY <2>1, <3>1, FS_RemoveElement
    <3>3. ran'[s] = ran[s] + 1
      BY <1>2, <2>5
    <3> QED
      BY <1>1, <2>1, <2>2, <2>3, <3>2, <3>3
  <2> QED
    BY <2>4, <2>5
<1> QED
  BY <1>4 DEF AsksCover, Subjects

(* ProcessStops: the deeds to do are lost.                                  *)
LEMMA StopsCover ==
  ASSUME ApprovalKnown, AsksCover, ProcessStops
  PROVE  AsksCover'
<1>1. ApprovalTypeOK /\ UNCHANGED <<approvals, ran, denied, asked, raced>>
  BY DEF ApprovalKnown, ProcessStops, tables
<1>2. ASSUME NEW s \in Subjects
      PROVE  /\ IsFiniteSet(ActingOn(s)')
             /\ s \notin raced' =>
                  ran'[s] + denied'[s] + (IF Pending(s)' THEN 1 ELSE 0)
                    + Cardinality(ActingOn(s)') <= asked'[s]
  <2>1. /\ Cardinality(ActingOn(s)) \in Nat
        /\ s \notin raced =>
             ran[s] + denied[s] + (IF Pending(s) THEN 1 ELSE 0) + Cardinality(ActingOn(s)) <= asked[s]
    BY FS_CardinalityType DEF AsksCover
  <2>2. ran[s] \in Nat /\ denied[s] \in Nat /\ asked[s] \in Nat
    BY <1>1 DEF ApprovalTypeOK
  <2>3. ActingOn(s)' = {}
    BY DEF ActingOn, ProcessStops
  <2>4. IsFiniteSet(ActingOn(s)') /\ Cardinality(ActingOn(s)') = 0
    BY <2>3, FS_EmptySet
  <2>5. Pending(s)' <=> Pending(s)
    BY <1>1 DEF Pending
  <2> QED
    BY <1>1, <2>1, <2>2, <2>4, <2>5
<1> QED
  BY <1>2 DEF AsksCover, Subjects

(* The decisions that are stored are finitely many.                         *)
LEMMA DecisionsFinite ==
  ASSUME ApprovalTypeOK
  PROVE  IsFiniteSet(decisions) /\ Cardinality(decisions) \in Nat
<1>1. IsFiniteSet(1..MaxAsks)
  BY FS_Interval, ApprovalAssumption
<1>2. IsFiniteSet(decisions)
  BY <1>1, FS_Subset DEF ApprovalTypeOK
<1> QED
  BY <1>2, FS_CardinalityType

(* ConsumeDecision: a decision less for the page that may open, or it was   *)
(* gone and the domain counts as raced.                                     *)
LEMMA ConsumeCoversPages ==
  ASSUME ApprovalKnown, PagesCover, NEW q \in Askers, ConsumeDecision(q)
  PROVE  PagesCover'
<1>1. ApprovalTypeOK /\ ran' = ran
  BY DEF ApprovalKnown, ConsumeDecision, answerVars
<1>2. ran[Domain] \in Nat /\ pages \in Nat
  BY <1>1 DEF ApprovalTypeOK, Subjects
<1>3. pages' = pages \/ pages' = pages + 1
  BY DEF ConsumeDecision
<1>4. PICK d : d = found[q]
  OBVIOUS
<1>5. CASE d \in decisions
  <2>1. decisions' = decisions \ {d} /\ raced' = raced
    BY <1>4, <1>5 DEF ConsumeDecision
  <2>2. Cardinality(decisions') = Cardinality(decisions) - 1 /\ Cardinality(decisions) \in Nat
    BY <1>1, <1>5, <2>1, DecisionsFinite, FS_RemoveElement
  <2> QED
    BY <1>1, <1>2, <1>3, <2>1, <2>2 DEF PagesCover
<1>6. CASE d \notin decisions
  BY <1>4, <1>6 DEF ConsumeDecision, PagesCover
<1> QED
  BY <1>5, <1>6

(* Act: one decision more at most, for one deed more.                       *)
LEMMA ActCoversPages ==
  ASSUME ApprovalKnown, PagesCover, NEW r \in Answerers, Act(r)
  PROVE  PagesCover'
<1>1. ApprovalTypeOK /\ UNCHANGED <<pages, raced>>
  BY DEF ApprovalKnown, Act, askerVars
<1>2. ran[Domain] \in Nat /\ pages \in Nat /\ Domain \in Subjects
  BY <1>1 DEF ApprovalTypeOK, Subjects
<1>3. PICK t \in Subjects :
         /\ ran'[t] = ran[t] + 1 /\ \A s \in Subjects : s # t => ran'[s] = ran[s]
         /\ \/ decisions' = decisions
            \/ t = Domain /\ \E d \in 1..MaxAsks : decisions' = decisions \cup {d}
  BY ActMoves
<1>4. IsFiniteSet(decisions) /\ Cardinality(decisions) \in Nat
  BY <1>1, DecisionsFinite
<1>5. CASE decisions' = decisions
  <2>1. ran'[Domain] = ran[Domain] \/ ran'[Domain] = ran[Domain] + 1
    BY <1>2, <1>3
  <2> QED
    BY <1>1, <1>2, <1>4, <1>5, <2>1 DEF PagesCover
<1>6. ASSUME t = Domain, NEW d, decisions' = decisions \cup {d}
      PROVE  PagesCover'
  <2>1. ran'[Domain] = ran[Domain] + 1
    BY <1>3, <1>6
  <2>2. Cardinality(decisions') <= Cardinality(decisions) + 1 /\ Cardinality(decisions') \in Nat
    <3>1. CASE d \in decisions
      <4>1. decisions' = decisions
        BY <1>6, <3>1
      <4> QED
        BY <1>4, <4>1
    <3>2. CASE d \notin decisions
      <4>1. Cardinality(decisions') = Cardinality(decisions) + 1
        BY <1>4, <1>6, <3>2, FS_AddElement
      <4> QED
        BY <1>4, <4>1
    <3> QED
      BY <3>1, <3>2
  <2> QED
    BY <1>1, <1>2, <1>4, <2>1, <2>2 DEF PagesCover
<1> QED
  BY <1>3, <1>5, <1>6

(* Every step keeps all of it.                                              *)
LEMMA ApprovalInductive == ApprovalInv /\ [ApprovalNext]_approvalVars => ApprovalInv'
<1> SUFFICES ASSUME ApprovalInv, [ApprovalNext]_approvalVars PROVE ApprovalInv'
  OBVIOUS
<1>1. ApprovalKnown /\ ApprovalTypeOK /\ AsksCover /\ PagesCover
  BY DEF ApprovalInv, ApprovalKnown
<1>2. CASE UNCHANGED approvalVars
  <2>1. ApprovalTypeOK'
    BY <1>1, <1>2 DEF approvalVars, ApprovalTypeOK
  <2>2. AskersKnow' /\ AnswerersKnow'
    BY <1>1, <1>2 DEF approvalVars, AskersKnow, AnswerersKnow, ApprovalKnown
  <2>3. AsksCover' /\ PagesCover'
    BY <1>1, <1>2, CoverKept, PagesKept DEF approvalVars
  <2> QED
    BY <2>1, <2>2, <2>3 DEF ApprovalInv, ApprovalKnown
<1>3. ASSUME NEW q \in Askers, NEW s \in Subjects, Ask(q, s) PROVE ApprovalInv'
  <2>1. UNCHANGED <<tables, asked, pages, answerVars, raced>>
    BY <1>3 DEF Ask
  <2>2. AsksCover' /\ PagesCover'
    BY <1>1, <2>1, CoverKept, PagesKept DEF tables, answerVars
  <2> QED
    BY <1>1, <1>3, <2>2, AskKnown DEF ApprovalInv
<1>4. ASSUME NEW q \in Askers, FindDecision(q) PROVE ApprovalInv'
  <2>1. UNCHANGED <<tables, asked, pages, answerVars, raced>>
    BY <1>4 DEF FindDecision
  <2>2. AsksCover' /\ PagesCover'
    BY <1>1, <2>1, CoverKept, PagesKept DEF tables, answerVars
  <2> QED
    BY <1>1, <1>4, <2>2, FindDecisionKnown DEF ApprovalInv
<1>5. ASSUME NEW q \in Askers, ConsumeDecision(q) PROVE ApprovalInv'
  <2>1. UNCHANGED <<approvals, asked, answerVars>> /\ raced \subseteq raced'
    BY <1>5 DEF ConsumeDecision
  <2>2. AsksCover'
    BY <1>1, <2>1, CoverKept DEF answerVars
  <2> QED
    BY <1>1, <1>5, <2>2, ConsumeDecisionKnown, ConsumeCoversPages DEF ApprovalInv
<1>6. ASSUME NEW q \in Askers, StoreRecord(q) PROVE ApprovalInv'
  <2>1. UNCHANGED <<decisions, pages, answerVars, raced>>
    BY <1>6 DEF StoreRecord
  <2>2. PagesCover'
    BY <1>1, <2>1, PagesKept DEF answerVars
  <2> QED
    BY <1>1, <1>6, <2>2, StoreRecordKnown, StoreRecordCovers DEF ApprovalInv
<1>7. ASSUME NEW q \in Askers, GiveHandle(q) PROVE ApprovalInv'
  <2>1. UNCHANGED <<approvals, decisions, asked, pages, answerVars, raced>>
    BY <1>7 DEF GiveHandle
  <2>2. AsksCover' /\ PagesCover'
    BY <1>1, <2>1, CoverKept, PagesKept DEF answerVars
  <2> QED
    BY <1>1, <1>7, <2>2, GiveHandleKnown DEF ApprovalInv
<1>8. ASSUME NEW r \in Answerers, NEW s \in Subjects, Answer(r, s) PROVE ApprovalInv'
  <2>1. UNCHANGED <<tables, askerVars, ran, denied, raced>> /\ answerPc[r] = "idle"
    BY <1>8 DEF Answer
  <2>2. /\ answerPc'[r] = "select"
        /\ \A x \in Answerers : x # r => answerPc'[x] = answerPc[x] /\ target'[x] = target[x]
    BY <1>1, <1>8 DEF Answer, ApprovalTypeOK
  <2>3. AsksCover'
    BY <1>1, <2>1, <2>2, CoverKept DEF tables, askerVars
  <2>4. PagesCover'
    BY <1>1, <2>1, PagesKept DEF tables, askerVars
  <2> QED
    BY <1>1, <1>8, <2>3, <2>4, AnswerKnown DEF ApprovalInv
<1>9. ASSUME NEW r \in Answerers, Select(r) \/ ReadRecord(r) PROVE ApprovalInv'
  <2>1. UNCHANGED <<approvals, decisions, askerVars, ran, denied, raced>>
    BY <1>9 DEF Select, ReadRecord, tables
  <2>2. AnswerMoved(r) /\ answerPc[r] # "act" /\ answerPc'[r] # "act"
    BY <1>1, <1>9, SelectMoves, ReadRecordMoves
  <2>3. AsksCover'
    BY <1>1, <2>1, <2>2, CoverKept DEF AnswerMoved, askerVars
  <2>4. PagesCover'
    BY <1>1, <2>1, PagesKept DEF askerVars
  <2>5. AnswerStep(r)
    BY <1>9 DEF AnswerStep
  <2> QED
    BY <1>1, <2>3, <2>4, <2>5, AnswerStepKnown DEF ApprovalInv
<1>10. ASSUME NEW r \in Answerers, NEW decision \in {"Approved", "Denied"}, WriteDecision(r, decision)
       PROVE  ApprovalInv'
  <2>1. UNCHANGED <<decisions, askerVars, ran>> /\ raced \subseteq raced'
    BY <1>10 DEF WriteDecision
  <2>2. PagesCover'
    BY <1>1, <2>1, PagesKept DEF askerVars
  <2>3. AnswerStep(r)
    BY <1>10 DEF AnswerStep
  <2> QED
    BY <1>1, <1>10, <2>2, <2>3, AnswerStepKnown, WriteDecisionCovers DEF ApprovalInv
<1>11. ASSUME NEW r \in Answerers, Act(r) PROVE ApprovalInv'
  <2>1. AnswerStep(r)
    BY <1>11 DEF AnswerStep
  <2> QED
    BY <1>1, <1>11, <2>1, AnswerStepKnown, ActCovers, ActCoversPages DEF ApprovalInv
<1>12. CASE (\E s \in Subjects : HandleEnds(s)) \/ ElevationEnds
  <2>1. UNCHANGED <<approvals, decisions, askerVars, answerVars, raced>>
    BY <1>12 DEF HandleEnds, ElevationEnds
  <2>2. AsksCover' /\ PagesCover'
    BY <1>1, <2>1, CoverKept, PagesKept DEF askerVars, answerVars
  <2> QED
    BY <1>1, <1>12, <2>2, TroublesKnown DEF ApprovalInv
<1>13. CASE ProcessStops
  <2>1. UNCHANGED <<decisions, pages, ran, raced>>
    BY <1>13 DEF ProcessStops, tables
  <2>2. PagesCover'
    BY <1>1, <2>1, PagesKept
  <2> QED
    BY <1>1, <1>13, <2>2, TroublesKnown, StopsCover DEF ApprovalInv
<1> QED
  BY <1>2, <1>3, <1>4, <1>5, <1>6, <1>7, <1>8, <1>9, <1>10, <1>11, <1>12, <1>13
     DEF ApprovalNext, AnswerStep

(* Every variable keeps to its values.                                      *)
THEOREM ApprovalTypes == ApprovalSpec => []ApprovalTypeOK
<1>1. ApprovalInv => ApprovalTypeOK
  BY DEF ApprovalInv, ApprovalKnown
<1> QED
  BY <1>1, ApprovalInitInv, ApprovalInductive, PTL DEF ApprovalSpec

(* Each ask is answered once, and an approval of a domain opens one page at *)
(* most, as long as no record and no decision was changed under an answer.  *)
THEOREM AskedOnceAnswered == ApprovalSpec => []AnsweredOnce
<1>1. ApprovalInv => AnsweredOnce
  <2> SUFFICES ASSUME ApprovalInv, NEW s \in Subjects \ raced
               PROVE  /\ ran[s] + denied[s] + (IF Pending(s) THEN 1 ELSE 0) <= asked[s]
                      /\ s = Domain => pages + Cardinality(decisions) <= ran[s]
    BY DEF AnsweredOnce
  <2>1. /\ Cardinality(ActingOn(s)) \in Nat
        /\ ran[s] + denied[s] + (IF Pending(s) THEN 1 ELSE 0) + Cardinality(ActingOn(s)) <= asked[s]
    BY FS_CardinalityType DEF ApprovalInv, AsksCover
  <2>2. ran[s] \in Nat /\ denied[s] \in Nat /\ asked[s] \in Nat
    BY DEF ApprovalInv, ApprovalKnown, ApprovalTypeOK
  <2>3. ran[s] + denied[s] + (IF Pending(s) THEN 1 ELSE 0) <= asked[s]
    BY <2>1, <2>2
  <2> QED
    BY <2>3 DEF ApprovalInv, PagesCover
<1> QED
  BY <1>1, ApprovalInitInv, ApprovalInductive, PTL DEF ApprovalSpec

-----------------------------------------------------------------------------
(* The services together.                                                   *)

(* A step of the run is a step of one service, and the others stand still.  *)
LEMMA OneMoves ==
  ASSUME [Next]_<<part, poolVars, callVars, approvalVars, ingressVars, cliVars, storeVars, mcpVars, webVars>>
  PROVE  /\ [PoolNext]_poolVars /\ [CallNext]_callVars /\ [ApprovalNext]_approvalVars
         /\ [IngressNext]_ingressVars /\ [CliNext]_cliVars /\ [StoreNext]_storeVars
         /\ [McpNext]_mcpVars /\ [WebNext]_webVars
BY DEF Next, CliNext

(* MCServices is no more than its services: each behaviour of the run is a  *)
(* behaviour of every service, so that what is proved of a service for all  *)
(* constants holds in the run.                                              *)
THEOREM ServicesApart ==
  Spec => /\ PoolSpec /\ CallSpec /\ ApprovalSpec /\ IngressSpec
          /\ CliInit /\ [][CliNext]_cliVars
          /\ StoreSpec /\ McpSpec /\ WebSpec
<1>1. Init => /\ PoolInit /\ CallInit /\ ApprovalInit /\ IngressInit /\ CliInit /\ StoreInit
              /\ McpInit /\ WebInit
  BY DEF Init
<1> QED
  BY <1>1, OneMoves, PTL
  DEF Spec, PoolSpec, CallSpec, ApprovalSpec, IngressSpec, StoreSpec, McpSpec, WebSpec
=============================================================================
