------------------------ MODULE ResourceLeaseProofs ------------------------
(***************************************************************************)
(* Proofs about ResourceLease, for any number of callers, processes, keys,  *)
(* stages and retries, and any lease time.                                  *)
(***************************************************************************)
EXTENDS ResourceLease, TLAPS

USE DEF Stages, Time

(* The stage a caller works on is one of those it needs, and a claim's key  *)
(* is one of the keys of its stage.                                         *)
StagesInRange ==
  /\ \A c \in Callers : stage[c] <= LastStage[c]
  /\ \A c \in Callers : \A s \in Stages :
       claims[c][s] # None =>
         /\ s <= LastStage[c]
         /\ \E i \in 1..Len(SlotsOf[c][s]) : claims[c][s].key = SlotsOf[c][s][i]

(* A caller has a claim for every stage it went through and not dropped.    *)
ClaimsHeld ==
  \A c \in Callers : \A s \in Stages :
    \/ pc[c] \in {"stamp", "try", "sleep"} /\ s < stage[c]
    \/ pc[c] = "hold" /\ s <= LastStage[c]
    \/ pc[c] = "release" /\ s <= stage[c]
    => claims[c][s] # None

(* now_us is never ahead of the clock.                                      *)
NowBehind == \A c \in Callers : now[c] <= clock

Shape == TypeOK /\ StagesInRange /\ ClaimsHeld /\ NowBehind

-----------------------------------------------------------------------------
(* Lemmas about the control variables.                                      *)

(* Every stage of every caller has a first key, and every caller tries once.*)
LEMMA FirstKey ==
  ASSUME NEW c \in Callers, NEW s \in Stages
  PROVE  /\ SlotsOf[c][s] \in Seq(Keys)
         /\ Len(SlotsOf[c][s]) \in Nat
         /\ Len(SlotsOf[c][s]) >= 1
<1>1. SlotsOf[c][s] \in Seq(Keys) /\ Len(SlotsOf[c][s]) > 0
  BY SlotAssumption
<1>2. Len(SlotsOf[c][s]) \in Nat
  BY <1>1
<1> QED BY <1>1, <1>2

(* The control variables keep their types when a caller goes to the first   *)
(* key of a stage.                                                          *)
LEMMA FromFirstKey ==
  ASSUME ControlOK, NEW c \in Callers, NEW s \in Stages, NEW p \in Pcs,
         pc' = [pc EXCEPT ![c] = p],
         stage' = [stage EXCEPT ![c] = s],
         slot' = [slot EXCEPT ![c] = 1],
         attempt' = [attempt EXCEPT ![c] = 0]
  PROVE  ControlOK'
<1>1. ASSUME NEW d \in Callers PROVE slot'[d] <= Len(SlotsOf[d][stage'[d]])
  BY FirstKey DEF ControlOK
<1>2. ASSUME NEW d \in Callers PROVE attempt'[d] < Attempts[d]
  <2>1. Attempts[d] \in Nat /\ Attempts[d] > 0
    BY RetryAssumption
  <2>2. attempt \in [Callers -> Nat] /\ attempt[d] < Attempts[d]
    BY DEF ControlOK
  <2> QED BY <2>1, <2>2
<1>3. stage' \in [Callers -> Stages] /\ slot' \in [Callers -> Nat \ {0}]
  BY DEF ControlOK
<1>4. attempt' \in [Callers -> Nat] /\ pc' \in [Callers -> Pcs]
  BY DEF ControlOK
<1> QED BY <1>1, <1>2, <1>3, <1>4 DEF ControlOK

(* They keep them when only the pc of a caller changes.                     *)
LEMMA OnlyPc ==
  ASSUME ControlOK, NEW c \in Callers, NEW p \in Pcs,
         pc' = [pc EXCEPT ![c] = p], UNCHANGED <<stage, slot, attempt>>
  PROVE  ControlOK'
BY DEF ControlOK

(* They keep them when a caller starts to drop its claims.                  *)
LEMMA UnwindControl ==
  ASSUME ControlOK, NEW c \in Callers, NEW s \in Stages \cup {0}, Unwind(c, s)
  PROVE  ControlOK'
<1> DEFINE p == IF s = 0 THEN "idle" ELSE "release"
           t == IF s = 0 THEN 1 ELSE s
<1>1. t \in Stages /\ p \in Pcs
  BY StageAssumption DEF Pcs
<1>2. /\ pc' = [pc EXCEPT ![c] = p]
      /\ stage' = [stage EXCEPT ![c] = t]
      /\ slot' = [slot EXCEPT ![c] = 1]
      /\ attempt' = [attempt EXCEPT ![c] = 0]
  BY DEF Unwind
<1> QED
  <2> HIDE DEF p, t
  <2> QED BY <1>1, <1>2, FromFirstKey

(* The stages below the one a caller works on.                              *)
LEMMA StageBelow ==
  ASSUME ControlOK, NEW c \in Callers
  PROVE  stage[c] \in Stages /\ stage[c] - 1 \in Stages \cup {0}
BY StageAssumption DEF ControlOK

(* They keep them when a caller gives a key up.                             *)
LEMMA GiveUpKeyControl ==
  ASSUME ControlOK, NEW c \in Callers, GiveUpKey(c)
  PROVE  ControlOK'
<1>1. CASE slot[c] < Len(SlotsOf[c][stage[c]])
  <2> DEFINE last == Len(SlotsOf[c][stage[c]])
  <2>1. stage[c] \in Stages /\ slot[c] \in Nat \ {0} /\ last \in Nat
    BY FirstKey DEF ControlOK
  <2>2. slot' = [slot EXCEPT ![c] = slot[c] + 1] /\ stage' = stage
    BY <1>1 DEF GiveUpKey
  <2>3. attempt' = [attempt EXCEPT ![c] = 0] /\ pc' = [pc EXCEPT ![c] = "stamp"]
    BY <1>1 DEF GiveUpKey
  <2>4. slot[c] + 1 <= last
    BY <1>1, <2>1
  <2>5. ASSUME NEW d \in Callers PROVE slot'[d] <= Len(SlotsOf[d][stage'[d]])
    BY <2>2, <2>4 DEF ControlOK
  <2>6. ASSUME NEW d \in Callers PROVE attempt'[d] < Attempts[d]
    <3>1. Attempts[d] \in Nat /\ Attempts[d] > 0
      BY RetryAssumption
    <3>2. attempt \in [Callers -> Nat] /\ attempt[d] < Attempts[d]
      BY DEF ControlOK
    <3> QED BY <2>3, <3>1, <3>2
  <2>7. slot' \in [Callers -> Nat \ {0}] /\ stage' \in [Callers -> Stages]
    BY <2>1, <2>2 DEF ControlOK
  <2>8. attempt' \in [Callers -> Nat] /\ pc' \in [Callers -> Pcs]
    BY <2>3 DEF ControlOK, Pcs
  <2> QED BY <2>5, <2>6, <2>7, <2>8 DEF ControlOK
<1>2. CASE ~ (slot[c] < Len(SlotsOf[c][stage[c]]))
  <2>1. Unwind(c, stage[c] - 1)
    BY <1>2 DEF GiveUpKey
  <2> QED BY <2>1, UnwindControl, StageBelow
<1> QED BY <1>1, <1>2

-----------------------------------------------------------------------------
(* Type correctness.                                                        *)

(* The key a caller tries is a key.                                         *)
LEMMA TargetKey ==
  ASSUME ControlOK, NEW c \in Callers
  PROVE  Target(c) \in Keys
<1>1. stage[c] \in Stages /\ slot[c] \in Nat \ {0}
  BY DEF ControlOK
<1>2. slot[c] <= Len(SlotsOf[c][stage[c]])
  BY DEF ControlOK
<1>3. slot[c] \in 1..Len(SlotsOf[c][stage[c]]) /\ SlotsOf[c][stage[c]] \in Seq(Keys)
  BY <1>1, <1>2, FirstKey
<1> QED BY <1>3 DEF Target

(* What a transaction stores and what it returns have the right types.      *)
LEMMA GrantTypes ==
  ASSUME TypeOK, NEW c \in Callers
  PROVE  LET token == NextToken(lease[Target(c)])
             until == now[c] + Ttl
         IN  /\ [holder |-> HolderOf[c], token |-> token, until |-> until] \in Row
             /\ [key |-> Target(c), token |-> token, until |-> until] \in Claim
<1>1. lease[Target(c)] \in Row \cup {None}
  BY TargetKey DEF TypeOK, DataOK
<1>2. NextToken(lease[Target(c)]) \in Nat \ {0}
  BY <1>1, NoneAssumption DEF NextToken, Row
<1>3. now[c] + Ttl \in Nat
  BY TimeAssumption DEF TypeOK, DataOK
<1>4. HolderOf[c] \in Holders
  BY ProcessAssumption
<1> QED BY <1>2, <1>3, <1>4, TargetKey DEF TypeOK, Row, Claim

LEMMA TypeInit == Init => TypeOK
<1> SUFFICES ASSUME Init PROVE TypeOK
  OBVIOUS
<1>1. DataOK
  BY TimeAssumption DEF Init, DataOK
<1>2. 1 \in Stages
  BY StageAssumption
<1>3. \A c \in Callers : slot[c] <= Len(SlotsOf[c][stage[c]])
  BY <1>2, FirstKey DEF Init
<1>4. ASSUME NEW c \in Callers PROVE attempt[c] < Attempts[c]
  <2>1. Attempts[c] \in Nat /\ Attempts[c] > 0
    BY RetryAssumption
  <2> QED BY <2>1 DEF Init
<1>5. ControlOK
  BY <1>2, <1>3, <1>4 DEF Init, ControlOK, Pcs
<1> QED BY <1>1, <1>5 DEF TypeOK

LEMMA TypeStep == TypeOK /\ [Next]_vars => TypeOK'
<1> SUFFICES ASSUME TypeOK, [Next]_vars PROVE TypeOK'
  OBVIOUS
<1> USE DEF TypeOK
<1>1. ASSUME NEW c \in Callers, Begin(c) PROVE TypeOK'
  <2>1. 1 \in Stages
    BY StageAssumption
  <2>2. ControlOK'
    BY <1>1, <2>1, FromFirstKey DEF Begin, EnterStage, Pcs
  <2>3. DataOK'
    BY <1>1 DEF Begin, storeVars, DataOK
  <2> QED BY <2>2, <2>3
<1>2. ASSUME NEW c \in Callers, Stamp(c) PROVE TypeOK'
  <2>1. ControlOK'
    BY <1>2, OnlyPc DEF Stamp, Pcs
  <2>2. DataOK'
    BY <1>2 DEF Stamp, storeVars, DataOK
  <2> QED BY <2>1, <2>2
<1>3. ASSUME NEW c \in Callers, Acquire(c) PROVE TypeOK'
  <2>1. DataOK'
    <3>1. now' = [now EXCEPT ![c] = 0] /\ UNCHANGED <<clock, faults>>
      BY <1>3 DEF Acquire
    <3>2. PICK row \in Row : lease' = [lease EXCEPT ![Target(c)] = row]
      BY <1>3, GrantTypes DEF Acquire
    <3>3. PICK claim \in Claim : claims' = [claims EXCEPT ![c][stage[c]] = claim]
      BY <1>3, GrantTypes DEF Acquire
    <3>4. lease' \in [Keys -> Row \cup {None}]
      BY <3>2 DEF DataOK
    <3>5. claims' \in [Callers -> [Stages -> Claim \cup {None}]]
      BY <3>3, StageBelow DEF DataOK
    <3>6. now' \in [Callers -> Time]
      BY <3>1, TimeAssumption DEF DataOK
    <3> QED BY <3>1, <3>4, <3>5, <3>6 DEF DataOK
  <2>2. CASE stage[c] < LastStage[c]
    <3>1. stage[c] + 1 \in Stages
      BY <2>2, StageAssumption DEF ControlOK
    <3>2. EnterStage(c, stage[c] + 1)
      BY <1>3, <2>2 DEF Acquire
    <3> QED BY <2>1, <3>1, <3>2, FromFirstKey DEF EnterStage, Pcs
  <2>3. CASE ~ (stage[c] < LastStage[c])
    BY <1>3, <2>1, <2>3, OnlyPc DEF Acquire, Pcs
  <2> QED BY <2>2, <2>3
<1>4. ASSUME NEW c \in Callers, Refused(c) PROVE TypeOK'
  <2>1. DataOK'
    BY <1>4, TimeAssumption DEF Refused, storeVars, DataOK
  <2>2. CASE attempt[c] + 1 < Attempts[c]
    <3>1. attempt' = [attempt EXCEPT ![c] = attempt[c] + 1] /\ UNCHANGED <<stage, slot>>
      BY <1>4, <2>2 DEF Refused
    <3>2. pc' = [pc EXCEPT ![c] = "sleep"]
      BY <1>4, <2>2 DEF Refused
    <3>3. attempt' \in [Callers -> Nat]
      BY <3>1 DEF ControlOK
    <3>4. \A d \in Callers : attempt'[d] < Attempts[d]
      BY <2>2, <3>1 DEF ControlOK
    <3> QED BY <2>1, <3>1, <3>2, <3>3, <3>4 DEF ControlOK, Pcs
  <2>3. CASE ~ (attempt[c] + 1 < Attempts[c])
    BY <1>4, <2>1, <2>3, GiveUpKeyControl DEF Refused
  <2> QED BY <2>2, <2>3
<1>5. ASSUME NEW c \in Callers, AcquireError(c) PROVE TypeOK'
  <2>1. DataOK'
    BY <1>5, TimeAssumption DEF AcquireError, DataOK
  <2> QED BY <1>5, <2>1, GiveUpKeyControl DEF AcquireError
<1>6. ASSUME NEW c \in Callers, Wake(c) PROVE TypeOK'
  <2>1. ControlOK'
    BY <1>6, OnlyPc DEF Wake, Pcs
  <2>2. DataOK'
    BY <1>6 DEF Wake, storeVars, DataOK
  <2> QED BY <2>1, <2>2
<1>7. ASSUME NEW c \in Callers, Cancel(c) PROVE TypeOK'
  <2>1. DataOK'
    BY <1>7 DEF Cancel, storeVars, DataOK
  <2> QED BY <1>7, <2>1, UnwindControl, StageBelow DEF Cancel
<1>8. ASSUME NEW c \in Callers, Finish(c) PROVE TypeOK'
  <2>1. DataOK'
    BY <1>8 DEF Finish, storeVars, DataOK
  <2>2. LastStage[c] \in Stages
    BY StageAssumption
  <2> QED BY <1>8, <2>1, <2>2, UnwindControl DEF Finish
<1>9. ASSUME NEW c \in Callers, Release(c) PROVE TypeOK'
  <2>1. DataOK'
    BY <1>9, StageBelow DEF Release, DropClaim, DataOK
  <2> QED BY <1>9, <2>1, UnwindControl, StageBelow DEF Release, DropClaim
<1>10. ASSUME NEW c \in Callers, ReleaseError(c) PROVE TypeOK'
  <2>1. DataOK'
    BY <1>10, StageBelow, TimeAssumption DEF ReleaseError, DropClaim, DataOK
  <2> QED BY <1>10, <2>1, UnwindControl, StageBelow DEF ReleaseError, DropClaim
<1>11. ASSUME NEW i \in Mortal, Crash(i) PROVE TypeOK'
  <2>1. DataOK'
    BY <1>11, TimeAssumption DEF Crash, storeVars, DataOK
  <2>2. 1 \in Stages
    BY StageAssumption
  <2>3. \A c \in Callers : slot'[c] <= Len(SlotsOf[c][stage'[c]])
    BY <1>11, <2>2, FirstKey DEF Crash, ControlOK
  <2>4. \A c \in Callers : attempt'[c] < Attempts[c]
    BY <1>11, RetryAssumption DEF Crash, ControlOK
  <2>5. pc' \in [Callers -> Pcs] /\ stage' \in [Callers -> Stages]
    BY <1>11, <2>2 DEF Crash, ControlOK, Pcs
  <2>6. slot' \in [Callers -> Nat \ {0}] /\ attempt' \in [Callers -> Nat]
    BY <1>11 DEF Crash, ControlOK
  <2> QED BY <2>1, <2>3, <2>4, <2>5, <2>6 DEF ControlOK
<1>12. ASSUME Tick PROVE TypeOK'
  BY <1>12, TimeAssumption DEF Tick, storeVars, ControlOK, DataOK
<1>13. ASSUME UNCHANGED vars PROVE TypeOK'
  BY <1>13 DEF vars, ControlOK, DataOK
<1> QED
  BY <1>1, <1>2, <1>3, <1>4, <1>5, <1>6, <1>7, <1>8, <1>9, <1>10, <1>11, <1>12,
     <1>13 DEF Next, CallerStep

(* Every variable keeps its type.                                           *)
THEOREM TypeCorrect == Spec => []TypeOK
BY TypeInit, TypeStep, PTL DEF Spec

-----------------------------------------------------------------------------
(* The shape of what a caller carries.                                      *)

(* The effect on one caller of starting to drop its claims.                 *)
LEMMA UnwindEffect ==
  ASSUME TypeOK, NEW c \in Callers, NEW s \in Stages \cup {0}, Unwind(c, s)
  PROVE  /\ \A d \in Callers \ {c} : pc'[d] = pc[d] /\ stage'[d] = stage[d]
         /\ s = 0 => pc'[c] = "idle" /\ stage'[c] = 1
         /\ s # 0 => pc'[c] = "release" /\ stage'[c] = s
BY DEF TypeOK, ControlOK, Unwind

(* The effect of giving a key up: on to the next key, or drop the claims of *)
(* the stages before.                                                       *)
LEMMA GiveUpKeyEffect ==
  ASSUME TypeOK, NEW c \in Callers, GiveUpKey(c)
  PROVE  /\ \A d \in Callers \ {c} : pc'[d] = pc[d] /\ stage'[d] = stage[d]
         /\ \/ pc'[c] = "stamp" /\ stage'[c] = stage[c]
            \/ pc'[c] = "idle" /\ stage'[c] = 1
            \/ pc'[c] = "release" /\ stage'[c] = stage[c] - 1
<1>1. CASE slot[c] < Len(SlotsOf[c][stage[c]])
  BY <1>1 DEF TypeOK, ControlOK, GiveUpKey
<1>2. CASE ~ (slot[c] < Len(SlotsOf[c][stage[c]]))
  BY <1>2, StageBelow, UnwindEffect DEF TypeOK, GiveUpKey
<1> QED BY <1>1, <1>2

LEMMA StagesInRangeStep ==
  TypeOK /\ StagesInRange /\ [Next]_vars => StagesInRange'
<1> SUFFICES ASSUME TypeOK, StagesInRange, [Next]_vars PROVE StagesInRange'
  OBVIOUS
<1> DEFINE KeyOf(c, s, claim) ==
             s <= LastStage[c] /\ \E i \in 1..Len(SlotsOf[c][s]) : claim.key = SlotsOf[c][s][i]
<1>0. \A c \in Callers : LastStage[c] \in Nat /\ 1 <= LastStage[c]
  BY StageAssumption
<1>1. \A c \in Callers : \A s \in Stages : claims[c][s] # None => KeyOf(c, s, claims[c][s])
  BY DEF StagesInRange
<1>2. SUFFICES /\ \A c \in Callers : stage'[c] <= LastStage[c]
               /\ \A c \in Callers : \A s \in Stages :
                    \/ claims'[c][s] = None
                    \/ claims'[c][s] = claims[c][s]
                    \/ KeyOf(c, s, claims'[c][s])
  BY <1>1 DEF StagesInRange
<1> HIDE DEF KeyOf
<1>3. \A c \in Callers : stage[c] \in Nat \ {0} /\ stage[c] <= LastStage[c]
  BY StageAssumption DEF StagesInRange, TypeOK, ControlOK
<1>a. stage \in [Callers -> Stages] /\ claims \in [Callers -> [Stages -> Claim \cup {None}]]
  BY DEF TypeOK, ControlOK, DataOK
<1> USE <1>a
<1>4. ASSUME NEW c \in Callers, Begin(c) \/ Stamp(c) \/ Wake(c)
      PROVE  stage'[c] <= LastStage[c] /\ claims' = claims
             /\ \A d \in Callers \ {c} : stage'[d] = stage[d]
  BY <1>0, <1>3, <1>4 DEF Begin, Stamp, Wake, EnterStage
<1>5. ASSUME NEW c \in Callers, Refused(c) \/ AcquireError(c)
      PROVE  stage'[c] <= LastStage[c] /\ claims' = claims
             /\ \A d \in Callers \ {c} : stage'[d] = stage[d]
  <2>1. CASE GiveUpKey(c)
    <3>1. stage'[c] \in {stage[c], 1, stage[c] - 1} /\ \A d \in Callers \ {c} : stage'[d] = stage[d]
      BY <2>1, GiveUpKeyEffect
    <3> QED BY <1>0, <1>3, <1>5, <3>1 DEF Refused, AcquireError
  <2>2. CASE ~ GiveUpKey(c)
    BY <1>3, <1>5, <2>2 DEF Refused, AcquireError
  <2> QED BY <2>1, <2>2
<1>6. ASSUME NEW c \in Callers, NEW s \in Stages \cup {0}, Unwind(c, s), s <= LastStage[c]
      PROVE  stage'[c] <= LastStage[c] /\ \A d \in Callers \ {c} : stage'[d] = stage[d]
  BY <1>0, <1>6, UnwindEffect
<1>7. ASSUME NEW c \in Callers, Cancel(c) \/ Finish(c)
      PROVE  stage'[c] <= LastStage[c] /\ claims' = claims
             /\ \A d \in Callers \ {c} : stage'[d] = stage[d]
  <2>1. CASE Cancel(c)
    BY <1>0, <1>3, <1>6, <2>1, StageBelow DEF Cancel, TypeOK
  <2>2. CASE Finish(c)
    BY <1>0, <1>6, <2>2, StageAssumption DEF Finish
  <2> QED BY <1>7, <2>1, <2>2
<1>8. ASSUME NEW c \in Callers, Release(c) \/ ReleaseError(c)
      PROVE  /\ stage'[c] <= LastStage[c] /\ \A d \in Callers \ {c} : stage'[d] = stage[d]
             /\ \A d \in Callers : \A s \in Stages :
                  claims'[d][s] = None \/ claims'[d][s] = claims[d][s]
  <2>1. Unwind(c, stage[c] - 1) /\ claims' = [claims EXCEPT ![c][stage[c]] = None]
    BY <1>8 DEF Release, ReleaseError, DropClaim
  <2>2. stage[c] - 1 <= LastStage[c]
    BY <1>0, <1>3
  <2> QED BY <1>6, <2>1, <2>2, StageBelow DEF TypeOK
<1>9. ASSUME NEW c \in Callers, Acquire(c)
      PROVE  /\ stage'[c] <= LastStage[c] /\ \A d \in Callers \ {c} : stage'[d] = stage[d]
             /\ \A d \in Callers : \A s \in Stages :
                  claims'[d][s] = claims[d][s] \/ KeyOf(d, s, claims'[d][s])
  <2>1. stage'[c] <= LastStage[c] /\ \A d \in Callers \ {c} : stage'[d] = stage[d]
    BY <1>0, <1>3, <1>9 DEF Acquire, EnterStage
  <2>2. PICK token, until : claims' = [claims EXCEPT ![c][stage[c]] =
                              [key |-> Target(c), token |-> token, until |-> until]]
    BY <1>9 DEF Acquire
  <2>3. slot[c] \in 1..Len(SlotsOf[c][stage[c]]) /\ Target(c) = SlotsOf[c][stage[c]][slot[c]]
    BY FirstKey DEF Target, TypeOK, ControlOK
  <2>4. claims'[c][stage[c]].key = Target(c)
    BY <2>2
  <2>5. KeyOf(c, stage[c], claims'[c][stage[c]])
    BY <1>3, <2>3, <2>4 DEF KeyOf
  <2> QED BY <2>1, <2>2, <2>5
<1>10. ASSUME NEW i \in Mortal, Crash(i)
       PROVE  /\ \A c \in Callers : stage'[c] <= LastStage[c]
              /\ \A d \in Callers : \A s \in Stages :
                   claims'[d][s] = None \/ claims'[d][s] = claims[d][s]
  BY <1>0, <1>3, <1>10 DEF Crash
<1>11. ASSUME Tick \/ UNCHANGED vars PROVE stage' = stage /\ claims' = claims
  BY <1>11 DEF Tick, vars
<1> QED
  <2>1. CASE \E c \in Callers : CallerStep(c)
    BY <1>3, <1>4, <1>5, <1>7, <1>8, <1>9, <2>1 DEF CallerStep
  <2>2. CASE \E i \in Mortal : Crash(i)
    BY <1>10, <2>2
  <2>3. CASE Tick \/ UNCHANGED vars
    BY <1>3, <1>11, <2>3
  <2> QED BY <2>1, <2>2, <2>3 DEF Next

LEMMA ClaimsHeldStep ==
  TypeOK /\ StagesInRange /\ ClaimsHeld /\ [Next]_vars => ClaimsHeld'
<1> SUFFICES ASSUME TypeOK, StagesInRange, ClaimsHeld, [Next]_vars PROVE ClaimsHeld'
  OBVIOUS
<1>1. /\ stage \in [Callers -> Stages]
      /\ pc \in [Callers -> Pcs]
      /\ claims \in [Callers -> [Stages -> Claim \cup {None}]]
  BY DEF TypeOK, ControlOK, DataOK
<1>2. \A c \in Callers : LastStage[c] \in Nat /\ stage[c] \in Nat \ {0}
  BY StageAssumption DEF TypeOK, ControlOK
<1>3. \A c \in Callers : stage[c] <= LastStage[c]
  BY DEF StagesInRange
<1> DEFINE Needs(q, t, l, s) ==
             \/ q \in {"stamp", "try", "sleep"} /\ s < t
             \/ q = "hold" /\ s <= l
             \/ q = "release" /\ s <= t
<1>4. \A c \in Callers : \A s \in Stages :
        Needs(pc[c], stage[c], LastStage[c], s) => claims[c][s] # None
  BY DEF ClaimsHeld
<1>5. SUFFICES \A c \in Callers : \A s \in Stages :
        Needs(pc'[c], stage'[c], LastStage[c], s) => claims'[c][s] # None
  BY DEF ClaimsHeld
<1>6. ASSUME NEW c \in Callers, Begin(c) \/ Stamp(c) \/ Wake(c)
      PROVE  /\ claims' = claims
             /\ \A d \in Callers \ {c} : pc'[d] = pc[d] /\ stage'[d] = stage[d]
             /\ \A s \in Stages : Needs(pc'[c], stage'[c], LastStage[c], s) =>
                                   Needs(pc[c], stage[c], LastStage[c], s)
  BY <1>1, <1>2, <1>6 DEF Begin, Stamp, Wake, EnterStage
<1>7. ASSUME NEW c \in Callers, Refused(c) \/ AcquireError(c)
      PROVE  /\ claims' = claims
             /\ \A d \in Callers \ {c} : pc'[d] = pc[d] /\ stage'[d] = stage[d]
             /\ \A s \in Stages : Needs(pc'[c], stage'[c], LastStage[c], s) =>
                                   Needs(pc[c], stage[c], LastStage[c], s)
  <2>1. pc[c] = "try" /\ claims' = claims
    BY <1>7 DEF Refused, AcquireError
  <2>2. CASE GiveUpKey(c)
    BY <1>2, <2>1, <2>2, GiveUpKeyEffect
  <2>3. CASE ~ GiveUpKey(c)
    BY <1>1, <1>2, <1>7, <2>1, <2>3 DEF Refused, AcquireError
  <2> QED BY <2>1, <2>2, <2>3
<1>8. ASSUME NEW c \in Callers, Cancel(c) \/ Finish(c)
      PROVE  /\ claims' = claims
             /\ \A d \in Callers \ {c} : pc'[d] = pc[d] /\ stage'[d] = stage[d]
             /\ \A s \in Stages : Needs(pc'[c], stage'[c], LastStage[c], s) =>
                                   Needs(pc[c], stage[c], LastStage[c], s)
  <2>1. CASE Cancel(c)
    <3>1. Unwind(c, stage[c] - 1) /\ pc[c] = "sleep" /\ claims' = claims
      BY <2>1 DEF Cancel
    <3> QED BY <1>2, <3>1, StageBelow, UnwindEffect DEF TypeOK
  <2>2. CASE Finish(c)
    <3>1. Unwind(c, LastStage[c]) /\ pc[c] = "hold" /\ claims' = claims
      BY <2>2 DEF Finish
    <3>2. LastStage[c] \in Stages
      BY StageAssumption
    <3> QED BY <1>2, <3>1, <3>2, UnwindEffect
  <2> QED BY <1>8, <2>1, <2>2
<1>9. ASSUME NEW c \in Callers, Release(c) \/ ReleaseError(c)
      PROVE  /\ \A d \in Callers \ {c} : pc'[d] = pc[d] /\ stage'[d] = stage[d]
                                          /\ claims'[d] = claims[d]
             /\ \A s \in Stages : Needs(pc'[c], stage'[c], LastStage[c], s) =>
                                   claims'[c][s] # None
  <2>1. Unwind(c, stage[c] - 1) /\ pc[c] = "release"
    BY <1>9 DEF Release, ReleaseError, DropClaim
  <2>2. claims' = [claims EXCEPT ![c][stage[c]] = None]
    BY <1>9 DEF Release, ReleaseError, DropClaim
  <2>3. ASSUME NEW s \in Stages, Needs(pc'[c], stage'[c], LastStage[c], s)
        PROVE  claims'[c][s] # None
    <3>1. s < stage[c]
      BY <1>2, <2>1, <2>3, StageBelow, UnwindEffect DEF TypeOK
    <3>2. claims'[c][s] = claims[c][s]
      BY <1>1, <1>2, <2>2, <3>1
    <3> QED BY <1>2, <1>4, <2>1, <3>1, <3>2
  <2>4. \A d \in Callers \ {c} : pc'[d] = pc[d] /\ stage'[d] = stage[d]
    BY <2>1, StageBelow, UnwindEffect DEF TypeOK
  <2> QED BY <1>1, <2>2, <2>3, <2>4
<1>10. ASSUME NEW c \in Callers, Acquire(c)
       PROVE  /\ \A d \in Callers \ {c} : pc'[d] = pc[d] /\ stage'[d] = stage[d]
                                           /\ claims'[d] = claims[d]
              /\ \A s \in Stages : Needs(pc'[c], stage'[c], LastStage[c], s) =>
                                    claims'[c][s] # None
  <2>1. PICK claim \in Claim : claims' = [claims EXCEPT ![c][stage[c]] = claim]
    BY <1>10, GrantTypes DEF Acquire
  <2>2. claim # None
    BY NoneAssumption
  <2>3. pc[c] = "try"
    BY <1>10 DEF Acquire
  <2>4. \A d \in Callers \ {c} : pc'[d] = pc[d] /\ stage'[d] = stage[d]
    BY <1>1, <1>10 DEF Acquire, EnterStage
  <2>5. ASSUME NEW s \in Stages, Needs(pc'[c], stage'[c], LastStage[c], s)
        PROVE  s <= stage[c]
    <3>1. CASE stage[c] < LastStage[c]
      BY <1>1, <1>2, <1>10, <2>5, <3>1 DEF Acquire, EnterStage
    <3>2. CASE ~ (stage[c] < LastStage[c])
      BY <1>1, <1>2, <1>3, <1>10, <2>5, <3>2 DEF Acquire
    <3> QED BY <3>1, <3>2
  <2>6. ASSUME NEW s \in Stages, s <= stage[c] PROVE claims'[c][s] # None
    <3>1. CASE s = stage[c]
      BY <1>1, <2>1, <2>2, <3>1
    <3>2. CASE s # stage[c]
      <4>1. Needs(pc[c], stage[c], LastStage[c], s)
        BY <1>2, <2>3, <2>6, <3>2
      <4>2. claims'[c][s] = claims[c][s]
        BY <1>1, <2>1, <3>2
      <4> QED BY <1>4, <4>1, <4>2
    <3> QED BY <3>1, <3>2
  <2> QED BY <1>1, <2>1, <2>4, <2>5, <2>6
<1>11. ASSUME NEW i \in Mortal, Crash(i)
       PROVE  \A c \in Callers : \A s \in Stages :
                Needs(pc'[c], stage'[c], LastStage[c], s) => claims'[c][s] # None
  BY <1>4, <1>11 DEF Crash
<1>12. ASSUME Tick \/ UNCHANGED vars PROVE UNCHANGED <<pc, stage, claims>>
  BY <1>12 DEF Tick, vars
<1> HIDE DEF Needs
<1> QED
  <2>1. CASE \E c \in Callers : CallerStep(c)
    BY <1>4, <1>6, <1>7, <1>8, <1>9, <1>10, <2>1 DEF CallerStep
  <2>2. CASE \E i \in Mortal : Crash(i)
    BY <1>11, <2>2
  <2>3. CASE Tick \/ UNCHANGED vars
    BY <1>4, <1>12, <2>3
  <2> QED BY <2>1, <2>2, <2>3 DEF Next

LEMMA NowBehindStep == TypeOK /\ NowBehind /\ [Next]_vars => NowBehind'
<1> SUFFICES ASSUME TypeOK, NowBehind, [Next]_vars PROVE NowBehind'
  OBVIOUS
<1> USE TimeAssumption DEF TypeOK, DataOK, NowBehind
<1>1. ASSUME NEW c \in Callers, CallerStep(c) PROVE NowBehind'
  <2>1. CASE Stamp(c)
    BY <2>1 DEF Stamp
  <2>2. CASE Acquire(c) \/ Refused(c) \/ AcquireError(c)
    BY <2>2 DEF Acquire, Refused, AcquireError
  <2>3. CASE Begin(c) \/ Wake(c) \/ Cancel(c) \/ Finish(c) \/ Release(c) \/ ReleaseError(c)
    BY <2>3 DEF Begin, Wake, Cancel, Finish, Release, ReleaseError
  <2> QED BY <1>1, <2>1, <2>2, <2>3 DEF CallerStep
<1>2. ASSUME NEW i \in Mortal, Crash(i) PROVE NowBehind'
  BY <1>2 DEF Crash
<1>3. ASSUME Tick \/ UNCHANGED vars PROVE NowBehind'
  BY <1>3 DEF Tick, vars
<1> QED BY <1>1, <1>2, <1>3 DEF Next

LEMMA ShapeInit == Init => Shape
<1> SUFFICES ASSUME Init PROVE Shape
  OBVIOUS
<1>1. StagesInRange
  <2>1. \A c \in Callers : 1 <= LastStage[c]
    BY StageAssumption
  <2> QED BY <2>1 DEF Init, StagesInRange
<1>2. ClaimsHeld /\ NowBehind
  BY DEF Init, ClaimsHeld, NowBehind
<1> QED BY <1>1, <1>2, TypeInit DEF Shape

LEMMA ShapeStep == Shape /\ [Next]_vars => Shape'
BY TypeStep, StagesInRangeStep, ClaimsHeldStep, NowBehindStep DEF Shape

LEMMA ShapeInvariant == Spec => []Shape
BY ShapeInit, ShapeStep, PTL DEF Spec

-----------------------------------------------------------------------------
(* Exclusion.                                                               *)

(* The steps other than Acquire and Release leave the table alone, and      *)
(* claims only disappear.                                                   *)
LEMMA QuietStep ==
  ASSUME Shape, [Next]_vars,
         \A c \in Callers : ~ Acquire(c) /\ ~ Release(c)
  PROVE  /\ lease' = lease /\ clock' \in Nat /\ clock <= clock'
         /\ \A c \in Callers : \A s \in Stages :
              claims'[c][s] = None \/ claims'[c][s] = claims[c][s]
<1>1. clock \in Nat /\ claims \in [Callers -> [Stages -> Claim \cup {None}]]
  BY TimeAssumption DEF Shape, TypeOK, DataOK
<1>2. ASSUME NEW c \in Callers, CallerStep(c)
      PROVE  /\ lease' = lease /\ clock' = clock
             /\ claims' = claims \/ claims' = [claims EXCEPT ![c][stage[c]] = None]
  BY <1>2 DEF CallerStep, Begin, Stamp, Refused, AcquireError, Wake, Cancel, Finish,
              ReleaseError, DropClaim, storeVars
<1>3. ASSUME NEW i \in Mortal, Crash(i)
      PROVE  /\ lease' = lease /\ clock' = clock
             /\ \A c \in Callers : \A s \in Stages :
                  claims'[c][s] = None \/ claims'[c][s] = claims[c][s]
  BY <1>3 DEF Crash, storeVars
<1>4. ASSUME Tick \/ UNCHANGED vars
      PROVE  lease' = lease /\ clock' \in {clock, clock + 1} /\ claims' = claims
  BY <1>4 DEF Tick, vars, storeVars
<1> QED
  <2>1. CASE \E c \in Callers : CallerStep(c)
    <3>1. PICK c \in Callers : CallerStep(c)
      BY <2>1
    <3>2. /\ lease' = lease /\ clock' = clock
          /\ claims' = claims \/ claims' = [claims EXCEPT ![c][stage[c]] = None]
      BY <1>2, <3>1
    <3>3. \A d \in Callers : \A s \in Stages :
            claims'[d][s] = None \/ claims'[d][s] = claims[d][s]
      BY <1>1, <3>2
    <3> QED BY <1>1, <3>2, <3>3
  <2>2. CASE \E i \in Mortal : Crash(i)
    BY <1>1, <1>3, <2>2
  <2>3. CASE Tick \/ UNCHANGED vars
    BY <1>1, <1>4, <2>3
  <2> QED BY <2>1, <2>2, <2>3 DEF Next

(* A claim of one stage never names a key of another stage of its caller.   *)
LEMMA ClaimKeysDiffer ==
  ASSUME Shape, NEW c \in Callers, NEW s \in Stages, claims[c][s] # None,
         NEW t \in Stages, t <= LastStage[c], s # t,
         NEW j \in 1..Len(SlotsOf[c][t])
  PROVE  claims[c][s].key # SlotsOf[c][t][j]
<1>1. s <= LastStage[c]
  BY DEF Shape, StagesInRange
<1>2. PICK i \in 1..Len(SlotsOf[c][s]) : claims[c][s].key = SlotsOf[c][s][i]
  BY DEF Shape, StagesInRange
<1>3. s \in 1..LastStage[c] /\ t \in 1..LastStage[c]
  BY <1>1, StageAssumption
<1> QED BY <1>2, <1>3, StagesDisjoint

(* The row of a live claim stays its own.                                   *)
LEMMA LeaseStep ==
  ASSUME DistinctHolders, Shape, LiveClaimOwnsRow, [Next]_vars
  PROVE  LiveClaimOwnsRow'
<1> DEFINE Grant(c, claim) ==
      [holder |-> HolderOf[c], token |-> claim.token, until |-> claim.until]
<1> SUFFICES ASSUME NEW c \in Callers, NEW s \in Stages,
                    claims'[c][s] # None, claims'[c][s].until > clock'
             PROVE  lease'[claims'[c][s].key] = Grant(c, claims'[c][s])
  BY DEF LiveClaimOwnsRow
<1>1. /\ clock \in Nat
      /\ claims \in [Callers -> [Stages -> Claim \cup {None}]]
      /\ lease \in [Keys -> Row \cup {None}]
      /\ stage \in [Callers -> Stages]
      /\ now \in [Callers -> Nat]
  BY TimeAssumption DEF Shape, TypeOK, ControlOK, DataOK
<1>2. ASSUME claims[c][s] # None, claims[c][s].until > clock
      PROVE  lease[claims[c][s].key] = Grant(c, claims[c][s])
  BY <1>2 DEF LiveClaimOwnsRow
<1>3. CASE \A d \in Callers : ~ Acquire(d) /\ ~ Release(d)
  <2>1. lease' = lease /\ clock' \in Nat /\ clock <= clock' /\ claims'[c][s] = claims[c][s]
    BY <1>3, QuietStep
  <2>2. claims[c][s].until \in Nat
    BY <1>1, <2>1 DEF Claim
  <2>3. claims[c][s].until > clock
    BY <1>1, <2>1, <2>2
  <2> QED BY <1>2, <2>1, <2>3
<1>4. ASSUME NEW d \in Callers, Acquire(d) PROVE lease'[claims'[c][s].key] = Grant(c, claims'[c][s])
  <2>1. PICK token, until :
          /\ lease' = [lease EXCEPT ![Target(d)] =
                         [holder |-> HolderOf[d], token |-> token, until |-> until]]
          /\ claims' = [claims EXCEPT ![d][stage[d]] =
                         [key |-> Target(d), token |-> token, until |-> until]]
    BY <1>4 DEF Acquire
  <2>2. CanAcquire(lease[Target(d)], HolderOf[d], now[d]) /\ clock' = clock
    BY <1>4 DEF Acquire
  <2>3. Target(d) \in Keys
    BY TargetKey DEF Shape, TypeOK
  <2>4. CASE d = c /\ s = stage[c]
    <3>1. claims'[c][s] = [key |-> Target(d), token |-> token, until |-> until]
      BY <1>1, <2>1, <2>4
    <3>2. lease'[Target(d)] = [holder |-> HolderOf[d], token |-> token, until |-> until]
      BY <1>1, <2>1, <2>3
    <3> QED BY <2>4, <3>1, <3>2
  <2>5. CASE ~ (d = c /\ s = stage[c])
    <3>1. claims'[c][s] = claims[c][s]
      BY <1>1, <2>1, <2>5
    <3>2. lease[claims[c][s].key] = Grant(c, claims[c][s]) /\ claims[c][s].until > clock
      BY <1>2, <2>2, <3>1
    <3>3. claims[c][s].key # Target(d)
      <4>1. CASE d # c
        <5>1. HolderOf[c] # HolderOf[d]
          BY <4>1 DEF DistinctHolders
        <5>2. now[d] \in Nat /\ now[d] <= clock
          BY <1>1 DEF Shape, NowBehind
        <5>3. claims[c][s] \in Claim
          BY <1>1, <3>1
        <5>4. Grant(c, claims[c][s]) # None /\ Grant(c, claims[c][s]) \in Row
          BY <5>3, NoneAssumption, ProcessAssumption DEF Row, Claim
        <5>5. ~ CanAcquire(Grant(c, claims[c][s]), HolderOf[d], now[d])
          BY <1>1, <3>2, <5>1, <5>2, <5>3, <5>4 DEF CanAcquire, Claim
        <5> QED BY <2>2, <3>2, <5>5
      <4>2. CASE d = c
        <5>1. slot[c] \in 1..Len(SlotsOf[c][stage[c]])
          BY FirstKey DEF Shape, TypeOK, ControlOK
        <5>2. stage[c] \in Stages /\ stage[c] <= LastStage[c] /\ s # stage[c]
          BY <1>1, <2>5, <4>2 DEF Shape, StagesInRange
        <5>3. claims[c][s] # None
          BY <3>1
        <5> QED BY <4>2, <5>1, <5>2, <5>3, ClaimKeysDiffer DEF Target
      <4> QED BY <4>1, <4>2
    <3>4. lease'[claims[c][s].key] = lease[claims[c][s].key]
      <4>1. claims[c][s] \in Claim \cup {None} /\ claims[c][s] # None
        BY <1>1, <3>1
      <4>2. claims[c][s].key \in Keys
        BY <4>1 DEF Claim
      <4> QED BY <1>1, <2>1, <3>3, <4>2
    <3> QED BY <3>1, <3>2, <3>4
  <2> QED BY <2>4, <2>5
<1>5. ASSUME NEW d \in Callers, Release(d) PROVE lease'[claims'[c][s].key] = Grant(c, claims'[c][s])
  <2> DEFINE gone == claims[d][stage[d]]
  <2>1. pc[d] = "release" /\ clock' = clock
    BY <1>5 DEF Release
  <2>2. claims' = [claims EXCEPT ![d][stage[d]] = None]
    BY <1>5 DEF Release, DropClaim
  <2>3. lease' = [lease EXCEPT ![gone.key] =
                   IF ReleaseMatches(lease[gone.key], HolderOf[d], gone.token)
                   THEN None ELSE lease[gone.key]]
    BY <1>5 DEF Release
  <2>4. ~ (d = c /\ s = stage[c]) /\ claims'[c][s] = claims[c][s]
    BY <1>1, <2>2
  <2>5. lease[claims[c][s].key] = Grant(c, claims[c][s])
    BY <1>2, <2>1, <2>4
  <2>6. claims[c][s].key \in Keys
    <3>1. claims[c][s] \in Claim \cup {None} /\ claims[c][s] # None
      BY <1>1, <2>4
    <3> QED BY <3>1 DEF Claim
  <2>7. CASE d # c
    <3>1. HolderOf[c] # HolderOf[d]
      BY <2>7 DEF DistinctHolders
    <3>2. ~ ReleaseMatches(Grant(c, claims[c][s]), HolderOf[d], gone.token)
      BY <3>1 DEF ReleaseMatches
    <3>3. lease'[claims[c][s].key] = lease[claims[c][s].key]
      BY <1>1, <2>3, <2>5, <2>6, <3>2
    <3> QED BY <2>4, <2>5, <3>3
  <2>8. CASE d = c
    <3>1. stage[c] \in Stages /\ stage[c] \in Nat /\ stage[c] <= LastStage[c]
      BY <1>1 DEF Shape, StagesInRange
    <3>2. claims[c][stage[c]] # None
      BY <2>1, <2>8, <3>1 DEF Shape, ClaimsHeld
    <3>3. PICK j \in 1..Len(SlotsOf[c][stage[c]]) : gone.key = SlotsOf[c][stage[c]][j]
      BY <2>8, <3>1, <3>2 DEF Shape, StagesInRange
    <3>4. claims[c][s].key # gone.key
      BY <2>4, <2>8, <3>1, <3>3, ClaimKeysDiffer
    <3> QED BY <1>1, <2>3, <2>4, <2>5, <2>6, <3>4
  <2> QED BY <2>7, <2>8
<1> QED BY <1>3, <1>4, <1>5

(* A live claim is the owner of its row, when concurrent callers have       *)
(* distinct holder ids.                                                     *)
THEOREM ClaimOwnsRow ==
  ASSUME DistinctHolders
  PROVE  Spec => []LiveClaimOwnsRow
<1>1. Init => LiveClaimOwnsRow
  BY DEF Init, LiveClaimOwnsRow
<1>2. DistinctHolders /\ Shape /\ LiveClaimOwnsRow /\ [Next]_vars => LiveClaimOwnsRow'
  BY LeaseStep
<1>3. Shape /\ LiveClaimOwnsRow /\ [Next]_vars => LiveClaimOwnsRow'
  BY <1>2
<1> QED BY <1>1, <1>3, ShapeInvariant, PTL DEF Spec

(* Two callers never both hold an unexpired claim on one resource, or on    *)
(* one slot of a quota.                                                     *)
THEOREM Exclusion ==
  ASSUME DistinctHolders
  PROVE  Spec => []MutualExclusion
<1>1. LiveClaimOwnsRow => MutualExclusion
  <2> SUFFICES ASSUME LiveClaimOwnsRow, NEW c \in Callers, NEW d \in Callers,
                      NEW k \in Keys, Live(c, k), Live(d, k)
               PROVE  c = d
    BY DEF MutualExclusion
  <2>1. ASSUME NEW e \in Callers, Live(e, k) PROVE lease[k].holder = HolderOf[e]
    <3>1. PICK s \in Stages : claims[e][s] # None /\ claims[e][s].key = k
                              /\ claims[e][s].until > clock
      BY <2>1 DEF Live
    <3>2. lease[claims[e][s].key] =
            [holder |-> HolderOf[e], token |-> claims[e][s].token,
             until |-> claims[e][s].until]
      BY <3>1 DEF LiveClaimOwnsRow
    <3> QED BY <3>1, <3>2
  <2> QED BY <2>1 DEF DistinctHolders
<1> QED BY <1>1, ClaimOwnsRow, PTL

(* An unexpired row is only replaced or deleted by a step of a caller that  *)
(* presents its holder id.                                                  *)
THEOREM LiveRowsUntouched == Spec => LiveRowUntouched
<1> DEFINE Touched(k) ==
      lease[k] # None /\ lease[k].until > clock /\ lease'[k] # lease[k]
<1>1. ASSUME Shape, [Next]_vars, NEW k \in Keys, Touched(k)
      PROVE  \E c \in Callers : HolderOf[c] = lease[k].holder /\ CallerStep(c)
  <2>1. lease \in [Keys -> Row \cup {None}] /\ clock \in Nat /\ now \in [Callers -> Nat]
    <3>1. DataOK
      BY <1>1 DEF Shape, TypeOK
    <3> QED BY <3>1, TimeAssumption DEF DataOK
  <2>2. PICK c \in Callers : Acquire(c) \/ Release(c)
    <3>1. lease' # lease
      BY <1>1
    <3>2. ~ \A c \in Callers : ~ Acquire(c) /\ ~ Release(c)
      BY <1>1, <3>1, QuietStep
    <3> QED BY <3>2
  <2>3. CASE Acquire(c)
    <3>1. CanAcquire(lease[Target(c)], HolderOf[c], now[c])
      BY <2>3 DEF Acquire
    <3>2. PICK row : lease' = [lease EXCEPT ![Target(c)] = row]
      BY <2>3 DEF Acquire
    <3>3. k = Target(c)
      BY <1>1, <2>1, <3>2
    <3>4. now[c] \in Nat /\ now[c] <= clock
      BY <1>1, <2>1 DEF Shape, NowBehind
    <3>5. lease[k].until \in Nat
      BY <1>1, <2>1 DEF Row
    <3>6. lease[k].holder = HolderOf[c]
      BY <1>1, <2>1, <3>1, <3>3, <3>4, <3>5 DEF CanAcquire
    <3> QED BY <2>3, <3>6 DEF CallerStep
  <2>4. CASE Release(c)
    <3>1. PICK key, token : lease' = [lease EXCEPT ![key] =
             IF ReleaseMatches(lease[key], HolderOf[c], token) THEN None ELSE lease[key]]
      BY <2>4 DEF Release
    <3>2. k = key /\ ReleaseMatches(lease[k], HolderOf[c], token)
      BY <1>1, <2>1, <3>1
    <3> QED BY <2>4, <3>2 DEF CallerStep, ReleaseMatches
  <2> QED BY <2>2, <2>3, <2>4
<1>2. Shape /\ [Next]_vars =>
        [\A k \in Keys : Touched(k) =>
           \E c \in Callers : HolderOf[c] = lease[k].holder /\ CallerStep(c)]_vars
  BY <1>1
<1> QED BY <1>2, ShapeInvariant, PTL DEF Spec, LiveRowUntouched

-----------------------------------------------------------------------------
(* No lease left behind.                                                    *)

(* A caller has a claim for no other stage than those it went through and   *)
(* did not drop yet.                                                        *)
ClaimsOnly ==
  \A c \in Callers : \A s \in Stages : claims[c][s] # None =>
    \/ pc[c] \in {"stamp", "try", "sleep"} /\ s < stage[c]
    \/ pc[c] = "hold" /\ s <= LastStage[c]
    \/ pc[c] = "release" /\ s <= stage[c]

(* While the store did not fail, every row is that of a claim somebody      *)
(* still carries, or of a caller whose process died.                        *)
RowsClaimed ==
  faults = 0 => \A k \in Keys : lease[k] # None =>
    \E c \in Callers :
      /\ HolderOf[c] = lease[k].holder
      /\ \/ pc[c] = "dead"
         \/ \E s \in Stages : /\ claims[c][s] # None
                              /\ claims[c][s].key = k
                              /\ claims[c][s].token = lease[k].token

(* A caller that leaves a stage takes the claim of that stage with it or    *)
(* drops it: none is forgotten on an error, a cancellation or a crash.      *)
LEMMA ClaimsOnlyStep ==
  Shape /\ ClaimsOnly /\ [Next]_vars => ClaimsOnly'
<1> SUFFICES ASSUME Shape, ClaimsOnly, [Next]_vars PROVE ClaimsOnly'
  OBVIOUS
<1>0. TypeOK /\ StagesInRange
  BY DEF Shape
<1>1. /\ stage \in [Callers -> Stages]
      /\ pc \in [Callers -> Pcs]
      /\ claims \in [Callers -> [Stages -> Claim \cup {None}]]
  BY <1>0 DEF TypeOK, ControlOK, DataOK
<1>2. \A c \in Callers : LastStage[c] \in Nat /\ stage[c] \in Nat \ {0}
  BY <1>0, StageAssumption DEF TypeOK, ControlOK
<1>3. \A c \in Callers : stage[c] <= LastStage[c]
  BY <1>0 DEF StagesInRange
<1> DEFINE Needs(q, t, l, s) ==
             \/ q \in {"stamp", "try", "sleep"} /\ s < t
             \/ q = "hold" /\ s <= l
             \/ q = "release" /\ s <= t
<1>4. \A c \in Callers : \A s \in Stages :
        claims[c][s] # None => Needs(pc[c], stage[c], LastStage[c], s)
  BY DEF ClaimsOnly
<1>5. SUFFICES \A c \in Callers : \A s \in Stages :
        claims'[c][s] # None => Needs(pc'[c], stage'[c], LastStage[c], s)
  BY DEF ClaimsOnly
<1>6. ASSUME NEW c \in Callers, Begin(c) \/ Stamp(c) \/ Wake(c)
      PROVE  /\ claims' = claims
             /\ \A d \in Callers \ {c} : pc'[d] = pc[d] /\ stage'[d] = stage[d]
             /\ \A s \in Stages : Needs(pc[c], stage[c], LastStage[c], s) =>
                                   Needs(pc'[c], stage'[c], LastStage[c], s)
  BY <1>1, <1>2, <1>6 DEF Begin, Stamp, Wake, EnterStage
<1>7. ASSUME NEW c \in Callers, Refused(c) \/ AcquireError(c)
      PROVE  /\ claims' = claims
             /\ \A d \in Callers \ {c} : pc'[d] = pc[d] /\ stage'[d] = stage[d]
             /\ \A s \in Stages : Needs(pc[c], stage[c], LastStage[c], s) =>
                                   Needs(pc'[c], stage'[c], LastStage[c], s)
  <2>1. pc[c] = "try" /\ claims' = claims
    BY <1>7 DEF Refused, AcquireError
  <2>2. CASE GiveUpKey(c)
    <3>1. CASE slot[c] < Len(SlotsOf[c][stage[c]])
      BY <1>1, <1>2, <2>1, <2>2, <3>1 DEF GiveUpKey
    <3>2. CASE ~ (slot[c] < Len(SlotsOf[c][stage[c]]))
      <4>1. Unwind(c, stage[c] - 1)
        BY <2>2, <3>2 DEF GiveUpKey
      <4> QED BY <1>0, <1>2, <2>1, <4>1, StageBelow, UnwindEffect DEF TypeOK
    <3> QED BY <3>1, <3>2
  <2>3. CASE ~ GiveUpKey(c)
    BY <1>1, <1>2, <1>7, <2>1, <2>3 DEF Refused, AcquireError
  <2> QED BY <2>1, <2>2, <2>3
<1>8. ASSUME NEW c \in Callers, Cancel(c) \/ Finish(c)
      PROVE  /\ claims' = claims
             /\ \A d \in Callers \ {c} : pc'[d] = pc[d] /\ stage'[d] = stage[d]
             /\ \A s \in Stages : Needs(pc[c], stage[c], LastStage[c], s) =>
                                   Needs(pc'[c], stage'[c], LastStage[c], s)
  <2>1. CASE Cancel(c)
    <3>1. Unwind(c, stage[c] - 1) /\ pc[c] = "sleep" /\ claims' = claims
      BY <2>1 DEF Cancel
    <3> QED BY <1>0, <1>2, <3>1, StageBelow, UnwindEffect DEF TypeOK
  <2>2. CASE Finish(c)
    <3>1. Unwind(c, LastStage[c]) /\ pc[c] = "hold" /\ claims' = claims
      BY <2>2 DEF Finish
    <3>2. LastStage[c] \in Stages
      BY StageAssumption
    <3> QED BY <1>0, <1>2, <3>1, <3>2, UnwindEffect
  <2> QED BY <1>8, <2>1, <2>2
<1>9. ASSUME NEW c \in Callers, Release(c) \/ ReleaseError(c)
      PROVE  /\ \A d \in Callers \ {c} : pc'[d] = pc[d] /\ stage'[d] = stage[d]
                                          /\ claims'[d] = claims[d]
             /\ \A s \in Stages : claims'[c][s] # None =>
                                   Needs(pc'[c], stage'[c], LastStage[c], s)
  <2>1. Unwind(c, stage[c] - 1) /\ pc[c] = "release"
    BY <1>9 DEF Release, ReleaseError, DropClaim
  <2>2. claims' = [claims EXCEPT ![c][stage[c]] = None]
    BY <1>9 DEF Release, ReleaseError, DropClaim
  <2>3. ASSUME NEW s \in Stages, claims'[c][s] # None
        PROVE  Needs(pc'[c], stage'[c], LastStage[c], s)
    <3>1. s # stage[c] /\ claims'[c][s] = claims[c][s]
      BY <1>1, <2>2, <2>3
    <3>2. s <= stage[c]
      BY <1>4, <2>1, <2>3, <3>1
    <3>3. s \in Nat \ {0} /\ s <= stage[c] - 1
      BY <1>2, <3>1, <3>2, StageAssumption
    <3>4. stage[c] - 1 # 0
      BY <1>2, <3>3
    <3>5. pc'[c] = "release" /\ stage'[c] = stage[c] - 1
      BY <1>0, <2>1, <3>4, StageBelow, UnwindEffect DEF TypeOK
    <3> QED BY <3>3, <3>5
  <2>4. \A d \in Callers \ {c} : pc'[d] = pc[d] /\ stage'[d] = stage[d]
    BY <1>0, <2>1, StageBelow, UnwindEffect DEF TypeOK
  <2> QED BY <1>1, <2>2, <2>3, <2>4
<1>10. ASSUME NEW c \in Callers, Acquire(c)
       PROVE  /\ \A d \in Callers \ {c} : pc'[d] = pc[d] /\ stage'[d] = stage[d]
                                           /\ claims'[d] = claims[d]
              /\ \A s \in Stages : claims'[c][s] # None =>
                                    Needs(pc'[c], stage'[c], LastStage[c], s)
  <2>1. PICK claim : claims' = [claims EXCEPT ![c][stage[c]] = claim]
    BY <1>10 DEF Acquire
  <2>2. pc[c] = "try"
    BY <1>10 DEF Acquire
  <2>3. \A d \in Callers \ {c} : pc'[d] = pc[d] /\ stage'[d] = stage[d]
    BY <1>1, <1>10 DEF Acquire, EnterStage
  <2>4. ASSUME NEW s \in Stages, claims'[c][s] # None PROVE s <= stage[c]
    <3>1. CASE s = stage[c]
      BY <1>2, <3>1
    <3>2. CASE s # stage[c]
      <4>1. claims'[c][s] = claims[c][s]
        BY <1>1, <2>1, <3>2
      <4> QED BY <1>2, <1>4, <2>2, <2>4, <4>1
    <3> QED BY <3>1, <3>2
  <2>5. ASSUME NEW s \in Stages, s <= stage[c]
        PROVE  Needs(pc'[c], stage'[c], LastStage[c], s)
    <3>1. CASE stage[c] < LastStage[c]
      BY <1>1, <1>2, <1>10, <2>5, <3>1 DEF Acquire, EnterStage
    <3>2. CASE ~ (stage[c] < LastStage[c])
      BY <1>1, <1>2, <1>3, <1>10, <2>5, <3>2 DEF Acquire
    <3> QED BY <3>1, <3>2
  <2> QED BY <1>1, <2>1, <2>3, <2>4, <2>5
<1>11. ASSUME NEW i \in Mortal, Crash(i)
       PROVE  \A c \in Callers : \A s \in Stages :
                claims'[c][s] # None => Needs(pc'[c], stage'[c], LastStage[c], s)
  BY <1>4, <1>11 DEF Crash
<1>12. ASSUME Tick \/ UNCHANGED vars PROVE UNCHANGED <<pc, stage, claims>>
  BY <1>12 DEF Tick, vars
<1> HIDE DEF Needs
<1> QED
  <2>1. CASE \E c \in Callers : CallerStep(c)
    BY <1>4, <1>6, <1>7, <1>8, <1>9, <1>10, <2>1 DEF CallerStep
  <2>2. CASE \E i \in Mortal : Crash(i)
    BY <1>11, <2>2
  <2>3. CASE Tick \/ UNCHANGED vars
    BY <1>4, <1>12, <2>3
  <2> QED BY <2>1, <2>2, <2>3 DEF Next

(* A row keeps the caller that has its claim: only the release of that      *)
(* claim, which deletes the row, or a store error takes it away.            *)
LEMMA RowsClaimedStep ==
  Shape /\ ClaimsOnly /\ RowsClaimed /\ [Next]_vars => RowsClaimed'
<1> SUFFICES ASSUME Shape, ClaimsOnly, RowsClaimed, [Next]_vars,
                    faults' = 0, NEW k \in Keys, lease'[k] # None
             PROVE  \E c \in Callers :
                      /\ HolderOf[c] = lease'[k].holder
                      /\ \/ pc'[c] = "dead"
                         \/ \E s \in Stages : /\ claims'[c][s] # None
                                              /\ claims'[c][s].key = k
                                              /\ claims'[c][s].token = lease'[k].token
  BY DEF RowsClaimed
<1>1. /\ stage \in [Callers -> Stages]
      /\ pc \in [Callers -> Pcs]
      /\ claims \in [Callers -> [Stages -> Claim \cup {None}]]
      /\ lease \in [Keys -> Row \cup {None}]
      /\ faults \in Nat
  BY TimeAssumption DEF Shape, TypeOK, ControlOK, DataOK
<1>2. ASSUME faults = 0, lease[k] # None
      PROVE  \E c \in Callers :
               /\ HolderOf[c] = lease[k].holder
               /\ \/ pc[c] = "dead"
                  \/ \E s \in Stages : /\ claims[c][s] # None
                                       /\ claims[c][s].key = k
                                       /\ claims[c][s].token = lease[k].token
  BY <1>2 DEF RowsClaimed
<1>3. ASSUME NEW c \in Callers, Acquire(c)
      PROVE  \E d \in Callers :
               /\ HolderOf[d] = lease'[k].holder
               /\ \/ pc'[d] = "dead"
                  \/ \E s \in Stages : /\ claims'[d][s] # None
                                       /\ claims'[d][s].key = k
                                       /\ claims'[d][s].token = lease'[k].token
  <2> DEFINE token == NextToken(lease[Target(c)])
             until == now[c] + Ttl
             row == [holder |-> HolderOf[c], token |-> token, until |-> until]
             claim == [key |-> Target(c), token |-> token, until |-> until]
  <2>1. /\ lease' = [lease EXCEPT ![Target(c)] = row]
        /\ claims' = [claims EXCEPT ![c][stage[c]] = claim]
        /\ pc[c] = "try" /\ faults' = faults
    BY <1>3 DEF Acquire
  <2>2. claim \in Claim /\ claim # None
    BY GrantTypes, NoneAssumption DEF Shape
  <2>3. \A d \in Callers \ {c} : pc'[d] = pc[d] /\ claims'[d] = claims[d]
    BY <1>1, <1>3, <2>1 DEF Acquire, EnterStage
  <2>4. CASE k = Target(c)
    <3>1. claims'[c][stage[c]] = claim /\ stage[c] \in Stages
      BY <1>1, <2>1
    <3>2. lease'[k] = row
      BY <1>1, <2>1, <2>4
    <3> QED BY <2>2, <2>4, <3>1, <3>2
  <2>5. CASE k # Target(c)
    <3>1. lease'[k] = lease[k]
      BY <1>1, <2>1, <2>5
    <3>2. PICK d \in Callers :
               /\ HolderOf[d] = lease[k].holder
               /\ \/ pc[d] = "dead"
                  \/ \E s \in Stages : /\ claims[d][s] # None
                                       /\ claims[d][s].key = k
                                       /\ claims[d][s].token = lease[k].token
      BY <1>2, <2>1, <3>1
    <3>3. CASE d # c
      BY <2>3, <3>1, <3>2, <3>3
    <3>4. CASE d = c
      <4>1. PICK s \in Stages : /\ claims[c][s] # None
                                /\ claims[c][s].key = k
                                /\ claims[c][s].token = lease[k].token
        BY <2>1, <3>2, <3>4
      <4>2. s < stage[c]
        BY <2>1, <4>1 DEF ClaimsOnly
      <4>3. claims'[c][s] = claims[c][s]
        BY <1>1, <2>1, <4>2
      <4> QED BY <3>1, <3>2, <3>4, <4>1, <4>3
    <3> QED BY <3>3, <3>4
  <2> QED BY <2>4, <2>5
<1>4. ASSUME NEW c \in Callers, Release(c)
      PROVE  \E d \in Callers :
               /\ HolderOf[d] = lease'[k].holder
               /\ \/ pc'[d] = "dead"
                  \/ \E s \in Stages : /\ claims'[d][s] # None
                                       /\ claims'[d][s].key = k
                                       /\ claims'[d][s].token = lease'[k].token
  <2> DEFINE gone == claims[c][stage[c]]
  <2>1. /\ lease' = [lease EXCEPT ![gone.key] =
                       IF ReleaseMatches(lease[gone.key], HolderOf[c], gone.token)
                       THEN None ELSE lease[gone.key]]
        /\ claims' = [claims EXCEPT ![c][stage[c]] = None]
        /\ pc[c] = "release" /\ faults' = faults
    BY <1>4 DEF Release, DropClaim
  <2>2. lease'[k] = lease[k]
    BY <1>1, <2>1
  <2>3. PICK d \in Callers :
             /\ HolderOf[d] = lease[k].holder
             /\ \/ pc[d] = "dead"
                \/ \E s \in Stages : /\ claims[d][s] # None
                                     /\ claims[d][s].key = k
                                     /\ claims[d][s].token = lease[k].token
    BY <1>2, <2>1, <2>2
  <2>4. \A e \in Callers \ {c} : pc'[e] = pc[e] /\ claims'[e] = claims[e]
    BY <1>1, <1>4, <2>1 DEF Release, DropClaim, Unwind
  <2>5. CASE d # c
    BY <2>2, <2>3, <2>4, <2>5
  <2>6. CASE d = c
    <3>1. PICK s \in Stages : /\ claims[c][s] # None
                              /\ claims[c][s].key = k
                              /\ claims[c][s].token = lease[k].token
      BY <2>1, <2>3, <2>6
    <3>2. s # stage[c]
      <4> SUFFICES ASSUME s = stage[c] PROVE FALSE
        OBVIOUS
      <4>1. ReleaseMatches(lease[gone.key], HolderOf[c], gone.token) /\ gone.key = k
        BY <2>2, <2>3, <2>6, <3>1 DEF ReleaseMatches
      <4> QED BY <1>1, <2>1, <4>1
    <3>3. claims'[c][s] = claims[c][s]
      BY <1>1, <2>1, <3>2
    <3> QED BY <2>2, <2>3, <2>6, <3>1, <3>3
  <2> QED BY <2>5, <2>6
<1>5. ASSUME NEW c \in Callers, CallerStep(c), ~ Acquire(c), ~ Release(c)
      PROVE  /\ lease' = lease /\ claims' = claims /\ faults = 0
             /\ \A d \in Callers : pc[d] = "dead" => pc'[d] = "dead"
  <2>1. CASE AcquireError(c) \/ ReleaseError(c)
    BY <1>1, <2>1 DEF AcquireError, ReleaseError
  <2>2. CASE Refused(c)
    <3>1. pc[c] = "try" /\ UNCHANGED <<storeVars, claims>>
      BY <2>2 DEF Refused
    <3>2. \A d \in Callers \ {c} : pc'[d] = pc[d]
      BY <1>1, <2>2 DEF Refused, GiveUpKey, Unwind
    <3> QED BY <3>1, <3>2 DEF storeVars
  <2>3. CASE Begin(c) \/ Stamp(c) \/ Wake(c) \/ Cancel(c) \/ Finish(c)
    BY <1>1, <2>3 DEF Begin, Stamp, Wake, Cancel, Finish, EnterStage, Unwind, storeVars
  <2> QED BY <1>5, <2>1, <2>2, <2>3 DEF CallerStep
<1>6. ASSUME NEW i \in Mortal, Crash(i)
      PROVE  /\ lease' = lease /\ faults = 0
             /\ \A d \in Callers : pc'[d] = "dead" \/ (claims'[d] = claims[d] /\ pc'[d] = pc[d])
  BY <1>6 DEF Crash, storeVars
<1>7. ASSUME Tick \/ UNCHANGED vars
      PROVE  UNCHANGED <<lease, claims, pc>> /\ faults = 0
  BY <1>7 DEF Tick, vars, storeVars
<1> QED
  <2>1. CASE \E c \in Callers : CallerStep(c)
    <3>1. PICK c \in Callers : CallerStep(c)
      BY <2>1
    <3>2. CASE ~ Acquire(c) /\ ~ Release(c)
      BY <1>2, <1>5, <3>1, <3>2
    <3> QED BY <1>3, <1>4, <3>1, <3>2
  <2>2. CASE \E i \in Mortal : Crash(i)
    BY <1>2, <1>6, <2>2
  <2>3. CASE Tick \/ UNCHANGED vars
    BY <1>2, <1>7, <2>3
  <2> QED BY <2>1, <2>2, <2>3 DEF Next

(* As long as the store answers, a caller that is not asking for leases and *)
(* holds none left no row that would keep the resource busy: neither the    *)
(* error at a later scope nor a cancellation forgets a claim.               *)
THEOREM NothingLeaked ==
  ASSUME DistinctHolders
  PROVE  Spec => []NoLeakedLease
<1>1. Init => ClaimsOnly /\ RowsClaimed
  BY DEF Init, ClaimsOnly, RowsClaimed
<1>2. Spec => [](Shape /\ ClaimsOnly /\ RowsClaimed)
  BY <1>1, ShapeInvariant, ClaimsOnlyStep, RowsClaimedStep, PTL DEF Spec
<1>3. ClaimsOnly /\ RowsClaimed => NoLeakedLease
  <2> SUFFICES ASSUME ClaimsOnly, RowsClaimed, NEW c \in Callers, NEW k \in Keys,
                      faults = 0, pc[c] = "idle", lease[k] # None,
                      lease[k].holder = HolderOf[c]
               PROVE  FALSE
    BY DEF NoLeakedLease
  <2>1. PICK d \in Callers : /\ HolderOf[d] = lease[k].holder
                             /\ pc[d] = "dead" \/ \E s \in Stages : claims[d][s] # None
    BY DEF RowsClaimed
  <2>2. d = c
    BY <2>1 DEF DistinctHolders
  <2> QED BY <2>1, <2>2 DEF ClaimsOnly
<1> QED BY <1>2, <1>3, PTL
=============================================================================
