----------------------- MODULE LiveExecutionRefinement -----------------------
(***************************************************************************)
(* LiveExecution implements AtMostOnceExecution: under the mapping Promise  *)
(* the initial states are initial states and every step is a step of the    *)
(* promise or changes nothing it speaks of.  At most one record moves in a  *)
(* step, and then the chain does not; at most one transaction takes effect  *)
(* in a step, and then no record moves.                                     *)
(***************************************************************************)
EXTENDS LiveExecutionProofs

USE DEF JournalState, TransactionState, Absent, RecoveryStates, TerminalStates,
        UnsentStates,
        TxStatus, Final, Seen, Took, Answer,
        Receipts, Building, Signing, OnWire, CallPc, RecoveryPc,
        journalVars, callVars, recoveryVars, networkVars, RecoveryUnchanged

\* Only recovery expires a record, one that it listed as SUBMITTED and whose
\* blockhash it saw expired.
LEMMA ExpiresSubmitted ==
  ASSUME IInv, [Next]_vars, NEW i \in Intents,
         jstate'[i] = "EXPIRED", jstate[i] # "EXPIRED"
  PROVE  jstate[i] = "SUBMITTED" /\ CheckHeight /\ cur = i
  <1>1. JournalMove(i) /\ TypeOK
    BY JournalMoves DEF IInv
  <1>2. jstate[i] \in {"SIGNED", "SUBMITTED"}
    BY <1>1, MoveFacts DEF JournalMove
  <1>3. ASSUME NEW c \in Calls, CallStep(c)
        PROVE  FALSE
    BY <1>3, <1>1, <1>2 DEF TypeOK, CallStep, TakeBlockhash, BuildError, BuildAbandoned,
         Sign, SignRejected, HandleError, MarkSubmitted, Broadcast, RouteAcked,
         RouteRejected, PollConfirmed, PollExecutionFailed, PollGaveUp, Reconcile,
         ReconcileUnavailable
  <1>4. ASSUME RecoveryStep, ~CheckHeight
        PROVE  FALSE
    <2>1. ASSUME NEW j, FinishLanding(j)
          PROVE  FALSE
      BY <2>1, <1>1, <1>2 DEF TypeOK, FinishLanding
    <2>2. ASSUME NEW j \in Intents,
                 CancelUnsent(j) \/ ObserveSubmitted(j) \/ ReconcileListed(j)
          PROVE  FALSE
      BY <2>1, <2>2, <1>1, <1>2 DEF TypeOK, CancelUnsent, ObserveSubmitted, ReconcileListed
    <2>3. CASE \/ ListPending \/ WaitFound \/ Rebroadcast \/ RebroadcastResult
               \/ PollRebroadcast \/ ReconcileRecovered \/ RecoveryRpcError
               \/ RecoveryReturns
      BY <2>1, <2>3, <1>1, <1>2
      DEF TypeOK, ListPending, WaitFound, Rebroadcast, RebroadcastResult,
          PollRebroadcast, ReconcileRecovered, RecoveryRpcError, RecoveryReturns
    <2> QED
      BY <1>4, <2>2, <2>3 DEF RecoveryStep
  <1>5. ASSUME NEW c \in Calls, NEW j \in Intents, Submit(c, j)
        PROVE  FALSE
    BY <1>5, <1>1, <1>2 DEF TypeOK, Submit
  <1>6. CASE Crash \/ Restart \/ NetworkStep \/ UNCHANGED vars
    BY <1>6, <1>2 DEF Crash, Restart, NetworkStep, Land, Finalize, ForgetAnswer,
                      AdvanceHeight, vars
  <1>7. CheckHeight
    BY <1>3, <1>4, <1>5, <1>6 DEF Next
  <1>8. cur = i
    BY <1>7, <1>1, <1>2 DEF TypeOK, CheckHeight
  <1>9. MayBeOut(cur)
    BY <1>7 DEF IInv, CurInv, CheckHeight, Awaiting
  <1> QED
    BY <1>2, <1>7, <1>8, <1>9 DEF MayBeOut

\* A record expires when its blockhash has: what is out then never executes.
ExpiredInv == \A i \in Intents : jstate[i] = "EXPIRED" => LastValid(jsig[i]) < height

LEMMA HeightGrows ==
  ASSUME TypeOK, [Next]_vars
  PROVE  height' >= height
  <1>t. height \in Nat
    BY HeightAssumption DEF TypeOK, Sigs
  <1>1. ASSUME NEW c \in Calls, CallStep(c) \/ \E i \in Intents : Submit(c, i)
        PROVE  height' = height
    BY <1>1 DEF Submit, CallStep, TakeBlockhash, BuildError, BuildAbandoned, Sign,
         SignRejected, MarkSubmitted, Broadcast, RouteAcked, RouteRejected, PollConfirmed,
         PollExecutionFailed, PollGaveUp, Reconcile, ReconcileUnavailable
  <1>2. CASE RecoveryStep
    BY <1>t, <1>2 DEF RecoveryStep, ListPending, CancelUnsent, ObserveSubmitted,
         ReconcileListed, WaitFound, CheckHeight, Rebroadcast, RebroadcastResult,
         PollRebroadcast, ReconcileRecovered, RecoveryRpcError, RecoveryReturns
  <1>3. CASE Crash \/ Restart \/ NetworkStep \/ UNCHANGED vars
    BY <1>t, <1>3 DEF Crash, Restart, NetworkStep, Land, Finalize, ForgetAnswer,
         AdvanceHeight, vars
  <1> QED
    BY <1>t, <1>1, <1>2, <1>3 DEF Next

LEMMA ExpiredStep ==
  ASSUME IInv, ExpiredInv, [Next]_vars
  PROVE  ExpiredInv'
  <1> SUFFICES ASSUME NEW i \in Intents, jstate'[i] = "EXPIRED"
               PROVE  LastValid(jsig'[i]) < height'
    BY DEF ExpiredInv
  <1>t. TypeOK /\ RecordInv /\ Progress /\ height' >= height
    BY ProgressNext, HeightGrows DEF IInv
  <1>h. height \in Nat /\ height' \in Nat
    BY TypeNext, HeightAssumption DEF IInv, TypeOK, Sigs
  <1>s. jstate[i] \in {"EXPIRED", "SUBMITTED"} =>
          jsig'[i] = jsig[i] /\ LastValid(jsig[i]) \in Nat
    BY <1>t, HeightAssumption DEF RecordInv, Progress, Sigs, LastValid
  <1>1. CASE jstate[i] = "EXPIRED"
    BY <1>t, <1>h, <1>s, <1>1 DEF ExpiredInv
  <1>2. CASE jstate[i] # "EXPIRED"
    <2>1. jstate[i] = "SUBMITTED" /\ CheckHeight /\ cur = i
      BY <1>2, ExpiresSubmitted
    <2>2. \E h \in 0..height : h > LastValid(jsig[i])
      BY <1>2, <1>t, <2>1 DEF CheckHeight, TypeOK
    <2> QED
      BY <1>t, <1>h, <1>s, <2>1, <2>2
  <1> QED
    BY <1>1, <1>2

(***************************************************************************)
(* The mapped variables.                                                    *)
(***************************************************************************)

Phases  == [i \in Intents |-> Decision(jstate[i])]
Effects == [i \in Intents |-> {s \in Sigs : chain[i][s] \in Took}]

\* What takes effect is what the record stores, and the record is out.
LEMMA EffectIsRecorded ==
  ASSUME IInv, NEW i \in Intents, NEW s \in Effects[i]
  PROVE  jsig[i] = s /\ MayBeOut(i) /\ chain[i][jsig[i]] \in Took
  BY DEF IInv, OneDurableBroadcast, Effects

LEMMA NoEffectYet ==
  ASSUME IInv, NEW i \in Intents, chain[i][jsig[i]] \notin Took \/ ~MayBeOut(i)
  PROVE  Effects[i] = {}
  <1>1. ASSUME NEW s \in Effects[i]
        PROVE  FALSE
    BY <1>1, EffectIsRecorded
  <1> QED
    BY <1>1

\* One transaction executes in a step that moves no record, or none does.
Executed(i, s) ==
  /\ chain[i][s] = "flight" /\ height <= LastValid(s)
  /\ chain' = [chain EXCEPT ![i][s] = "okSeen"]
  /\ UNCHANGED jstate

LEMMA OneEffect ==
  ASSUME IInv, [Next]_vars
  PROVE  Effects' = Effects \/ \E i \in Intents, s \in Sigs : Executed(i, s)
  <1>t. TypeOK
    BY DEF IInv
  <1>e. ASSUME chain' = chain
        PROVE  Effects' = Effects
    BY <1>e DEF Effects
  <1>s. ASSUME NEW i, NEW r, Send(i, r)
        PROVE  Effects' = Effects
    BY <1>s, <1>t DEF Send, Effects, TypeOK
  <1>1. ASSUME NEW c \in Calls, Broadcast(c)
        PROVE  Effects' = Effects
    BY <1>1, <1>s DEF Broadcast
  <1>2. CASE Rebroadcast
    BY <1>2, <1>s DEF Rebroadcast
  <1>3. ASSUME NEW i \in Intents, NEW r \in Sigs, Land(i, r)
        PROVE  Effects' = Effects \/ \E j \in Intents, s \in Sigs : Executed(j, s)
    <2>1. PICK outcome \in Seen : chain' = [chain EXCEPT ![i][r] = outcome]
      BY <1>3 DEF Land
    <2>2. CASE outcome = "okSeen"
      BY <1>3, <2>1, <2>2 DEF Land, Executed
    <2>3. CASE outcome = "errSeen"
      BY <1>3, <1>t, <2>1, <2>3 DEF Land, Effects, TypeOK
    <2> QED
      BY <2>2, <2>3
  <1>4. ASSUME NEW i \in Intents, NEW r \in Sigs, Finalize(i, r)
        PROVE  Effects' = Effects
    BY <1>4, <1>t DEF Finalize, Effects, TypeOK
  <1>5. ASSUME NEW c \in Calls, CallStep(c), ~Broadcast(c)
        PROVE  chain' = chain
    BY <1>5 DEF CallStep, TakeBlockhash, BuildError, BuildAbandoned, Sign,
                SignRejected, MarkSubmitted, RouteAcked, RouteRejected, PollConfirmed,
                PollExecutionFailed, PollGaveUp, Reconcile, ReconcileUnavailable
  <1>6. ASSUME RecoveryStep, ~Rebroadcast
        PROVE  chain' = chain
    BY <1>6 DEF RecoveryStep, ListPending, CancelUnsent, ObserveSubmitted,
                ReconcileListed, WaitFound, CheckHeight, RebroadcastResult,
                PollRebroadcast, ReconcileRecovered, RecoveryRpcError, RecoveryReturns
  <1>7. ASSUME \/ \E c \in Calls, j \in Intents : Submit(c, j)
               \/ \E j \in Intents, r \in Sigs : ForgetAnswer(j, r)
               \/ Crash \/ Restart \/ AdvanceHeight \/ UNCHANGED vars
        PROVE  chain' = chain
    BY <1>7 DEF Submit, ForgetAnswer, Crash, Restart, AdvanceHeight, vars
  <1> QED
    BY <1>e, <1>1, <1>2, <1>3, <1>4, <1>5, <1>6, <1>7 DEF Next, NetworkStep

(***************************************************************************)
(* Every step maps to one step of the promise or to none.                   *)
(***************************************************************************)

\* The journal's moves, as moves of the decision.
LEMMA DecisionMoves ==
  ASSUME IInv, [Next]_vars, NEW i \in Intents, jstate'[i] # jstate[i]
  PROVE  \/ Decision(jstate'[i]) = Decision(jstate[i])
         \/ Decision(jstate[i]) = "new" /\ Decision(jstate'[i]) = "handedOver"
         \/ /\ jstate[i] \in {"INTENT", "SIGNED", "SUBMITTED"}
            /\ jstate'[i] \in {"FAILED", "CANCELLED"}
         \/ /\ jstate[i] = "SUBMITTED" /\ jstate'[i] = "CONFIRMED"
            /\ chain[i][jsig[i]] = "okFinal"
         \/ jstate[i] = "SUBMITTED" /\ jstate'[i] = "EXPIRED"
  <1>1. JournalMove(i)
    BY JournalMoves
  <1>2. jstate'[i] = "EXPIRED" => jstate[i] = "SUBMITTED"
    BY ExpiresSubmitted
  <1> QED
    BY <1>1, <1>2, MoveFacts DEF JournalMove, Decision

LEMMA MoveMaps ==
  ASSUME IInv, [Next]_vars, NEW i \in Intents, RecordMoves(i), jstate'[i] # jstate[i]
  PROVE  Promise!Next \/ UNCHANGED <<Phases, Effects>>
  <1>e. Effects' = Effects
    BY DEF RecordMoves, Effects
  <1>p. Phases' = [Phases EXCEPT ![i] = Decision(jstate'[i])]
    BY DEF RecordMoves, Phases
  <1>d. Phases[i] = Decision(jstate[i])
    BY DEF Phases
  <1>t. TypeOK /\ RecordInv /\ Progress
    BY ProgressNext DEF IInv
  <1>2. CASE Decision(jstate'[i]) = Decision(jstate[i])
    BY <1>2, <1>e, <1>p, <1>d DEF Phases
  <1>3. CASE Decision(jstate[i]) = "new" /\ Decision(jstate'[i]) = "handedOver"
    <2>1. Promise!HandOver(i)
      BY <1>3, <1>e, <1>p, <1>d DEF Promise!HandOver, Promise!Become, Phases, Effects
    <2> QED
      BY <2>1 DEF Promise!Next
  <1>4. CASE /\ jstate[i] \in {"INTENT", "SIGNED", "SUBMITTED"}
             /\ jstate'[i] \in {"FAILED", "CANCELLED"}
    <2>1. Effects[i] = {}
      <3>1. CASE jstate[i] \in {"INTENT", "SIGNED"}
        BY <3>1, NoEffectYet DEF MayBeOut
      <3>2. CASE jstate[i] = "SUBMITTED"
        <4>1. MayBeOut(i)'
          BY <1>t, <3>2 DEF Progress, MayBeOut
        <4>2. jsig'[i] = jsig[i]
          BY <1>t, <3>2 DEF Progress, RecordInv
        <4>3. chain[i][jsig[i]] = "errFinal"
          BY <1>4, <4>1, <4>2 DEF MayBeOut, RecordMoves
        <4> QED
          BY <4>3, NoEffectYet
      <3> QED
        BY <1>4, <3>1, <3>2
    <2>2. Decision(jstate'[i]) = "void" /\ Decision(jstate[i]) \in {"new", "handedOver"}
      BY <1>4 DEF Decision
    <2>3. Promise!Void(i)
      BY <2>1, <2>2, <1>e, <1>p, <1>d DEF Promise!Void, Promise!Become, Phases, Effects
    <2> QED
      BY <2>3 DEF Promise!Next
  <1>5. CASE /\ jstate[i] = "SUBMITTED" /\ jstate'[i] = "CONFIRMED"
             /\ chain[i][jsig[i]] = "okFinal"
    <2>1. Effects[i] # {}
      BY <1>5, <1>t DEF RecordInv, Effects
    <2>2. Decision(jstate[i]) = "handedOver" /\ Decision(jstate'[i]) = "done"
      BY <1>5 DEF Decision
    <2>3. Promise!Done(i)
      BY <2>1, <2>2, <1>e, <1>p, <1>d DEF Promise!Done, Promise!Become, Phases, Effects
    <2> QED
      BY <2>3 DEF Promise!Next
  <1>6. CASE jstate[i] = "SUBMITTED" /\ jstate'[i] = "EXPIRED"
    <2>1. Decision(jstate[i]) = "handedOver" /\ Decision(jstate'[i]) = "givenUp"
      BY <1>6 DEF Decision
    <2>2. Promise!GiveUp(i)
      BY <2>1, <1>e, <1>p, <1>d DEF Promise!GiveUp, Promise!Become, Phases, Effects
    <2> QED
      BY <2>2 DEF Promise!Next
  <1> QED
    BY <1>2, <1>3, <1>4, <1>5, <1>6, DecisionMoves

LEMMA ExecutedMaps ==
  ASSUME IInv, ExpiredInv, NEW i \in Intents, NEW s \in Sigs, Executed(i, s)
  PROVE  Promise!Next
  <1>t. TypeOK /\ RecordInv
    BY DEF IInv
  <1>1. jsig[i] = s /\ MayBeOut(i)
    BY DEF IInv, OneDurableBroadcast, Executed
  <1>2. jstate[i] = "SUBMITTED"
    <2>1. jstate[i] # "EXPIRED"
      BY <1>1, HeightAssumption DEF ExpiredInv, Executed, IInv, TypeOK, Sigs, LastValid
    <2> QED
      BY <1>1, <1>t, <2>1 DEF MayBeOut, RecordInv, Landed, Executed
  <1>3. Phases[i] = "handedOver"
    BY <1>2 DEF Phases, Decision
  <1>4. Effects[i] = {}
    BY <1>1, NoEffectYet DEF Executed
  <1>5. Effects' = [Effects EXCEPT ![i] = {s}]
    <2>1. ASSUME NEW j \in Intents
          PROVE  Effects'[j] = IF j = i THEN {s} ELSE Effects[j]
      <3>1. CASE j # i
        BY <3>1, <1>t DEF Executed, Effects, TypeOK
      <3>2. CASE j = i
        <4>1. \A r \in Sigs : chain[i][r] \notin Took
          BY <1>4 DEF Effects
        <4>2. \A r \in Sigs : chain'[i][r] \in Took <=> r = s
          BY <4>1, <1>t DEF Executed, TypeOK
        <4> QED
          BY <3>2, <4>2 DEF Effects
      <3> QED
        BY <3>1, <3>2
    <2> QED
      BY <2>1 DEF Effects
  <1>6. Phases' = Phases
    BY DEF Executed, Phases
  <1>7. Promise!TakeEffect(i)
    BY <1>3, <1>4, <1>5, <1>6 DEF Promise!TakeEffect, Phases, Effects
  <1> QED
    BY <1>7 DEF Promise!Next

LEMMA StepMaps ==
  ASSUME IInv, ExpiredInv, [Next]_vars
  PROVE  Promise!Next \/ UNCHANGED <<Phases, Effects>>
  <1>1. CASE UNCHANGED jstate
    <2>1. Phases' = Phases
      BY <1>1 DEF Phases
    <2> QED
      BY <2>1, OneEffect, ExecutedMaps
  <1>2. ASSUME NEW i, RecordMoves(i), ~UNCHANGED jstate
        PROVE  Promise!Next \/ UNCHANGED <<Phases, Effects>>
    <2>1. TypeOK /\ TypeOK'
      BY TypeNext DEF IInv
    <2>2. i \in Intents /\ jstate'[i] # jstate[i]
      BY <1>2, <2>1 DEF RecordMoves, TypeOK
    <2> QED
      BY <1>2, <2>2, MoveMaps
  <1> QED
    BY <1>1, <1>2, OneRecordMoves

\* Journal, port and chain keep the promise of AtMostOnceExecution: however
\* many submit() calls, recoveries and crashes there are, an intent takes
\* effect at most once and only while its record says SUBMITTED.
THEOREM KeepsPromiseCorrect == Spec => KeepsPromise
  <1>1. Init => Promise!Init
    BY DEF Init, Promise!Init, Decision
  <1>2. IInv /\ ExpiredInv /\ [Next]_vars => [Promise!Next]_<<Phases, Effects>>
    BY StepMaps
  <1>3. Init => ExpiredInv
    BY DEF Init, ExpiredInv
  <1>4. IInv /\ ExpiredInv /\ [Next]_vars => ExpiredInv'
    BY ExpiredStep
  <1> QED
    BY <1>1, <1>2, <1>3, <1>4, Inductive, PTL
    DEF Spec, KeepsPromise, Promise!Spec, Phases, Effects

(***************************************************************************)
(* What the promise is worth: it is proved of the abstract specification,   *)
(* and the port has it because it implements that specification.            *)
(***************************************************************************)

\* A decision has no effect or one, none while it is not handed over or once it
\* is void, and one when it is done.
EffectInv ==
  \A i \in Intents :
    /\ Effects[i] = {} \/ \E s \in Sigs : Effects[i] = {s}
    /\ Phases[i] \in {"new", "void"} => Effects[i] = {}
    /\ Phases[i] = "done" => Effects[i] # {}

LEMMA EffectStep ==
  ASSUME EffectInv, [Promise!Next]_<<Phases, Effects>>
  PROVE  EffectInv'
  <1>f. Phases = [i \in Intents |-> Phases[i]] /\ Effects = [i \in Intents |-> Effects[i]]
    BY DEF Phases, Effects
  <1>1. ASSUME UNCHANGED <<Phases, Effects>>
        PROVE  EffectInv'
    BY <1>1 DEF EffectInv
  <1>2. ASSUME NEW i \in Intents, NEW from, NEW to, UNCHANGED Effects,
               Phases[i] = from, Phases' = [Phases EXCEPT ![i] = to],
               to \in {"new", "void"} => Effects[i] = {},
               to = "done" => Effects[i] # {}
        PROVE  EffectInv'
    <2>1. Phases'[i] = to /\ \A j \in Intents \ {i} : Phases'[j] = Phases[j]
      BY <1>2, <1>f
    <2> QED
      BY <1>2, <2>1 DEF EffectInv
  <1>3. ASSUME NEW i \in Intents, NEW s \in Sigs, UNCHANGED Phases,
               Phases[i] = "handedOver",
               Effects' = [Effects EXCEPT ![i] = {s}]
        PROVE  EffectInv'
    <2>1. Effects'[i] = {s} /\ \A j \in Intents \ {i} : Effects'[j] = Effects[j]
      BY <1>3, <1>f
    <2> QED
      BY <1>3, <2>1 DEF EffectInv
  <1>4. ASSUME NEW i \in Intents, Promise!HandOver(i) \/ Promise!GiveUp(i)
        PROVE  EffectInv'
    <2>2. CASE Promise!HandOver(i)
      BY <2>2, <1>2 DEF Promise!HandOver, Promise!Become, Phases, Effects, EffectInv
    <2>3. CASE Promise!GiveUp(i)
      BY <2>3, <1>2 DEF Promise!GiveUp, Promise!Become, Phases, Effects, EffectInv
    <2> QED
      BY <1>4, <2>2, <2>3
  <1>5. ASSUME NEW i \in Intents, Promise!Void(i) \/ Promise!Done(i) \/ Promise!TakeEffect(i)
        PROVE  EffectInv'
    <2>1. CASE Promise!Void(i)
      BY <2>1, <1>2 DEF Promise!Void, Promise!Become, Phases, Effects, EffectInv
    <2>2. CASE Promise!Done(i)
      BY <2>2, <1>2 DEF Promise!Done, Promise!Become, Phases, Effects, EffectInv
    <2>3. CASE Promise!TakeEffect(i)
      BY <2>3, <1>3 DEF Promise!TakeEffect, Phases, Effects, EffectInv
    <2> QED
      BY <1>5, <2>1, <2>2, <2>3
  <1> QED
    BY <1>1, <1>4, <1>5 DEF Promise!Next

\* The abstract specification keeps its word: one decision has at most one
\* effect, none before it is handed over, none once it is void.
THEOREM PromiseIsAtMostOnce == Promise!Spec => []Promise!AtMostOnce
  <1>1. Promise!Init => EffectInv
    BY DEF Promise!Init, EffectInv, Phases, Effects
  <1>2. EffectInv /\ [Promise!Next]_<<Phases, Effects>> => EffectInv'
    BY EffectStep
  <1>3. EffectInv => Promise!AtMostOnce
    BY DEF EffectInv, Promise!AtMostOnce, Phases, Effects
  <1> QED
    BY <1>1, <1>2, <1>3, PTL DEF Promise!Spec, Phases, Effects

\* So does the live port: over crashes, recoveries and concurrent submits an
\* intent executes at most once, an intent whose record is unsent, FAILED or
\* CANCELLED never, and a CONFIRMED or RECONCILED one did.
THEOREM ExecutesAtMostOnce == Spec => []Promise!AtMostOnce
  BY KeepsPromiseCorrect, PromiseIsAtMostOnce, PTL DEF KeepsPromise
=============================================================================
