------------------------- MODULE LiveExecutionProofs -------------------------
(***************************************************************************)
(* Proofs about LiveExecution for any number of intents and concurrent      *)
(* submit() calls, any bound on the block height, any blockhash validity    *)
(* and any number of crashes.                                               *)
(***************************************************************************)
EXTENDS LiveExecution, FiniteSetTheorems, TLAPS

\* The set definitions every proof below looks through.
USE DEF JournalState, TransactionState, Absent, RecoveryStates, TerminalStates,
        UnsentStates,
        TxStatus, Final, Seen, Took, Answer,
        Receipts, Building, Signing, OnWire, CallPc, RecoveryPc,
        journalVars, callVars, recoveryVars, networkVars, RecoveryUnchanged

LEMMA HeightInSigs == 0 \in Sigs
  BY HeightAssumption DEF Sigs

LEMMA TypeInit == Init => TypeOK
  BY HeightAssumption, CrashAssumption DEF Init, TypeOK, Sigs

LEMMA StatusType ==
  ASSUME TypeOK, NEW i \in Intents, NEW s \in Sigs
  PROVE  Answered(i, s) \in Answer
  BY DEF TypeOK, Answered, Status

LEMMA LookType ==
  ASSUME TypeOK, NEW i, NEW s, Look(i, s)
  PROVE  stored' \in [Intents -> [Sigs -> Answer \cup {"none"}]]
  <1>1. CASE i \in Intents /\ s \in Sigs
    BY <1>1, StatusType DEF TypeOK, Look
  <1>2. CASE ~(i \in Intents /\ s \in Sigs)
    <2>1. stored' = stored
      BY <1>2 DEF TypeOK, Look
    <2> QED
      BY <2>1 DEF TypeOK
  <1> QED
    BY <1>1, <1>2

LEMMA SendType ==
  ASSUME TypeOK, NEW i, NEW s, Send(i, s)
  PROVE  chain' \in [Intents -> [Sigs -> TxStatus]]
  <1>1. CASE i \in Intents /\ s \in Sigs
    BY <1>1 DEF TypeOK, Send
  <1>2. CASE ~(i \in Intents /\ s \in Sigs)
    <2>1. chain' = chain
      BY <1>2 DEF TypeOK, Send
    <2> QED
      BY <2>1 DEF TypeOK
  <1> QED
    BY <1>1, <1>2

LEMMA TypeSubmit ==
  ASSUME TypeOK, NEW c \in Calls, NEW i \in Intents, Submit(c, i)
  PROVE  TypeOK'
  BY DEF TypeOK, Submit, Goto

LEMMA TypeCallStep ==
  ASSUME TypeOK, NEW c \in Calls, CallStep(c)
  PROVE  TypeOK'
  <1>1. CASE \E s \in Sigs : TakeBlockhash(c, s)
    BY <1>1 DEF TypeOK, TakeBlockhash, Goto
  <1>2. CASE BuildError(c)
    BY <1>2 DEF TypeOK, BuildError, HandleError, Goto
  <1>3. CASE BuildAbandoned(c)
    BY <1>3 DEF TypeOK, BuildAbandoned, Goto
  <1>4. CASE Sign(c)
    BY <1>4 DEF TypeOK, Sign, Goto
  <1>5. CASE SignRejected(c)
    BY <1>5 DEF TypeOK, SignRejected, HandleError, Goto
  <1>6. CASE MarkSubmitted(c)
    BY <1>6 DEF TypeOK, MarkSubmitted, Goto
  <1>7. CASE Broadcast(c)
    BY <1>7, SendType DEF TypeOK, Broadcast, Goto
  <1>8. CASE RouteAcked(c) \/ RouteRejected(c) \/ ReconcileUnavailable(c)
    BY <1>8 DEF TypeOK, RouteAcked, RouteRejected, ReconcileUnavailable, Goto
  <1>9. CASE PollConfirmed(c)
    BY <1>9, LookType DEF TypeOK, PollConfirmed, Goto
  <1>10. CASE PollExecutionFailed(c)
    BY <1>10, LookType DEF TypeOK, PollExecutionFailed, Goto
  <1>11. CASE PollGaveUp(c)
    BY <1>11, LookType DEF TypeOK, PollGaveUp, Goto
  <1>12. CASE Reconcile(c)
    <2>1. \E receipt \in {"accepted", "failed"} : pc' = [pc EXCEPT ![c] = receipt]
      BY <1>12 DEF Reconcile, Goto
    <2>2. jstate' \in [Intents -> JournalState]
      BY <1>12 DEF TypeOK, Reconcile
    <2>3. UNCHANGED <<jsig, cintent, csig, networkVars, recoveryVars, crashes>>
      BY <1>12 DEF Reconcile
    <2> QED
      BY <2>1, <2>2, <2>3 DEF TypeOK
  <1> QED
    BY <1>1, <1>2, <1>3, <1>4, <1>5, <1>6, <1>7, <1>8, <1>9, <1>10, <1>11,
       <1>12 DEF CallStep

LEMMA TypeRecoveryStep ==
  ASSUME TypeOK, RecoveryStep
  PROVE  TypeOK'
  <1>1. CASE ListPending
    BY <1>1 DEF TypeOK, ListPending
  <1>2. ASSUME NEW i \in Intents, CancelUnsent(i)
        PROVE  TypeOK'
    BY <1>2 DEF TypeOK, CancelUnsent, Resolved, Raised
  <1>3. ASSUME NEW i \in Intents, ObserveSubmitted(i)
        PROVE  TypeOK'
    BY <1>3, LookType DEF TypeOK, ObserveSubmitted, FinishLanding, Resolved, Raised
  <1>4. ASSUME NEW i \in Intents, ReconcileListed(i)
        PROVE  TypeOK'
    BY <1>4 DEF TypeOK, ReconcileListed
  <1>5. CASE WaitFound
    BY <1>5, LookType DEF TypeOK, WaitFound, FinishLanding, Resolved, Raised
  <1>6. CASE CheckHeight
    BY <1>6 DEF TypeOK, CheckHeight, Resolved, Raised
  <1>7. CASE Rebroadcast
    BY <1>7, SendType DEF TypeOK, Rebroadcast
  <1>8. CASE RebroadcastResult
    BY <1>8 DEF TypeOK, RebroadcastResult, Resolved, Raised
  <1>9. CASE PollRebroadcast
    BY <1>9, LookType DEF TypeOK, PollRebroadcast, FinishLanding, Resolved, Raised
  <1>10. CASE ReconcileRecovered
    BY <1>10 DEF TypeOK, ReconcileRecovered, Resolved, Raised
  <1>11. CASE RecoveryRpcError
    BY <1>11 DEF TypeOK, RecoveryRpcError, Raised
  <1>12. CASE RecoveryReturns
    BY <1>12 DEF TypeOK, RecoveryReturns
  <1> QED
    BY <1>1, <1>2, <1>3, <1>4, <1>5, <1>6, <1>7, <1>8, <1>9, <1>10, <1>11,
       <1>12 DEF RecoveryStep

LEMMA TypeWorldStep ==
  ASSUME TypeOK, Crash \/ Restart \/ NetworkStep
  PROVE  TypeOK'
  <1>1. CASE Crash
    BY <1>1, CrashAssumption DEF TypeOK, Crash
  <1>2. CASE Restart
    BY <1>2 DEF TypeOK, Restart
  <1>3. ASSUME NEW i \in Intents, NEW s \in Sigs,
               Land(i, s) \/ Finalize(i, s) \/ ForgetAnswer(i, s)
        PROVE  TypeOK'
    <2>1. CASE Land(i, s)
      <3>1. PICK outcome \in Seen : chain' = [chain EXCEPT ![i][s] = outcome]
        BY <2>1 DEF Land
      <3> QED
        BY <2>1, <3>1 DEF TypeOK, Land
    <2>2. CASE Finalize(i, s)
      BY <2>2 DEF TypeOK, Finalize
    <2>3. CASE ForgetAnswer(i, s)
      BY <2>3 DEF TypeOK, ForgetAnswer
    <2> QED
      BY <1>3, <2>1, <2>2, <2>3
  <1>4. CASE AdvanceHeight
    BY <1>4, HeightAssumption DEF TypeOK, AdvanceHeight, Sigs
  <1> QED
    BY <1>1, <1>2, <1>3, <1>4 DEF NetworkStep

LEMMA TypeNext == TypeOK /\ [Next]_vars => TypeOK'
  <1> SUFFICES ASSUME TypeOK, [Next]_vars
               PROVE  TypeOK'
    OBVIOUS
  <1>1. CASE Next
    BY <1>1, TypeSubmit, TypeCallStep, TypeRecoveryStep, TypeWorldStep DEF Next
  <1>2. CASE UNCHANGED vars
    BY <1>2 DEF TypeOK, vars
  <1> QED
    BY <1>1, <1>2

\* Journal, calls, recovery, cache and chain keep their types in every run:
\* no step of the port writes a journal row outside TransactionState.
THEOREM TypeCorrect == Spec => []TypeOK
  BY TypeInit, TypeNext, PTL DEF Spec

(***************************************************************************)
(* The inductive invariant.  OneDurableBroadcast is not inductive alone: a  *)
(* call on the wire must know that the bytes it sends are the bytes of the  *)
(* record, recovery must know that the record it took from its own older    *)
(* list is still out, and a stored status answer must not outlive a change  *)
(* of what it says.                                                         *)
(***************************************************************************)

Landed     == {"CONFIRMED", "RECONCILED"}
Accepted   == {"accepted", "acceptedPending"}
PastSigned == OnWire \cup Accepted
Awaiting   == {"waiting", "absent", "routing", "awaitAck", "polling"}
Recovering == Awaiting \cup {"next", "reconciling", "idle"}

\* A record holds bytes from store_signed on.
RecordInv ==
  \A i \in Intents :
    /\ jstate[i] \in {"SIGNED", "SUBMITTED", "EXPIRED"} \cup Landed => jsig[i] \in Sigs
    /\ jstate[i] \in {Absent, "INTENT"} => jsig[i] = NoSig
    /\ jstate[i] \in Landed => chain[i][jsig[i]] = "okFinal"

\* A stored final answer is still true.
StoredInv ==
  \A i \in Intents, s \in Sigs :
    stored[i][s] \in Final => chain[i][s] = stored[i][s]

\* What a call knows of the record of its intent.
CallInv ==
  \A c \in Calls :
    /\ pc[c] \in Building \cup Signing \cup PastSigned => cintent[c] \in Intents
    /\ pc[c] \in {"simulating"} \cup Signing \cup PastSigned => csig[c] \in Sigs
    /\ pc[c] \in Signing => jstate[cintent[c]] = "SIGNED"
    /\ pc[c] \in Signing \cup PastSigned => jsig[cintent[c]] = csig[c]
    /\ pc[c] \in PastSigned => MayBeOut(cintent[c])
    /\ pc[c] \in {"reconciling"} \cup Accepted => jstate[cintent[c]] \in Landed

\* What recovery knows of the records it listed and of the one it awaits on.
TodoInv ==
  \A i \in todo :
    /\ snap[i] \in RecoveryStates
    /\ snap[i] \in {"SUBMITTED", "CONFIRMED"} => MayBeOut(i) /\ jsig[i] \in Sigs
    /\ snap[i] = "CONFIRMED" => jstate[i] \in Landed

CurInv ==
  /\ rpc \in Awaiting \cup {"reconciling"} =>
       cur \in Intents /\ jsig[cur] \in Sigs /\ MayBeOut(cur)
  /\ rpc \in Awaiting => snap[cur] = "SUBMITTED"
  /\ rpc = "reconciling" => jstate[cur] \in Landed

\* What recovery has dealt with so far.
ListedInv ==
  /\ rpc = "idle" => todo = {}
  /\ rpc \in Recovering =>
       \A i \in Intents :
         snap[i] \in RecoveryStates =>
           \/ i \in todo
           \/ jstate[i] \in TerminalStates
           \/ snap[i] = "SUBMITTED" /\ jstate[i] \in {"SUBMITTED", "CONFIRMED"}

IInv ==
  /\ TypeOK
  /\ OneDurableBroadcast /\ RecordInv /\ StoredInv
  /\ CallInv /\ OneWinner
  /\ TodoInv /\ CurInv /\ ListedInv

(***************************************************************************)
(* What no step of the specification ever undoes.                           *)
(***************************************************************************)

Progress ==
  \A i \in Intents :
    /\ MayBeOut(i) => MayBeOut(i)'
    /\ jstate[i] \in Landed => jstate'[i] \in Landed
    /\ jstate[i] \in TerminalStates => jstate'[i] = jstate[i]
    /\ jsig[i] \in Sigs => jsig'[i] = jsig[i]
    /\ \A s \in Sigs : chain[i][s] \in Final => chain'[i][s] = chain[i][s]

LEMMA MoveFacts ==
  ASSUME NEW from
  PROVE  /\ MayMove(from, "SIGNED") <=> from = "INTENT"
         /\ MayMove(from, "SUBMITTED") <=> from = "SIGNED"
         /\ MayMove(from, "CONFIRMED") <=> from = "SUBMITTED"
         /\ MayMove(from, "RECONCILED") <=> from = "CONFIRMED"
         /\ MayMove(from, "FAILED") <=> from \in {"INTENT", "SIGNED", "SUBMITTED"}
         /\ MayMove(from, "EXPIRED") <=> from \in {"SIGNED", "SUBMITTED"}
         /\ MayMove(from, "CANCELLED") <=> from \in {"INTENT", "SIGNED"}
  BY DEF MayMove, SourceStates

\* The bytes of an intent that is still INTENT or unknown are not stored yet.
LEMMA NoSigNotInSigs == NoSig \notin Sigs
  BY NoSigAssumption DEF Sigs

\* A final answer tells the truth, whether it is fresh or stored.
LEMMA AnswerIsTrue ==
  ASSUME TypeOK, StoredInv, NEW i \in Intents, NEW s \in Sigs,
         Answered(i, s) \in Final
  PROVE  chain[i][s] = Answered(i, s)
  BY DEF TypeOK, StoredInv, Answered, Status

LEMMA ProgressCall ==
  ASSUME IInv, NEW c \in Calls, CallStep(c)
  PROVE  Progress
  <1> USE DEF Progress, MayBeOut, Landed
  <1>t. /\ TypeOK /\ RecordInv
        /\ pc[c] \in Building \cup Signing \cup PastSigned => cintent[c] \in Intents
        /\ pc[c] \in {"simulating"} \cup Signing \cup PastSigned => csig[c] \in Sigs
    BY DEF IInv, CallInv
  <1>1. CASE \/ \E s \in Sigs : TakeBlockhash(c, s)
             \/ BuildAbandoned(c) \/ RouteAcked(c) \/ RouteRejected(c)
             \/ PollGaveUp(c) \/ ReconcileUnavailable(c)
    BY <1>1, <1>t DEF TypeOK, TakeBlockhash, BuildAbandoned, RouteAcked, RouteRejected,
                 PollGaveUp, ReconcileUnavailable
  <1>2. CASE BuildError(c) \/ SignRejected(c)
    BY <1>2, <1>t DEF TypeOK, BuildError, SignRejected, HandleError
  <1>4. CASE Sign(c)
    BY <1>4, <1>t, MoveFacts, NoSigNotInSigs DEF TypeOK, RecordInv, Sign
  <1>6. CASE MarkSubmitted(c)
    BY <1>6, <1>t, MoveFacts DEF TypeOK, MarkSubmitted
  <1>7. CASE Broadcast(c)
    BY <1>7, <1>t DEF TypeOK, Broadcast, Send
  <1>9. CASE PollConfirmed(c)
    BY <1>9, <1>t, MoveFacts DEF TypeOK, PollConfirmed
  <1>10. CASE PollExecutionFailed(c)
    <2>1. cintent[c] \in Intents /\ csig[c] \in Sigs /\ jsig[cintent[c]] = csig[c]
      BY <1>10 DEF IInv, CallInv, PollExecutionFailed, PastSigned
    <2>2. chain[cintent[c]][csig[c]] = "errFinal"
      BY <1>10, <2>1, AnswerIsTrue DEF IInv, PollExecutionFailed
    <2> QED
      BY <1>10, <1>t, <2>1, <2>2, MoveFacts, NoSigNotInSigs
         DEF TypeOK, PollExecutionFailed
  <1>12. CASE Reconcile(c)
    BY <1>12, <1>t, MoveFacts DEF TypeOK, Reconcile
  <1> QED
    BY <1>1, <1>2, <1>4, <1>6, <1>7, <1>9, <1>10, <1>12 DEF CallStep

\* A record recovery finishes: a final answer decides it.
LEMMA ProgressFinish ==
  ASSUME IInv, NEW i \in Intents, jsig[i] \in Sigs, FinishLanding(i),
         UNCHANGED <<jsig, chain>>
  PROVE  Progress
  <1> USE DEF Progress, MayBeOut, Landed
  <1>t. TypeOK /\ StoredInv
    BY DEF IInv
  <1>1. CASE Answered(i, jsig[i]) = "errFinal"
    <2>1. chain[i][jsig[i]] = "errFinal"
      BY <1>1, <1>t, AnswerIsTrue
    <2>2. \/ jstate[i] = "SUBMITTED" /\ jstate' = [jstate EXCEPT ![i] = "FAILED"]
          \/ MayMove(jstate[i], "FAILED") /\ jstate[i] # "SUBMITTED"
             /\ jstate' = [jstate EXCEPT ![i] = "FAILED"]
          \/ jstate' = jstate
      BY <1>1 DEF FinishLanding
    <2> QED
      BY <2>1, <2>2, <1>t, MoveFacts, NoSigNotInSigs DEF TypeOK
  <1>2. CASE Answered(i, jsig[i]) = "okFinal"
    BY <1>2, <1>t, MoveFacts DEF TypeOK, FinishLanding, Raised
  <1> QED
    BY <1>1, <1>2 DEF FinishLanding

LEMMA ProgressRecovery ==
  ASSUME IInv, RecoveryStep
  PROVE  Progress
  <1> USE DEF Progress, MayBeOut, Landed
  <1>t. /\ TypeOK /\ CurInv /\ TodoInv
        /\ rpc \in Awaiting \cup {"reconciling"} => cur \in Intents /\ jsig[cur] \in Sigs
    BY DEF IInv, CurInv
  <1>1. CASE \/ ListPending \/ \E i \in Intents : ReconcileListed(i)
             \/ RebroadcastResult \/ RecoveryRpcError \/ RecoveryReturns
    BY <1>1, <1>t DEF TypeOK, ListPending, ReconcileListed, RebroadcastResult,
                 RecoveryRpcError, RecoveryReturns
  <1>2. ASSUME NEW i \in Intents, CancelUnsent(i)
        PROVE  Progress
    BY <1>2, <1>t, MoveFacts DEF TypeOK, CancelUnsent
  <1>3. ASSUME NEW i \in Intents, ObserveSubmitted(i)
        PROVE  Progress
    <2>1. jsig[i] \in Sigs
      BY <1>3, <1>t DEF TodoInv, ObserveSubmitted
    <2>2. CASE FinishLanding(i)
      BY <1>3, <2>1, <2>2, ProgressFinish DEF ObserveSubmitted
    <2>3. CASE ~FinishLanding(i)
      BY <1>3, <1>t, <2>3 DEF TypeOK, ObserveSubmitted
    <2> QED
      BY <2>2, <2>3
  <1>4. CASE WaitFound \/ PollRebroadcast
    <2>1. cur \in Intents /\ jsig[cur] \in Sigs
      BY <1>4, <1>t DEF WaitFound, PollRebroadcast, Awaiting
    <2>2. CASE FinishLanding(cur)
      BY <1>4, <2>1, <2>2, ProgressFinish DEF WaitFound, PollRebroadcast
    <2>3. CASE ~FinishLanding(cur)
      BY <1>4, <1>t, <2>3 DEF TypeOK, WaitFound, PollRebroadcast
    <2> QED
      BY <2>2, <2>3
  <1>6. CASE CheckHeight
    BY <1>6, <1>t, MoveFacts DEF TypeOK, CheckHeight, Awaiting
  <1>7. CASE Rebroadcast
    BY <1>7, <1>t DEF TypeOK, Rebroadcast, Send, Awaiting
  <1>10. CASE ReconcileRecovered
    BY <1>10, <1>t, MoveFacts DEF TypeOK, ReconcileRecovered
  <1> QED
    BY <1>1, <1>2, <1>3, <1>4, <1>6, <1>7, <1>10 DEF RecoveryStep

LEMMA ProgressNext == IInv /\ [Next]_vars => Progress
  <1> SUFFICES ASSUME IInv, [Next]_vars
               PROVE  Progress
    OBVIOUS
  <1>t. TypeOK /\ RecordInv
    BY DEF IInv
  <1>1. ASSUME NEW c \in Calls, NEW i \in Intents, Submit(c, i)
        PROVE  Progress
    BY <1>1, <1>t DEF TypeOK, Submit, Progress, MayBeOut, Landed
  <1>2. CASE Crash \/ Restart \/ AdvanceHeight \/ UNCHANGED vars
    BY <1>2, <1>t DEF Crash, Restart, AdvanceHeight, vars, Progress, MayBeOut
  <1>3. ASSUME NEW i \in Intents, NEW s \in Sigs,
               Land(i, s) \/ Finalize(i, s) \/ ForgetAnswer(i, s)
        PROVE  Progress
    <2>1. \A j \in Intents, r \in Sigs : chain[j][r] \in Final => chain'[j][r] = chain[j][r]
      BY <1>3, <1>t DEF TypeOK, Land, Finalize, ForgetAnswer
    <2>2. UNCHANGED <<jstate, jsig>>
      BY <1>3 DEF Land, Finalize, ForgetAnswer
    <2>3. \A j \in Intents : jsig[j] # NoSig => jsig[j] \in Sigs
      BY <1>t DEF TypeOK
    <2> QED
      BY <2>1, <2>2, <2>3 DEF Progress, MayBeOut
  <1> QED
    BY <1>1, <1>2, <1>3, ProgressCall, ProgressRecovery DEF Next, NetworkStep

(***************************************************************************)
(* One lemma per conjunct of the inductive invariant.                       *)
(***************************************************************************)

\* Only bytes that their record already stores are sent.
LEMMA SendsOnlyRecorded ==
  ASSUME IInv, [Next]_vars, NEW i \in Intents, NEW s \in Sigs,
         chain'[i][s] # "unsent", chain[i][s] = "unsent"
  PROVE  jsig[i] = s /\ MayBeOut(i)
  <1>t. TypeOK /\ CurInv /\ CallInv
    BY DEF IInv
  <1>1. ASSUME NEW c \in Calls, Broadcast(c)
        PROVE  jsig[i] = s /\ MayBeOut(i)
    <2>1. /\ cintent[c] \in Intents /\ csig[c] \in Sigs
          /\ jsig[cintent[c]] = csig[c] /\ MayBeOut(cintent[c])
      BY <1>1, <1>t DEF CallInv, Broadcast, PastSigned
    <2> QED
      BY <1>1, <1>t, <2>1 DEF TypeOK, Broadcast, Send
  <1>2. CASE Rebroadcast
    <2>1. cur \in Intents /\ jsig[cur] \in Sigs /\ MayBeOut(cur)
      BY <1>2, <1>t DEF CurInv, Rebroadcast, Awaiting
    <2> QED
      BY <1>2, <1>t, <2>1 DEF TypeOK, Rebroadcast, Send
  <1>3. ASSUME NEW j \in Intents, NEW r \in Sigs,
               Land(j, r) \/ Finalize(j, r) \/ ForgetAnswer(j, r)
        PROVE  FALSE
    BY <1>3, <1>t DEF TypeOK, Land, Finalize, ForgetAnswer
  <1>4. ASSUME NEW c \in Calls, CallStep(c), ~Broadcast(c)
        PROVE  chain' = chain
    BY <1>4 DEF CallStep, TakeBlockhash, BuildError, BuildAbandoned, Sign,
                SignRejected, MarkSubmitted, RouteAcked, RouteRejected, PollConfirmed,
                PollExecutionFailed, PollGaveUp, Reconcile, ReconcileUnavailable
  <1>5. ASSUME RecoveryStep, ~Rebroadcast
        PROVE  chain' = chain
    BY <1>5 DEF RecoveryStep, ListPending, CancelUnsent, ObserveSubmitted,
                ReconcileListed, WaitFound, CheckHeight, RebroadcastResult,
                PollRebroadcast, ReconcileRecovered, RecoveryRpcError, RecoveryReturns
  <1>6. ASSUME \/ \E c \in Calls, j \in Intents : Submit(c, j)
               \/ Crash \/ Restart \/ AdvanceHeight \/ UNCHANGED vars
        PROVE  chain' = chain
    BY <1>6 DEF Submit, Crash, Restart, AdvanceHeight, vars
  <1> QED
    BY <1>1, <1>2, <1>3, <1>4, <1>5, <1>6 DEF Next, NetworkStep

LEMMA BroadcastStep ==
  ASSUME IInv, [Next]_vars
  PROVE  OneDurableBroadcast'
  <1>1. Progress
    BY ProgressNext
  <1>2. SUFFICES ASSUME NEW i \in Intents, NEW s \in Sigs, chain'[i][s] # "unsent"
                 PROVE  jsig'[i] = s /\ MayBeOut(i)'
    BY DEF OneDurableBroadcast
  <1>3. jsig[i] = s /\ MayBeOut(i)
    BY <1>2, SendsOnlyRecorded DEF IInv, OneDurableBroadcast
  <1> QED
    BY <1>1, <1>3 DEF Progress

\* A look stores what the chain says at that moment.
LEMMA LooksAreTrue ==
  ASSUME IInv, [Next]_vars, NEW i \in Intents, NEW s \in Sigs,
         stored'[i][s] \in Final
  PROVE  chain[i][s] = stored'[i][s]
  <1>t. TypeOK /\ StoredInv
    BY DEF IInv
  <1>1. ASSUME NEW j, NEW r, Look(j, r)
        PROVE  chain[i][s] = stored'[i][s]
    <2>1. CASE j = i /\ r = s
      BY <1>1, <1>t, <2>1, AnswerIsTrue DEF TypeOK, Look
    <2>2. CASE ~(j = i /\ r = s)
      BY <1>1, <1>t, <2>2 DEF TypeOK, Look, StoredInv
    <2> QED
      BY <2>1, <2>2
  <1>2. ASSUME stored' = stored
        PROVE  chain[i][s] = stored'[i][s]
    BY <1>2, <1>t DEF StoredInv
  <1>3. ASSUME NEW c \in Calls, CallStep(c)
        PROVE  stored' = stored \/ Look(cintent[c], csig[c])
    BY <1>3 DEF CallStep, TakeBlockhash, BuildError, BuildAbandoned, Sign,
                SignRejected, MarkSubmitted, Broadcast, RouteAcked, RouteRejected,
                PollConfirmed, PollExecutionFailed, PollGaveUp, Reconcile,
                ReconcileUnavailable
  <1>4. ASSUME RecoveryStep
        PROVE  stored' = stored \/ \E j \in Intents \cup {cur} : Look(j, jsig[j])
    BY <1>4 DEF RecoveryStep, ListPending, CancelUnsent, ObserveSubmitted,
                ReconcileListed, WaitFound, CheckHeight, Rebroadcast, RebroadcastResult,
                PollRebroadcast, ReconcileRecovered, RecoveryRpcError, RecoveryReturns
  <1>5. ASSUME NEW j \in Intents, NEW r \in Sigs, ForgetAnswer(j, r)
        PROVE  chain[i][s] = stored'[i][s]
    BY <1>5, <1>t DEF TypeOK, ForgetAnswer, StoredInv
  <1>6. ASSUME \/ \E c \in Calls, j \in Intents : Submit(c, j)
               \/ \E j \in Intents, r \in Sigs : Land(j, r) \/ Finalize(j, r)
               \/ Crash \/ Restart \/ AdvanceHeight \/ UNCHANGED vars
        PROVE  stored' = stored
    BY <1>6 DEF Submit, Land, Finalize, Crash, Restart, AdvanceHeight, vars
  <1> QED
    BY <1>1, <1>2, <1>3, <1>4, <1>5, <1>6 DEF Next, NetworkStep

LEMMA StoredStep ==
  ASSUME IInv, [Next]_vars
  PROVE  StoredInv'
  BY ProgressNext, LooksAreTrue DEF Progress, StoredInv

\* The moves of one journal record.
JournalMove(i) ==
  \/ jstate'[i] = jstate[i] /\ jsig'[i] = jsig[i]
  \/ jstate[i] = Absent /\ jstate'[i] = "INTENT" /\ jsig'[i] = jsig[i]
  \/ jstate[i] = "INTENT" /\ jstate'[i] = "SIGNED" /\ jsig'[i] \in Sigs
  \/ /\ jstate'[i] \in {"SUBMITTED", "RECONCILED", "FAILED", "EXPIRED", "CANCELLED"}
     /\ MayMove(jstate[i], jstate'[i])
     /\ jsig'[i] = jsig[i]
  \/ /\ jstate[i] = "SUBMITTED" /\ jstate'[i] = "CONFIRMED"
     /\ chain[i][jsig[i]] = "okFinal"
     /\ jsig'[i] = jsig[i]

LEMMA JournalFinish ==
  ASSUME IInv, NEW j \in Intents, NEW i \in Intents, jsig[j] \in Sigs,
         FinishLanding(j), jsig' = jsig
  PROVE  JournalMove(i)
  <1>t. TypeOK /\ StoredInv
    BY DEF IInv
  <1>1. CASE Answered(j, jsig[j]) = "okFinal"
    <2>1. chain[j][jsig[j]] = "okFinal"
      BY <1>1, <1>t, AnswerIsTrue
    <2> QED
      BY <1>1, <2>1, <1>t, MoveFacts DEF TypeOK, FinishLanding, JournalMove
  <1>2. CASE Answered(j, jsig[j]) = "errFinal"
    BY <1>2, <1>t, MoveFacts DEF TypeOK, FinishLanding, JournalMove
  <1> QED
    BY <1>1, <1>2 DEF FinishLanding

LEMMA JournalMoves ==
  ASSUME IInv, [Next]_vars, NEW i \in Intents
  PROVE  JournalMove(i)
  <1>t. /\ TypeOK /\ CallInv /\ TodoInv /\ CurInv /\ StoredInv
        /\ \A c \in Calls : pc[c] \in Building \cup Signing \cup PastSigned => cintent[c] \in Intents
        /\ rpc \in Awaiting \cup {"reconciling"} => cur \in Intents /\ jsig[cur] \in Sigs
    BY DEF IInv, CallInv, CurInv
  <1>1. ASSUME NEW c \in Calls, CallStep(c)
        PROVE  JournalMove(i)
    <2>1. CASE BuildError(c) \/ SignRejected(c)
      BY <1>1, <1>t, <2>1, MoveFacts DEF TypeOK, BuildError, SignRejected, HandleError,
                                      JournalMove
    <2>2. CASE Sign(c)
      BY <1>t, <2>2, MoveFacts DEF TypeOK, CallInv, Sign, JournalMove
    <2>3. CASE MarkSubmitted(c)
      BY <1>t, <2>3, MoveFacts DEF TypeOK, MarkSubmitted, JournalMove
    <2>4. CASE PollConfirmed(c)
      <3>1. /\ cintent[c] \in Intents /\ csig[c] \in Sigs
            /\ jsig[cintent[c]] = csig[c] /\ chain[cintent[c]][csig[c]] = "okFinal"
        BY <1>t, <2>4, AnswerIsTrue DEF CallInv, PastSigned, PollConfirmed
      <3> QED
        BY <1>t, <2>4, <3>1, MoveFacts DEF TypeOK, PollConfirmed, JournalMove
    <2>5. CASE PollExecutionFailed(c)
      BY <1>t, <2>5, MoveFacts DEF TypeOK, PollExecutionFailed, JournalMove
    <2>6. CASE Reconcile(c)
      BY <1>t, <2>6, MoveFacts DEF TypeOK, Reconcile, JournalMove
    <2>7. ASSUME ~(BuildError(c) \/ SignRejected(c) \/ Sign(c) \/ MarkSubmitted(c)),
                 ~(PollConfirmed(c) \/ PollExecutionFailed(c) \/ Reconcile(c))
          PROVE  UNCHANGED journalVars
      BY <1>1, <2>7 DEF CallStep, TakeBlockhash, BuildAbandoned, Broadcast, RouteAcked,
                        RouteRejected, PollGaveUp, ReconcileUnavailable
    <2> QED
      BY <2>1, <2>2, <2>3, <2>4, <2>5, <2>6, <2>7 DEF JournalMove
  <1>2. CASE RecoveryStep
    <2>1. ASSUME NEW j \in Intents, CancelUnsent(j)
          PROVE  JournalMove(i)
      BY <1>t, <2>1, MoveFacts DEF TypeOK, CancelUnsent, JournalMove
    <2>2. ASSUME NEW j \in Intents, ObserveSubmitted(j)
          PROVE  JournalMove(i)
      <3>1. jsig[j] \in Sigs
        BY <1>t, <2>2 DEF TodoInv, ObserveSubmitted
      <3>2. CASE FinishLanding(j)
        BY <2>2, <3>1, <3>2, JournalFinish DEF ObserveSubmitted
      <3>3. CASE ~FinishLanding(j)
        BY <2>2, <3>3 DEF ObserveSubmitted, JournalMove
      <3> QED
        BY <3>2, <3>3
    <2>3. CASE WaitFound \/ PollRebroadcast
      <3>1. cur \in Intents /\ jsig[cur] \in Sigs
        BY <1>t, <2>3 DEF WaitFound, PollRebroadcast, Awaiting
      <3>2. CASE FinishLanding(cur)
        BY <2>3, <3>1, <3>2, JournalFinish DEF WaitFound, PollRebroadcast
      <3>3. CASE ~FinishLanding(cur)
        BY <2>3, <3>3 DEF WaitFound, PollRebroadcast, JournalMove
      <3> QED
        BY <3>2, <3>3
    <2>4. CASE CheckHeight
      BY <1>t, <2>4, MoveFacts DEF TypeOK, CheckHeight, Awaiting, JournalMove
    <2>5. CASE ReconcileRecovered
      BY <1>t, <2>5, MoveFacts DEF TypeOK, ReconcileRecovered, JournalMove
    <2>6. CASE \/ ListPending \/ \E j \in Intents : ReconcileListed(j)
               \/ Rebroadcast \/ RebroadcastResult \/ RecoveryRpcError
               \/ RecoveryReturns
      BY <2>6 DEF ListPending, ReconcileListed, Rebroadcast, RebroadcastResult,
                  RecoveryRpcError, RecoveryReturns, JournalMove
    <2> QED
      BY <1>2, <2>1, <2>2, <2>3, <2>4, <2>5, <2>6 DEF RecoveryStep
  <1>3. ASSUME NEW c \in Calls, NEW j \in Intents, Submit(c, j)
        PROVE  JournalMove(i)
    BY <1>t, <1>3 DEF TypeOK, Submit, JournalMove
  <1>4. CASE Crash \/ Restart \/ NetworkStep \/ UNCHANGED vars
    BY <1>4 DEF Crash, Restart, NetworkStep, Land, Finalize, ForgetAnswer, AdvanceHeight,
                vars, JournalMove
  <1> QED
    BY <1>1, <1>2, <1>3, <1>4 DEF Next

LEMMA RecordStep ==
  ASSUME IInv, [Next]_vars
  PROVE  RecordInv'
  <1>1. Progress /\ TypeOK /\ TypeOK' /\ RecordInv
    BY ProgressNext, TypeNext DEF IInv
  <1>2. SUFFICES ASSUME NEW i \in Intents
                 PROVE  /\ jstate'[i] \in {"SIGNED", "SUBMITTED", "EXPIRED"} \cup Landed
                             => jsig'[i] \in Sigs
                        /\ jstate'[i] \in {Absent, "INTENT"} => jsig'[i] = NoSig
                        /\ jstate'[i] \in Landed => chain'[i][jsig'[i]] = "okFinal"
    BY DEF RecordInv
  <1>3. JournalMove(i)
    BY JournalMoves
  <1> QED
    BY <1>1, <1>3, MoveFacts DEF RecordInv, JournalMove, Progress, Landed, TypeOK

\* What CallInv says of one call.
CallFact(c) ==
  /\ pc[c] \in Building \cup Signing \cup PastSigned => cintent[c] \in Intents
  /\ pc[c] \in {"simulating"} \cup Signing \cup PastSigned => csig[c] \in Sigs
  /\ pc[c] \in Signing => jstate[cintent[c]] = "SIGNED"
  /\ pc[c] \in Signing \cup PastSigned => jsig[cintent[c]] = csig[c]
  /\ pc[c] \in PastSigned => MayBeOut(cintent[c])
  /\ pc[c] \in {"reconciling"} \cup Accepted => jstate[cintent[c]] \in Landed

\* A call that does not move keeps what it knows, if the event loop was free:
\* nothing then stands between store_signed and mark_submitted.
LEMMA CallFrame ==
  ASSUME IInv, Progress, NEW c \in Calls, pc[c] \notin Signing,
         pc'[c] = pc[c], cintent'[c] = cintent[c], csig'[c] = csig[c]
  PROVE  CallFact(c)'
  <1>1. CallFact(c)
    BY DEF IInv, CallInv, CallFact
  <1> QED
    BY <1>1 DEF Progress, CallFact, PastSigned, Accepted

\* While a call stands between its two journal writes only that call, the
\* network or a crash can step.
LEMMA LoopIsBusy ==
  ASSUME IInv, [Next]_vars, NEW c \in Calls, pc[c] \in Signing
  PROVE  \/ MarkSubmitted(c)
         \/ \E d \in Calls : MarkSubmitted(d) /\ pc[d] \in Signing
         \/ Crash \/ Restart \/ NetworkStep \/ UNCHANGED vars
  <1>1. ~Running /\ ~LoopFree
    BY DEF Running, LoopFree
  <1>2. ASSUME NEW d \in Calls, CallStep(d)
        PROVE  MarkSubmitted(d) /\ pc[d] \in Signing
    BY <1>1, <1>2 DEF CallStep, TakeBlockhash, BuildError, BuildAbandoned, Sign,
         SignRejected, MarkSubmitted, Broadcast, RouteAcked, RouteRejected, PollConfirmed,
         PollExecutionFailed, PollGaveUp, Reconcile, ReconcileUnavailable
  <1>3. ~RecoveryStep
    BY <1>1 DEF RecoveryStep, ListPending, CancelUnsent, ObserveSubmitted,
         ReconcileListed, WaitFound, CheckHeight, Rebroadcast, RebroadcastResult,
         PollRebroadcast, ReconcileRecovered, RecoveryRpcError, RecoveryReturns
  <1>4. \A d \in Calls, i \in Intents : ~Submit(d, i)
    BY <1>1 DEF Submit
  <1> QED
    BY <1>2, <1>3, <1>4 DEF Next

\* The call that moves knows what it must.
LEMMA CallMoves ==
  ASSUME IInv, [Next]_vars, NEW c \in Calls,
         CallStep(c) \/ \E i \in Intents : Submit(c, i)
  PROVE  CallFact(c)'
  <1>t. /\ TypeOK /\ CallFact(c) /\ Progress
        /\ pc[c] \in Building \cup Signing \cup PastSigned => cintent[c] \in Intents
    BY ProgressNext DEF IInv, CallInv, CallFact
  <1>1. CASE \E i \in Intents : Submit(c, i)
    BY <1>t, <1>1 DEF TypeOK, Submit, Goto, CallFact, PastSigned, Accepted
  <1>2. CASE \E s \in Sigs : TakeBlockhash(c, s)
    BY <1>t, <1>2 DEF TypeOK, TakeBlockhash, Goto, CallFact, PastSigned, Accepted
  <1>3. CASE Sign(c)
    BY <1>t, <1>3 DEF TypeOK, Sign, Goto, CallFact, PastSigned, Accepted
  <1>4. CASE MarkSubmitted(c)
    BY <1>t, <1>4 DEF TypeOK, MarkSubmitted, Goto, CallFact, PastSigned, Accepted, MayBeOut
  <1>5. CASE Broadcast(c) \/ RouteAcked(c)
    <2>1. pc[c] \in PastSigned /\ pc'[c] \in {"awaitAck", "polling"}
      BY <1>t, <1>5 DEF TypeOK, Broadcast, RouteAcked, Goto, PastSigned
    <2>2. UNCHANGED <<cintent, csig, journalVars>>
      BY <1>5 DEF Broadcast, RouteAcked
    <2> QED
      BY <1>t, <2>1, <2>2 DEF Progress, CallFact, PastSigned, Accepted
  <1>6. CASE PollConfirmed(c)
    BY <1>t, <1>6, MoveFacts
       DEF TypeOK, PollConfirmed, Goto, CallFact, PastSigned, Accepted, MayBeOut, Landed
  <1>7. CASE Reconcile(c) \/ ReconcileUnavailable(c)
    <2>1. pc[c] = "reconciling" /\ pc'[c] \in Accepted \cup {"failed"}
      BY <1>t, <1>7 DEF TypeOK, Reconcile, ReconcileUnavailable, Goto, Accepted
    <2>2. UNCHANGED <<cintent, csig, jsig>>
      BY <1>7 DEF Reconcile, ReconcileUnavailable
    <2> QED
      BY <1>t, <2>1, <2>2 DEF Progress, CallFact, PastSigned, Accepted
  <1>8. CASE \/ BuildError(c) \/ BuildAbandoned(c) \/ SignRejected(c)
             \/ RouteRejected(c) \/ PollExecutionFailed(c) \/ PollGaveUp(c)
    <2>1. pc'[c] = "failed"
      BY <1>t, <1>8 DEF TypeOK, BuildError, BuildAbandoned, SignRejected, HandleError,
                        RouteRejected, PollExecutionFailed, PollGaveUp, Goto
    <2> QED
      BY <2>1 DEF CallFact, PastSigned, Accepted
  <1> QED
    BY <1>1, <1>2, <1>3, <1>4, <1>5, <1>6, <1>7, <1>8 DEF CallStep

\* Every other call keeps what it knows.
LEMMA CallStays ==
  ASSUME IInv, [Next]_vars, NEW c \in Calls,
         ~CallStep(c), \A i \in Intents : ~Submit(c, i)
  PROVE  CallFact(c)'
  <1>t. TypeOK /\ CallFact(c) /\ Progress
    BY ProgressNext DEF IInv, CallInv, CallFact
  <1>1. CASE Crash
    BY <1>1 DEF Crash, CallFact, PastSigned, Accepted
  <1>2. (pc'[c] = pc[c] /\ cintent'[c] = cintent[c] /\ csig'[c] = csig[c]) \/ Crash
    <2>1. ASSUME NEW d \in Calls, d # c,
                 CallStep(d) \/ \E i \in Intents : Submit(d, i)
          PROVE  pc'[c] = pc[c] /\ cintent'[c] = cintent[c] /\ csig'[c] = csig[c]
      BY <1>t, <2>1 DEF TypeOK, CallStep, Submit, TakeBlockhash, BuildError, BuildAbandoned,
           Sign, SignRejected, HandleError, MarkSubmitted, Broadcast, RouteAcked,
           RouteRejected, PollConfirmed, PollExecutionFailed, PollGaveUp, Reconcile,
           ReconcileUnavailable, Goto
    <2>2. CASE RecoveryStep
      BY <2>2 DEF RecoveryStep, ListPending, CancelUnsent, ObserveSubmitted,
           ReconcileListed, WaitFound, CheckHeight, Rebroadcast, RebroadcastResult,
           PollRebroadcast, ReconcileRecovered, RecoveryRpcError, RecoveryReturns
    <2>3. CASE Restart \/ NetworkStep \/ UNCHANGED vars
      BY <2>3 DEF Restart, NetworkStep, Land, Finalize, ForgetAnswer, AdvanceHeight, vars
    <2> QED
      BY <2>1, <2>2, <2>3 DEF Next
  <1>3. CASE ~Crash /\ pc[c] \notin Signing
    BY <1>t, <1>2, <1>3, CallFrame
  <1>4. CASE ~Crash /\ pc[c] \in Signing
    <2>1. jstate'[cintent[c]] = jstate[cintent[c]]
      <3>1. ASSUME NEW d \in Calls, MarkSubmitted(d), pc[d] \in Signing
            PROVE  jstate'[cintent[c]] = jstate[cintent[c]]
        <4>1. d # c
          BY <3>1 DEF CallStep
        <4>2. cintent[d] # cintent[c]
          BY <1>4, <3>1, <4>1 DEF IInv, OneWinner
        <4> QED
          BY <1>t, <3>1, <4>2 DEF TypeOK, MarkSubmitted
      <3>2. CASE Restart \/ NetworkStep \/ UNCHANGED vars
        BY <3>2 DEF Restart, NetworkStep, Land, Finalize, ForgetAnswer, AdvanceHeight, vars
      <3> QED
        BY <1>4, <3>1, <3>2, LoopIsBusy DEF CallStep
    <2>2. jsig'[cintent[c]] = jsig[cintent[c]]
      BY <1>t, <1>4 DEF CallFact, Progress
    <2> QED
      BY <1>t, <1>2, <1>4, <2>1, <2>2 DEF CallFact, PastSigned, Accepted
  <1> QED
    BY <1>1, <1>3, <1>4

LEMMA CallInvStep ==
  ASSUME IInv, [Next]_vars
  PROVE  CallInv'
  <1> SUFFICES ASSUME NEW c \in Calls
               PROVE  CallFact(c)'
    BY DEF CallInv, CallFact
  <1> QED
    BY CallMoves, CallStays

\* Only store_signed lets a call past signing.
LEMMA OnlySignEnters ==
  ASSUME IInv, [Next]_vars, NEW c \in Calls, pc'[c] \in Signing \cup PastSigned
  PROVE  \/ pc[c] \in Signing \cup PastSigned /\ cintent'[c] = cintent[c]
         \/ Sign(c) /\ cintent'[c] = cintent[c]
  <1>t. TypeOK
    BY DEF IInv
  <1>1. ASSUME NEW d \in Calls, CallStep(d)
        PROVE  pc[c] \in Signing \cup PastSigned \/ Sign(c)
    BY <1>t, <1>1 DEF TypeOK, CallStep, TakeBlockhash, BuildError, BuildAbandoned, Sign,
         SignRejected, HandleError, MarkSubmitted, Broadcast, RouteAcked, RouteRejected,
         PollConfirmed, PollExecutionFailed, PollGaveUp, Reconcile, ReconcileUnavailable,
         Goto, PastSigned, Accepted
  <1>2. ASSUME NEW d \in Calls, CallStep(d)
        PROVE  cintent' = cintent
    BY <1>2 DEF CallStep, TakeBlockhash, BuildError, BuildAbandoned, Sign, SignRejected,
         MarkSubmitted, Broadcast, RouteAcked, RouteRejected, PollConfirmed,
         PollExecutionFailed, PollGaveUp, Reconcile, ReconcileUnavailable
  <1>3. ASSUME NEW d \in Calls, NEW i \in Intents, Submit(d, i)
        PROVE  pc[c] \in Signing \cup PastSigned /\ cintent'[c] = cintent[c]
    BY <1>t, <1>3 DEF TypeOK, Submit, Goto, PastSigned, Accepted
  <1>4. CASE RecoveryStep \/ Restart \/ NetworkStep \/ UNCHANGED vars
    BY <1>4 DEF RecoveryStep, ListPending, CancelUnsent, ObserveSubmitted,
         ReconcileListed, WaitFound, CheckHeight, Rebroadcast, RebroadcastResult,
         PollRebroadcast, ReconcileRecovered, RecoveryRpcError, RecoveryReturns,
         Restart, NetworkStep, Land, Finalize, ForgetAnswer, AdvanceHeight, vars
  <1>5. CASE Crash
    BY <1>5 DEF Crash, PastSigned, Accepted
  <1> QED
    BY <1>1, <1>2, <1>3, <1>4, <1>5 DEF Next

LEMMA WinnerStep ==
  ASSUME IInv, [Next]_vars
  PROVE  OneWinner'
  <1> DEFINE Past == Signing \cup PastSigned
  <1>t. TypeOK /\ CallInv /\ OneWinner
    BY DEF IInv
  <1> SUFFICES ASSUME NEW c \in Calls, NEW d \in Calls, c # d,
                      pc'[c] \in Past, pc'[d] \in Past, cintent'[c] = cintent'[d]
               PROVE  FALSE
    BY DEF OneWinner, PastSigned, Accepted
  <1>1. ASSUME NEW a \in Calls, NEW b \in Calls, a # b, Sign(a),
               pc'[b] \in Past, cintent'[a] = cintent'[b]
        PROVE  FALSE
    <2>1. jstate[cintent[a]] = "INTENT" /\ cintent' = cintent /\ pc'[b] = pc[b]
      BY <1>t, <1>1, MoveFacts DEF TypeOK, Sign, Goto
    <2>2. jstate[cintent[b]] = "SIGNED" \/ MayBeOut(cintent[b])
      BY <1>t, <1>1, <2>1 DEF CallInv
    <2> QED
      BY <1>1, <2>1, <2>2 DEF MayBeOut
  <1>2. CASE Sign(c) \/ Sign(d)
    BY <1>1, <1>2
  <1>3. CASE ~Sign(c) /\ ~Sign(d)
    <2>1. pc[c] \in Past /\ pc[d] \in Past /\ cintent[c] = cintent[d]
      BY <1>3, OnlySignEnters
    <2> QED
      BY <1>t, <2>1 DEF OneWinner, PastSigned, Accepted
  <1> QED
    BY <1>2, <1>3

\* Outside list_recovery_pending the work list of recovery only shrinks.
LEMMA TodoFrame ==
  ASSUME [Next]_vars, ~ListPending, ~Crash
  PROVE  snap' = snap /\ todo' \subseteq todo
  <1>1. CASE RecoveryStep
    BY <1>1 DEF RecoveryStep, CancelUnsent, ObserveSubmitted, FinishLanding,
         ReconcileListed, WaitFound, CheckHeight, Rebroadcast, RebroadcastResult,
         PollRebroadcast, ReconcileRecovered, RecoveryRpcError, RecoveryReturns,
         Resolved, Raised
  <1>2. ASSUME NEW c \in Calls, CallStep(c) \/ \E i \in Intents : Submit(c, i)
        PROVE  UNCHANGED recoveryVars
    BY <1>2 DEF Submit, CallStep, TakeBlockhash, BuildError, BuildAbandoned, Sign,
         SignRejected, MarkSubmitted, Broadcast, RouteAcked, RouteRejected, PollConfirmed,
         PollExecutionFailed, PollGaveUp, Reconcile, ReconcileUnavailable
  <1>3. CASE Restart \/ NetworkStep \/ UNCHANGED vars
    BY <1>3 DEF Restart, NetworkStep, Land, Finalize, ForgetAnswer, AdvanceHeight, vars
  <1> QED
    BY <1>1, <1>2, <1>3 DEF Next

LEMMA TodoStep ==
  ASSUME IInv, [Next]_vars
  PROVE  TodoInv'
  <1>t. TypeOK /\ RecordInv /\ TodoInv /\ Progress
    BY ProgressNext DEF IInv
  <1>1. CASE ListPending
    BY <1>t, <1>1 DEF TypeOK, RecordInv, TodoInv, ListPending, Landed, MayBeOut
  <1>2. CASE Crash
    BY <1>2 DEF Crash, TodoInv
  <1>3. CASE ~ListPending /\ ~Crash
    <2>1. snap' = snap /\ todo' \subseteq todo
      BY <1>3, TodoFrame
    <2> QED
      BY <1>t, <2>1 DEF TypeOK, TodoInv, Progress
  <1> QED
    BY <1>1, <1>2, <1>3

\* FinishLanding resolves the record for good or goes on to reconcile it.
LEMMA FinishCases ==
  ASSUME IInv, NEW i \in Intents, FinishLanding(i)
  PROVE  \/ Resolved(i) /\ jstate'[i] = "FAILED"
         \/ rpc' = "reconciling" /\ cur' = i /\ todo' = todo /\ jstate'[i] \in Landed
         \/ Raised
  BY DEF IInv, TypeOK, FinishLanding, Landed

\* Calls, network, crashes and restarts do not touch recovery otherwise.
LEMMA RecoveryFrame ==
  ASSUME [Next]_vars, ~RecoveryStep, ~Crash, ~Restart
  PROVE  UNCHANGED recoveryVars
  <1>1. ASSUME NEW c \in Calls, CallStep(c) \/ \E i \in Intents : Submit(c, i)
        PROVE  UNCHANGED recoveryVars
    BY <1>1 DEF Submit, CallStep, TakeBlockhash, BuildError, BuildAbandoned, Sign,
         SignRejected, MarkSubmitted, Broadcast, RouteAcked, RouteRejected, PollConfirmed,
         PollExecutionFailed, PollGaveUp, Reconcile, ReconcileUnavailable
  <1>2. CASE NetworkStep \/ UNCHANGED vars
    BY <1>2 DEF NetworkStep, Land, Finalize, ForgetAnswer, AdvanceHeight, vars
  <1> QED
    BY <1>1, <1>2 DEF Next

LEMMA CurStep ==
  ASSUME IInv, [Next]_vars
  PROVE  CurInv'
  <1>t. /\ TypeOK /\ TodoInv /\ CurInv /\ Progress
        /\ \A i \in todo : snap[i] \in {"SUBMITTED", "CONFIRMED"} => jsig[i] \in Sigs /\ MayBeOut(i)
        /\ \A i \in todo : snap[i] = "CONFIRMED" => jstate[i] \in Landed
        /\ rpc \in Awaiting \cup {"reconciling"} => cur \in Intents /\ jsig[cur] \in Sigs /\ MayBeOut(cur)
    BY ProgressNext DEF IInv, TodoInv, CurInv
  <1>p. \A i \in Intents : /\ jsig[i] \in Sigs /\ MayBeOut(i) =>
                                jsig'[i] \in Sigs /\ MayBeOut(i)'
                           /\ jstate[i] \in Landed => jstate'[i] \in Landed
    BY <1>t DEF Progress
  <1>1. CASE Crash \/ Restart \/ ListPending
    BY <1>1 DEF Crash, Restart, ListPending, CurInv, Awaiting
  <1>2. ASSUME NEW i \in Intents, CancelUnsent(i)
        PROVE  CurInv'
    BY <1>2 DEF CancelUnsent, Resolved, Raised, CurInv, Awaiting
  <1>3. ASSUME NEW i \in Intents, ObserveSubmitted(i)
        PROVE  CurInv'
    <2>1. /\ snap[i] = "SUBMITTED" /\ snap' = snap
          /\ jsig[i] \in Sigs /\ MayBeOut(i)
      BY <1>t, <1>3 DEF ObserveSubmitted
    <2>2. \/ FinishLanding(i)
          \/ rpc' \in {"waiting", "absent"} /\ cur' = i
      BY <1>3 DEF ObserveSubmitted
    <2> QED
      BY <1>p, <2>1, <2>2, FinishCases DEF CurInv, Awaiting, Resolved, Raised
  <1>4. ASSUME NEW i \in Intents, ReconcileListed(i)
        PROVE  CurInv'
    BY <1>t, <1>p, <1>4 DEF ReconcileListed, CurInv, Awaiting
  <1>5. CASE WaitFound \/ PollRebroadcast
    <2>1. /\ cur \in Intents /\ jsig[cur] \in Sigs /\ MayBeOut(cur)
          /\ snap[cur] = "SUBMITTED" /\ snap' = snap
      BY <1>t, <1>5 DEF WaitFound, PollRebroadcast, CurInv, Awaiting
    <2>2. \/ FinishLanding(cur)
          \/ rpc' = "absent" /\ cur' = cur
          \/ Resolved(cur)
      BY <1>5 DEF WaitFound, PollRebroadcast
    <2> QED
      BY <1>p, <2>1, <2>2, FinishCases DEF CurInv, Awaiting, Resolved, Raised
  <1>6. CASE CheckHeight \/ Rebroadcast \/ RebroadcastResult
    <2>1. /\ cur \in Intents /\ jsig[cur] \in Sigs /\ MayBeOut(cur)
          /\ snap[cur] = "SUBMITTED" /\ snap' = snap
      BY <1>t, <1>6 DEF CheckHeight, Rebroadcast, RebroadcastResult, CurInv, Awaiting
    <2>2. \/ rpc' \in {"routing", "awaitAck", "polling"} /\ cur' = cur
          \/ Resolved(cur) \/ Raised
      BY <1>6 DEF CheckHeight, Rebroadcast, RebroadcastResult
    <2> QED
      BY <1>p, <2>1, <2>2 DEF CurInv, Awaiting, Resolved, Raised
  <1>7. CASE ReconcileRecovered \/ RecoveryRpcError \/ RecoveryReturns
    BY <1>7 DEF ReconcileRecovered, RecoveryRpcError, RecoveryReturns, Resolved, Raised,
                CurInv, Awaiting
  <1>8. CASE ~RecoveryStep /\ ~Crash /\ ~Restart
    BY <1>t, <1>p, <1>8, RecoveryFrame DEF CurInv
  <1> QED
    BY <1>1, <1>2, <1>3, <1>4, <1>5, <1>6, <1>7, <1>8 DEF RecoveryStep

\* Recovery has dealt with the record of i.
DealtWith(i) ==
  \/ jstate[i] \in TerminalStates
  \/ snap[i] = "SUBMITTED" /\ jstate[i] \in {"SUBMITTED", "CONFIRMED"}

LEMMA DealtWithStays ==
  ASSUME IInv, [Next]_vars, NEW i \in Intents, snap' = snap, DealtWith(i)
  PROVE  DealtWith(i)'
  BY JournalMoves, MoveFacts DEF JournalMove, DealtWith

\* A record that leaves the work list has been dealt with.
LEMMA ResolvedIsDealtWith ==
  ASSUME IInv, [Next]_vars, RecoveryStep, ~ListPending,
         NEW i \in todo, i \notin todo'
  PROVE  DealtWith(i)'
  <1>t. /\ TypeOK /\ snap' = snap
        /\ CurInv /\ Progress /\ i \in Intents
    BY ProgressNext, TodoFrame DEF IInv, TypeOK, RecoveryStep, CancelUnsent,
         ObserveSubmitted, ReconcileListed, WaitFound, CheckHeight, Rebroadcast,
         RebroadcastResult, PollRebroadcast, ReconcileRecovered, RecoveryRpcError,
         RecoveryReturns
  <1>2. ASSUME NEW j \in Intents, CancelUnsent(j)
        PROVE  DealtWith(i)'
    BY <1>t, <1>2 DEF TypeOK, CancelUnsent, Resolved, Raised, DealtWith
  <1>3. ASSUME NEW j \in Intents, ObserveSubmitted(j)
        PROVE  DealtWith(i)'
    BY <1>t, <1>3, FinishCases DEF ObserveSubmitted, Resolved, Raised, DealtWith
  <1>4. ASSUME cur = i, cur \in Intents, MayBeOut(cur), snap[cur] = "SUBMITTED"
        PROVE  DealtWith(i)'
    <2>1. DealtWith(i)
      BY <1>4 DEF MayBeOut, DealtWith
    <2> QED
      BY <1>t, <2>1, DealtWithStays
  <1>5. CASE WaitFound \/ PollRebroadcast
    <2>1. cur \in Intents /\ MayBeOut(cur) /\ snap[cur] = "SUBMITTED"
      BY <1>t, <1>5 DEF WaitFound, PollRebroadcast, CurInv, Awaiting
    <2>2. FinishLanding(cur) \/ todo' = todo \/ Resolved(cur)
      BY <1>5 DEF WaitFound, PollRebroadcast
    <2> QED
      BY <1>4, <2>1, <2>2, FinishCases DEF Resolved, Raised
  <1>6. CASE CheckHeight \/ RebroadcastResult
    <2>1. cur \in Intents /\ MayBeOut(cur) /\ snap[cur] = "SUBMITTED"
      BY <1>t, <1>6 DEF CheckHeight, RebroadcastResult, CurInv, Awaiting
    <2>2. todo' = todo \/ Resolved(cur)
      BY <1>6 DEF CheckHeight, RebroadcastResult, Raised
    <2> QED
      BY <1>4, <2>1, <2>2 DEF Resolved
  <1>7. CASE ReconcileRecovered
    BY <1>t, <1>7 DEF TypeOK, ReconcileRecovered, Resolved, Raised, DealtWith
  <1>8. CASE \/ \E j \in Intents : ReconcileListed(j)
             \/ Rebroadcast \/ RecoveryRpcError \/ RecoveryReturns
    BY <1>8 DEF ReconcileListed, Rebroadcast, RecoveryRpcError, RecoveryReturns, Raised
  <1> QED
    BY <1>2, <1>3, <1>5, <1>6, <1>7, <1>8 DEF RecoveryStep

LEMMA ListedStep ==
  ASSUME IInv, [Next]_vars
  PROVE  ListedInv'
  <1>t. TypeOK /\ ListedInv
    BY DEF IInv
  <1>1. CASE ListPending
    BY <1>t, <1>1 DEF TypeOK, ListPending, ListedInv
  <1>2. CASE Crash \/ Restart
    BY <1>2 DEF Crash, Restart, ListedInv, Recovering, Awaiting
  <1>3. CASE RecoveryStep /\ ~ListPending
    <2>1. rpc \in Recovering /\ rpc # "idle"
      BY <1>3 DEF RecoveryStep, CancelUnsent, ObserveSubmitted, ReconcileListed, WaitFound,
           CheckHeight, Rebroadcast, RebroadcastResult, PollRebroadcast,
           ReconcileRecovered, RecoveryRpcError, RecoveryReturns, Recovering, Awaiting
    <2>2. rpc' = "idle" => todo' = {}
      BY <1>3 DEF RecoveryStep, CancelUnsent, ObserveSubmitted, FinishLanding,
           ReconcileListed, WaitFound, CheckHeight, Rebroadcast, RebroadcastResult,
           PollRebroadcast, ReconcileRecovered, RecoveryRpcError, RecoveryReturns,
           Resolved, Raised
    <2>3. snap' = snap
      BY <1>3, TodoFrame DEF RecoveryStep, CancelUnsent, ObserveSubmitted,
           ReconcileListed, WaitFound, CheckHeight, Rebroadcast, RebroadcastResult,
           PollRebroadcast, ReconcileRecovered, RecoveryRpcError, RecoveryReturns
    <2>4. ASSUME NEW i \in Intents, snap[i] \in RecoveryStates
          PROVE  i \in todo' \/ DealtWith(i)'
      <3>1. i \in todo \/ DealtWith(i)
        BY <1>t, <2>1, <2>4 DEF ListedInv, DealtWith
      <3> QED
        BY <1>3, <2>3, <3>1, DealtWithStays, ResolvedIsDealtWith
    <2> QED
      BY <2>2, <2>3, <2>4 DEF ListedInv, DealtWith
  <1>4. CASE ~RecoveryStep /\ ~Crash /\ ~Restart
    <2>1. UNCHANGED recoveryVars
      BY <1>4, RecoveryFrame
    <2>2. ASSUME NEW i \in Intents, rpc \in Recovering, snap[i] \in RecoveryStates
          PROVE  i \in todo \/ DealtWith(i)'
      <3>1. i \in todo \/ DealtWith(i)
        BY <1>t, <2>2 DEF ListedInv, DealtWith
      <3> QED
        BY <2>1, <3>1, DealtWithStays
    <2> QED
      BY <1>t, <2>1, <2>2 DEF ListedInv, DealtWith
  <1> QED
    BY <1>1, <1>2, <1>3, <1>4

LEMMA IInvInit == Init => IInv
  BY TypeInit, HeightAssumption, NoSigNotInSigs
     DEF Init, IInv, OneDurableBroadcast, RecordInv, StoredInv, CallInv, OneWinner,
         TodoInv, CurInv, ListedInv, Landed, Accepted, PastSigned, Awaiting, Recovering

LEMMA IInvNext == IInv /\ [Next]_vars => IInv'
  BY TypeNext, BroadcastStep, RecordStep, StoredStep, CallInvStep, WinnerStep,
     TodoStep, CurStep, ListedStep DEF IInv

LEMMA Inductive == Spec => []IInv
  BY IInvInit, IInvNext, PTL DEF Spec

\* Whatever bytes of an intent are on the chain are the bytes its record
\* stores, and the record says that they may be: store_signed and
\* mark_submitted come first, and no later call or recovery undoes them.
THEOREM OneDurableBroadcastCorrect == Spec => []OneDurableBroadcast
  <1>1. IInv => OneDurableBroadcast
    BY DEF IInv
  <1> QED
    BY <1>1, Inductive, PTL

\* A CONFIRMED or RECONCILED record executed and is final; a FAILED or
\* CANCELLED one never executes successfully.
THEOREM JournalMatchesChainCorrect == Spec => []JournalMatchesChain
  <1>1. IInv => JournalMatchesChain
    <2> SUFFICES ASSUME IInv, NEW i \in Intents
                 PROVE  /\ jstate[i] \in Landed => jsig[i] # NoSig
                                                   /\ chain[i][jsig[i]] = "okFinal"
                        /\ jstate[i] \in {"FAILED", "CANCELLED"} =>
                             \A s \in Sigs : chain[i][s] \notin Took
      BY DEF JournalMatchesChain, Landed
    <2>1. jstate[i] \in Landed => jsig[i] # NoSig /\ chain[i][jsig[i]] = "okFinal"
      BY NoSigNotInSigs DEF IInv, RecordInv, Landed
    <2>2. ASSUME jstate[i] \in {"FAILED", "CANCELLED"}, NEW s \in Sigs,
                 chain[i][s] \in Took
          PROVE  FALSE
      <3>1. jsig[i] = s /\ MayBeOut(i)
        BY <2>2 DEF IInv, OneDurableBroadcast
      <3> QED
        BY <2>2, <3>1 DEF MayBeOut
    <2> QED
      BY <2>1, <2>2
  <1> QED
    BY <1>1, Inductive, PTL

\* However many submit() calls race for one intent, one gets past signing.
THEOREM OneWinnerCorrect == Spec => []OneWinner
  <1>1. IInv => OneWinner
    BY DEF IInv
  <1> QED
    BY <1>1, Inductive, PTL

\* An accepted receipt stands for a final successful execution.
THEOREM AcceptedIsFinalCorrect == Spec => []AcceptedIsFinal
  <1>1. IInv => AcceptedIsFinal
    BY DEF IInv, RecordInv, CallInv, AcceptedIsFinal, Landed, Accepted, PastSigned
  <1> QED
    BY <1>1, Inductive, PTL

\* When recover_pending() returns, what it listed is terminal or submitted.
THEOREM RecoveryLeavesOnlySubmittedCorrect == Spec => []RecoveryLeavesOnlySubmitted
  <1>1. IInv => RecoveryLeavesOnlySubmitted
    BY DEF IInv, ListedInv, Recovering, RecoveryLeavesOnlySubmitted
  <1> QED
    BY <1>1, Inductive, PTL

\* No step changes a terminal record or replaces stored bytes.
THEOREM RecordsAreStableCorrect == Spec => RecordsAreStable
  <1>1. IInv /\ [Next]_vars =>
          [\A i \in Intents :
             /\ jstate[i] \in TerminalStates => jstate'[i] = jstate[i]
             /\ jsig[i] # NoSig => jsig'[i] = jsig[i]]_vars
    BY ProgressNext DEF IInv, TypeOK, Progress
  <1> QED
    BY <1>1, Inductive, PTL DEF Spec, RecordsAreStable

(***************************************************************************)
(* One record moves in a step.                                              *)
(***************************************************************************)

\* A step that moves no record but that of i, and leaves the chain alone.
RecordMoves(i) ==
  chain' = chain /\ \A j \in Intents : j # i => jstate'[j] = jstate[j]

LEMMA CallWrites ==
  ASSUME IInv, NEW c \in Calls, CallStep(c)
  PROVE  UNCHANGED jstate \/ RecordMoves(cintent[c])
  <1>t. TypeOK
    BY DEF IInv
  <1>1. CASE BuildError(c) \/ SignRejected(c) \/ Sign(c) \/ MarkSubmitted(c)
    BY <1>1, <1>t DEF TypeOK, RecordMoves, BuildError, SignRejected, HandleError, Sign,
                      MarkSubmitted
  <1>2. CASE PollConfirmed(c) \/ PollExecutionFailed(c) \/ Reconcile(c)
    BY <1>2, <1>t DEF TypeOK, RecordMoves, PollConfirmed, PollExecutionFailed, Reconcile
  <1>3. CASE \/ \E s \in Sigs : TakeBlockhash(c, s)
             \/ BuildAbandoned(c) \/ Broadcast(c) \/ RouteAcked(c) \/ RouteRejected(c)
             \/ PollGaveUp(c) \/ ReconcileUnavailable(c)
    BY <1>3 DEF TakeBlockhash, BuildAbandoned, Broadcast, RouteAcked, RouteRejected,
                PollGaveUp, ReconcileUnavailable
  <1> QED
    BY <1>1, <1>2, <1>3 DEF CallStep

LEMMA FinishWrites ==
  ASSUME TypeOK, NEW i, FinishLanding(i), chain' = chain
  PROVE  RecordMoves(i)
  BY DEF TypeOK, FinishLanding, RecordMoves

LEMMA RecoveryWrites ==
  ASSUME IInv, RecoveryStep
  PROVE  UNCHANGED jstate \/ \E i : RecordMoves(i)
  <1>t. TypeOK
    BY DEF IInv
  <1>1. ASSUME NEW i \in Intents, CancelUnsent(i)
        PROVE  RecordMoves(i)
    BY <1>1, <1>t DEF TypeOK, RecordMoves, CancelUnsent
  <1>2. ASSUME NEW i \in Intents, ObserveSubmitted(i)
        PROVE  RecordMoves(i)
    <2>1. chain' = chain /\ (FinishLanding(i) \/ UNCHANGED jstate)
      BY <1>2 DEF ObserveSubmitted
    <2> QED
      BY <2>1, <1>t, FinishWrites DEF RecordMoves
  <1>3. CASE WaitFound \/ PollRebroadcast
    <2>1. chain' = chain /\ (FinishLanding(cur) \/ UNCHANGED jstate)
      BY <1>3 DEF WaitFound, PollRebroadcast
    <2> QED
      BY <2>1, <1>t, FinishWrites
  <1>4. CASE CheckHeight \/ ReconcileRecovered
    <2>1. RecordMoves(cur)
      BY <1>4, <1>t DEF TypeOK, RecordMoves, CheckHeight, ReconcileRecovered
    <2> QED
      BY <2>1
  <1>5. CASE \/ ListPending \/ \E j \in Intents : ReconcileListed(j)
             \/ Rebroadcast \/ RebroadcastResult \/ RecoveryRpcError \/ RecoveryReturns
    BY <1>5 DEF ListPending, ReconcileListed, Rebroadcast, RebroadcastResult,
                RecoveryRpcError, RecoveryReturns
  <1> QED
    BY <1>1, <1>2, <1>3, <1>4, <1>5 DEF RecoveryStep

LEMMA OneRecordMoves ==
  ASSUME IInv, [Next]_vars
  PROVE  UNCHANGED jstate \/ \E i : RecordMoves(i)
  <1>t. TypeOK
    BY DEF IInv
  <1>1. ASSUME NEW c \in Calls, CallStep(c)
        PROVE  UNCHANGED jstate \/ \E i : RecordMoves(i)
    BY <1>1, CallWrites
  <1>2. ASSUME NEW c \in Calls, NEW i \in Intents, Submit(c, i)
        PROVE  RecordMoves(i)
    BY <1>2, <1>t DEF TypeOK, RecordMoves, Submit
  <1>3. CASE Crash \/ Restart \/ NetworkStep \/ UNCHANGED vars
    BY <1>3 DEF Crash, Restart, NetworkStep, Land, Finalize, ForgetAnswer, AdvanceHeight,
                vars
  <1> QED
    BY <1>1, <1>2, <1>3, RecoveryWrites DEF Next

(***************************************************************************)
(* SubmitReturns and UnsentDecidedAfterCrash need the fairness of the event *)
(* loop.  What does not: a call and a recovery never go back, so what they  *)
(* have left to do is a number, and every step of theirs lowers it.         *)
(***************************************************************************)

CallWork(c) ==
  CASE pc[c] = "building" -> 7 [] pc[c] = "simulating" -> 6 [] pc[c] = "signed" -> 5
    [] pc[c] = "routing" -> 4 [] pc[c] = "awaitAck" -> 3 [] pc[c] = "polling" -> 2
    [] pc[c] = "reconciling" -> 1 [] OTHER -> 0

\* A submit() under way is at most seven steps of its own from its receipt, and
\* no other call, no recovery, no answer of the chain takes it back: only a
\* crash ends it otherwise (live.py submit).
CallsMoveOn ==
  [][\A c \in Calls :
       pc[c] \notin Receipts =>
         /\ CallWork(c)' <= CallWork(c)
         /\ CallStep(c) => CallWork(c)' < CallWork(c)]_vars

LEMMA CallWorks ==
  ASSUME TypeOK, NEW c \in Calls, CallStep(c)
  PROVE  CallWork(c)' < CallWork(c)
  <1>1. CASE (\E s \in Sigs : TakeBlockhash(c, s)) \/ BuildError(c) \/ BuildAbandoned(c)
    BY <1>1 DEF TakeBlockhash, BuildError, BuildAbandoned, HandleError, Goto, TypeOK, CallWork
  <1>2. CASE Sign(c) \/ SignRejected(c) \/ MarkSubmitted(c)
    BY <1>2 DEF Sign, SignRejected, MarkSubmitted, HandleError, Goto, TypeOK, CallWork
  <1>3. CASE Broadcast(c) \/ RouteAcked(c) \/ RouteRejected(c)
    BY <1>3 DEF Broadcast, RouteAcked, RouteRejected, Goto, TypeOK, CallWork
  <1>4. CASE PollConfirmed(c) \/ PollExecutionFailed(c) \/ PollGaveUp(c)
    BY <1>4 DEF PollConfirmed, PollExecutionFailed, PollGaveUp, Goto, TypeOK, CallWork
  <1>5. CASE Reconcile(c) \/ ReconcileUnavailable(c)
    BY <1>5 DEF Reconcile, ReconcileUnavailable, Goto, TypeOK, CallWork
  <1> QED
    BY <1>1, <1>2, <1>3, <1>4, <1>5 DEF CallStep

\* Nobody else moves a call that has not returned.
LEMMA CallKept ==
  ASSUME TypeOK, [Next]_vars, NEW c \in Calls, pc[c] \notin Receipts, ~CallStep(c)
  PROVE  pc'[c] = pc[c] \/ Crash
  <1>1. ASSUME NEW d \in Calls, CallStep(d)
        PROVE  pc'[c] = pc[c]
    <2>1. d # c /\ \E label : Goto(d, label)
      BY <1>1 DEF CallStep, TakeBlockhash, BuildError, BuildAbandoned, HandleError, Sign,
           SignRejected, MarkSubmitted, Broadcast, RouteAcked, RouteRejected,
           PollConfirmed, PollExecutionFailed, PollGaveUp, Reconcile, ReconcileUnavailable
    <2> QED
      BY <2>1 DEF Goto, TypeOK
  <1>2. ASSUME NEW d \in Calls, NEW i \in Intents, Submit(d, i)
        PROVE  pc'[c] = pc[c]
    BY <1>2 DEF Submit, Goto, TypeOK
  <1>3. CASE RecoveryStep
    BY <1>3 DEF RecoveryStep, ListPending, CancelUnsent, ObserveSubmitted, ReconcileListed,
         WaitFound, CheckHeight, Rebroadcast, RebroadcastResult, PollRebroadcast,
         ReconcileRecovered, RecoveryRpcError, RecoveryReturns
  <1>4. CASE Restart \/ NetworkStep \/ UNCHANGED vars
    BY <1>4 DEF Restart, NetworkStep, Land, Finalize, ForgetAnswer, AdvanceHeight, vars
  <1> QED
    BY <1>1, <1>2, <1>3, <1>4 DEF Next

\* Whatever interleaves, a submit() only moves towards its receipt.
THEOREM CallsMoveOnCorrect == Spec => CallsMoveOn
  <1>1. ASSUME TypeOK, [Next]_vars
        PROVE  [\A c \in Calls :
                  pc[c] \notin Receipts =>
                    /\ CallWork(c)' <= CallWork(c)
                    /\ CallStep(c) => CallWork(c)' < CallWork(c)]_vars
    <2> SUFFICES ASSUME NEW c \in Calls, pc[c] \notin Receipts
                 PROVE  /\ CallWork(c)' <= CallWork(c)
                        /\ CallStep(c) => CallWork(c)' < CallWork(c)
      OBVIOUS
    <2>n. CallWork(c) \in 0..7 /\ CallWork(c)' \in 0..7
      BY DEF CallWork
    <2>1. CASE CallStep(c)
      BY <1>1, <2>1, <2>n, CallWorks
    <2>2. CASE ~CallStep(c)
      <3>1. pc'[c] = pc[c] \/ pc'[c] = "idle"
        BY <1>1, <2>2, CallKept DEF Crash
      <3> QED
        BY <2>2, <2>n, <3>1 DEF CallWork
    <2> QED
      BY <2>1, <2>2
  <1> QED
    BY <1>1, TypeCorrect, PTL DEF Spec, CallsMoveOn

(***************************************************************************)
(* The same of recover_pending().  Its list is finite because the journal   *)
(* is: a step adds one record at most, however many intents there may be.   *)
(***************************************************************************)

FiniteInv ==
  IsFiniteSet(todo) /\ IsFiniteSet({i \in Intents : jstate[i] # Absent})

\* Between two records recovery awaits none.
BetweenInv == rpc \in {"down", "starting", "next"} => cur = NoIntent

LEMMA FiniteInit == Init => FiniteInv
  <1> SUFFICES ASSUME Init
               PROVE  FiniteInv
    OBVIOUS
  <1>1. todo = {} /\ {i \in Intents : jstate[i] # Absent} = {}
    BY DEF Init
  <1> QED
    BY <1>1, FS_EmptySet DEF FiniteInv

LEMMA FiniteStep ==
  ASSUME IInv, FiniteInv, [Next]_vars
  PROVE  FiniteInv'
  <1> DEFINE Known == {i \in Intents : jstate[i] # Absent}
  <1>1. IsFiniteSet(Known')
    <2>1. CASE UNCHANGED jstate
      <3>1. Known' = Known
        BY <2>1
      <3> QED
        BY <3>1 DEF FiniteInv
    <2>2. ASSUME NEW i, RecordMoves(i)
          PROVE  IsFiniteSet(Known')
      <3>1. Known' \subseteq Known \cup {i}
        BY <2>2 DEF RecordMoves
      <3>2. IsFiniteSet(Known \cup {i})
        BY FS_AddElement DEF FiniteInv
      <3> QED
        BY <3>1, <3>2, FS_Subset
    <2> QED
      BY <2>1, <2>2, OneRecordMoves
  <1>2. IsFiniteSet(todo')
    <2>1. CASE ListPending
      <3>1. todo' \subseteq Known
        BY <2>1 DEF ListPending
      <3> QED
        BY <3>1, FS_Subset DEF FiniteInv
    <2>2. CASE Crash
      BY <2>2, FS_EmptySet DEF Crash
    <2>3. CASE ~ListPending /\ ~Crash
      BY <2>3, TodoFrame, FS_Subset DEF FiniteInv
    <2> QED
      BY <2>1, <2>2, <2>3
  <1> QED
    BY <1>1, <1>2 DEF FiniteInv

LEMMA BetweenStep ==
  ASSUME IInv, BetweenInv, [Next]_vars
  PROVE  BetweenInv'
  <1>1. CASE Crash \/ Restart \/ ListPending
    BY <1>1 DEF Crash, Restart, ListPending, BetweenInv
  <1>2. ASSUME NEW i \in Intents, CancelUnsent(i) \/ ObserveSubmitted(i) \/ ReconcileListed(i)
        PROVE  BetweenInv'
    BY <1>2, FinishCases
    DEF CancelUnsent, ObserveSubmitted, ReconcileListed, Resolved, Raised, BetweenInv
  <1>3. CASE WaitFound \/ PollRebroadcast
    <2>1. FinishLanding(cur) \/ rpc' = "absent" \/ Resolved(cur)
      BY <1>3 DEF WaitFound, PollRebroadcast
    <2>2. FinishLanding(cur) => Resolved(cur) \/ rpc' \in {"reconciling", "raised"}
      BY <1>3 DEF FinishLanding, Raised
    <2> QED
      BY <2>1, <2>2 DEF Resolved, BetweenInv
  <1>4. CASE CheckHeight \/ Rebroadcast \/ RebroadcastResult \/ ReconcileRecovered
    BY <1>4 DEF CheckHeight, Rebroadcast, RebroadcastResult, ReconcileRecovered,
                Resolved, Raised, BetweenInv
  <1>5. CASE RecoveryRpcError \/ RecoveryReturns
    BY <1>5 DEF RecoveryRpcError, RecoveryReturns, Raised, BetweenInv
  <1>6. CASE ~RecoveryStep /\ ~Crash /\ ~Restart
    BY <1>6, RecoveryFrame DEF BetweenInv
  <1> QED
    BY <1>1, <1>2, <1>3, <1>4, <1>5, <1>6 DEF RecoveryStep

\* What is left to do of the record recovery awaits on, and of its list.
RecordWork(label) ==
  CASE label = "waiting" -> 6 [] label = "absent" -> 5 [] label = "routing" -> 4
    [] label = "awaitAck" -> 3 [] label = "polling" -> 2 [] label = "reconciling" -> 1
    [] OTHER -> 0

Recovers == rpc \in Awaiting \cup {"next", "reconciling"}

RecoveryWork ==
  IF Recovers THEN 7 * Cardinality(todo \ {cur}) + RecordWork(rpc) + 1 ELSE 0

\* A recover_pending() that listed n records returns or raises within 7n + 1
\* steps of its own, whatever the calls, the sender and the chain do meanwhile:
\* no record is taken up twice (live.py recover_pending).
RecoveryMovesOn ==
  [][Recovers =>
       /\ RecoveryWork' <= RecoveryWork
       /\ RecoveryStep => RecoveryWork' < RecoveryWork]_vars

LEMMA RecoveryCounts ==
  ASSUME TypeOK, FiniteInv
  PROVE  /\ \A S : S \subseteq todo => Cardinality(S) \in Nat
         /\ \A i \in todo : Cardinality(todo \ {i}) = Cardinality(todo) - 1
         /\ \A i : Cardinality(todo \ {i}) <= Cardinality(todo)
         /\ \A label : RecordWork(label) \in 0..6
  <1>1. \A S : S \subseteq todo => IsFiniteSet(S) /\ Cardinality(S) \in Nat
    BY FS_Subset, FS_CardinalityType DEF FiniteInv
  <1>2. \A i \in todo : Cardinality(todo \ {i}) = Cardinality(todo) - 1
    BY FS_RemoveElement DEF FiniteInv
  <1>3. \A i : Cardinality(todo \ {i}) <= Cardinality(todo)
    BY FS_Subset DEF FiniteInv
  <1>4. \A label : RecordWork(label) \in 0..6
    BY DEF RecordWork
  <1> QED
    BY <1>1, <1>2, <1>3, <1>4

\* The record awaited is resolved, or reconciled later than it was awaited.
LEMMA AwaitedWorks ==
  ASSUME TypeOK, FiniteInv, Recovers, rpc # "next",
         \/ Resolved(cur) \/ rpc' = "raised"
         \/ /\ cur' = cur /\ todo' = todo /\ rpc' \in Awaiting \cup {"reconciling"}
            /\ RecordWork(rpc') < RecordWork(rpc)
  PROVE  RecoveryWork' < RecoveryWork
  <1>n. /\ Cardinality(todo \ {cur}) \in Nat /\ RecordWork(rpc) \in 1..6
        /\ RecordWork(rpc') \in 0..6
    <2>1. RecordWork(rpc) # 0
      BY DEF Recovers, Awaiting, RecordWork
    <2> QED
      BY <2>1, RecoveryCounts
  <1>w. RecoveryWork = 7 * Cardinality(todo \ {cur}) + RecordWork(rpc) + 1
    BY DEF RecoveryWork
  <1>1. CASE Resolved(cur)
    <2>1. todo' \ {cur'} = todo \ {cur} /\ rpc' = "next"
      BY <1>1, NoIntentAssumption DEF Resolved, TypeOK
    <2>2. RecoveryWork' = 7 * Cardinality(todo \ {cur}) + 0 + 1
      BY <2>1 DEF RecoveryWork, Recovers, RecordWork
    <2> QED
      BY <2>2, <1>n, <1>w
  <1>2. CASE rpc' = "raised"
    <2>1. RecoveryWork' = 0
      BY <1>2 DEF RecoveryWork, Recovers, Awaiting
    <2> QED
      BY <2>1, <1>n, <1>w
  <1>3. CASE /\ cur' = cur /\ todo' = todo /\ rpc' \in Awaiting \cup {"reconciling"}
             /\ RecordWork(rpc') < RecordWork(rpc)
    <2>1. RecoveryWork' = 7 * Cardinality(todo \ {cur}) + RecordWork(rpc') + 1
      BY <1>3 DEF RecoveryWork, Recovers
    <2> QED
      BY <2>1, <1>3, <1>n, <1>w
  <1> QED
    BY <1>1, <1>2, <1>3

\* The next record of the list is taken up, or is resolved at once.
LEMMA NextWorks ==
  ASSUME TypeOK, FiniteInv, BetweenInv, rpc = "next", NEW i \in todo,
         \/ Resolved(i) \/ rpc' = "raised"
         \/ cur' = i /\ todo' = todo /\ rpc' \in Awaiting \cup {"reconciling"}
  PROVE  RecoveryWork' < RecoveryWork
  <1>n. /\ Cardinality(todo) \in Nat /\ Cardinality(todo \ {i}) \in Nat
        /\ Cardinality(todo \ {i}) = Cardinality(todo) - 1 /\ RecordWork(rpc') \in 0..6
    BY RecoveryCounts
  <1>w. RecoveryWork = 7 * Cardinality(todo) + 0 + 1
    <2>1. todo \ {cur} = todo
      BY NoIntentAssumption DEF BetweenInv, TypeOK
    <2> QED
      BY <2>1 DEF RecoveryWork, Recovers, RecordWork
  <1>1. CASE Resolved(i)
    <2>1. todo' \ {cur'} = todo \ {i} /\ rpc' = "next"
      BY <1>1, NoIntentAssumption DEF Resolved, TypeOK
    <2>2. RecoveryWork' = 7 * Cardinality(todo \ {i}) + 0 + 1
      BY <2>1 DEF RecoveryWork, Recovers, RecordWork
    <2> QED
      BY <2>2, <1>n, <1>w
  <1>2. CASE rpc' = "raised"
    <2>1. RecoveryWork' = 0
      BY <1>2 DEF RecoveryWork, Recovers, Awaiting
    <2> QED
      BY <2>1, <1>n, <1>w
  <1>3. CASE cur' = i /\ todo' = todo /\ rpc' \in Awaiting \cup {"reconciling"}
    <2>1. RecoveryWork' = 7 * Cardinality(todo \ {i}) + RecordWork(rpc') + 1
      BY <1>3 DEF RecoveryWork, Recovers
    <2> QED
      BY <2>1, <1>n, <1>w
  <1> QED
    BY <1>1, <1>2, <1>3

LEMMA RecoveryWorks ==
  ASSUME IInv, FiniteInv, BetweenInv, RecoveryStep, Recovers
  PROVE  RecoveryWork' < RecoveryWork
  <1>t. TypeOK
    BY DEF IInv
  <1>1. ASSUME NEW i \in Intents, CancelUnsent(i) \/ ObserveSubmitted(i) \/ ReconcileListed(i)
        PROVE  RecoveryWork' < RecoveryWork
    <2>1. rpc = "next" /\ i \in todo
      BY <1>1 DEF CancelUnsent, ObserveSubmitted, ReconcileListed
    <2>2. \/ Resolved(i) \/ rpc' = "raised"
          \/ cur' = i /\ todo' = todo /\ rpc' \in Awaiting \cup {"reconciling"}
      BY <1>1, FinishCases
      DEF CancelUnsent, ObserveSubmitted, ReconcileListed, Raised, Awaiting
    <2> QED
      BY <1>t, <2>1, <2>2, NextWorks
  <1>2. CASE WaitFound \/ PollRebroadcast
    <2>1. /\ rpc \in {"waiting", "polling"}
          /\ \/ FinishLanding(cur) \/ Resolved(cur)
             \/ rpc = "waiting" /\ rpc' = "absent" /\ cur' = cur /\ todo' = todo
      BY <1>2 DEF WaitFound, PollRebroadcast
    <2>2. ASSUME FinishLanding(cur)
          PROVE  \/ Resolved(cur) \/ rpc' = "raised"
                 \/ rpc' = "reconciling" /\ cur' = cur /\ todo' = todo
      <3>1. cur \in Intents
        BY <2>1 DEF IInv, CurInv, Awaiting
      <3>2. \/ Resolved(cur)
            \/ rpc' = "reconciling" /\ cur' = cur /\ todo' = todo
            \/ Raised
        BY <2>2, <3>1, FinishCases
      <3> QED
        BY <3>2 DEF Raised
    <2>3. \/ Resolved(cur) \/ rpc' = "raised"
          \/ /\ cur' = cur /\ todo' = todo /\ rpc' \in Awaiting \cup {"reconciling"}
             /\ RecordWork(rpc') < RecordWork(rpc)
      BY <2>1, <2>2 DEF RecordWork, Awaiting
    <2> QED
      BY <1>t, <2>1, <2>3, AwaitedWorks
  <1>3. CASE CheckHeight \/ Rebroadcast \/ RebroadcastResult \/ ReconcileRecovered
    <2>1. /\ rpc # "next"
          /\ \/ Resolved(cur) \/ rpc' = "raised"
             \/ /\ cur' = cur /\ todo' = todo
                /\ \/ rpc = "absent" /\ rpc' = "routing"
                   \/ rpc = "routing" /\ rpc' = "awaitAck"
                   \/ rpc = "awaitAck" /\ rpc' = "polling"
      BY <1>3 DEF CheckHeight, Rebroadcast, RebroadcastResult, ReconcileRecovered, Raised
    <2>2. \/ Resolved(cur) \/ rpc' = "raised"
          \/ /\ cur' = cur /\ todo' = todo /\ rpc' \in Awaiting \cup {"reconciling"}
             /\ RecordWork(rpc') < RecordWork(rpc)
      BY <2>1 DEF RecordWork, Awaiting
    <2> QED
      BY <1>t, <2>1, <2>2, AwaitedWorks
  <1>4. CASE RecoveryRpcError \/ RecoveryReturns
    <2>1. RecoveryWork' = 0
      BY <1>4 DEF RecoveryRpcError, RecoveryReturns, Raised, RecoveryWork, Recovers, Awaiting
    <2>2. RecoveryWork > 0
      <3>1. Cardinality(todo \ {cur}) \in Nat /\ RecordWork(rpc) \in 0..6
        BY <1>t, RecoveryCounts
      <3> QED
        BY <3>1 DEF RecoveryWork
    <2> QED
      BY <2>1, <2>2
  <1>5. CASE ListPending
    BY <1>5 DEF ListPending, Recovers, Awaiting
  <1> QED
    BY <1>1, <1>2, <1>3, <1>4, <1>5 DEF RecoveryStep

\* However the sender answers and the calls race it, recovery goes through its
\* list once.
THEOREM RecoveryMovesOnCorrect == Spec => RecoveryMovesOn
  <1>1. Init => BetweenInv
    BY DEF Init, BetweenInv
  <1>2. ASSUME IInv, FiniteInv, BetweenInv, [Next]_vars
        PROVE  [Recovers =>
                  /\ RecoveryWork' <= RecoveryWork
                  /\ RecoveryStep => RecoveryWork' < RecoveryWork]_vars
    <2> SUFFICES ASSUME Recovers
                 PROVE  /\ RecoveryWork' <= RecoveryWork
                        /\ RecoveryStep => RecoveryWork' < RecoveryWork
      OBVIOUS
    <2>n. RecoveryWork \in Nat
      <3>1. Cardinality(todo \ {cur}) \in Nat /\ RecordWork(rpc) \in 0..6
        BY <1>2, RecoveryCounts DEF IInv
      <3> QED
        BY <3>1 DEF RecoveryWork
    <2>1. CASE RecoveryStep
      <3>1. RecoveryWork' < RecoveryWork
        BY <1>2, <2>1, RecoveryWorks
      <3>2. RecoveryWork' \in Nat
        <4>1. todo' \subseteq todo
          <5>1. ~ListPending
            BY DEF ListPending, Recovers, Awaiting
          <5>2. Crash => todo' = {}
            BY DEF Crash
          <5> QED
            BY <1>2, <5>1, <5>2, TodoFrame
        <4>2. Cardinality(todo' \ {cur'}) \in Nat /\ RecordWork(rpc') \in 0..6
          BY <1>2, <4>1, RecoveryCounts DEF IInv
        <4> QED
          BY <4>2 DEF RecoveryWork
      <3> QED
        BY <3>1, <3>2, <2>n
    <2>2. CASE Crash /\ ~RecoveryStep
      BY <2>2, <2>n DEF Crash, RecoveryWork, Recovers, Awaiting
    <2>3. CASE ~RecoveryStep /\ ~Crash
      <3>1. ~Restart
        BY DEF Restart, Recovers, Awaiting
      <3>2. UNCHANGED recoveryVars
        BY <1>2, <2>3, <3>1, RecoveryFrame
      <3>3. RecoveryWork' = RecoveryWork
        BY <3>2 DEF RecoveryWork, Recovers, RecordWork
      <3> QED
        BY <2>3, <2>n, <3>3
    <2> QED
      BY <2>1, <2>2, <2>3
  <1>3. IInv /\ FiniteInv /\ BetweenInv /\ [Next]_vars => FiniteInv' /\ BetweenInv'
    BY FiniteStep, BetweenStep
  <1> QED
    BY <1>1, <1>2, <1>3, FiniteInit, Inductive, PTL DEF Spec, RecoveryMovesOn
=============================================================================
