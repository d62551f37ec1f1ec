---------------------------- MODULE LiveExecution ----------------------------
(***************************************************************************)
(* LivePumpExecutionPort (execution/live.py) over its durable journal, one  *)
(* sender route and the chain.  Concurrent submit() calls are tasks of one  *)
(* asyncio loop: an action is the code between two awaits.  The process may *)
(* crash between any two actions; only the journal and the chain survive.   *)
(*                                                                          *)
(* A signed transaction is named by the block height of the blockhash it    *)
(* was built on, so the same intent signed twice on one cached blockhash is *)
(* the same bytes and signed on two blockhashes is two transactions.        *)
(* Timestamps are abstracted: whether a repeated mark_* call carries the    *)
(* same millisecond as the stored one is a nondeterministic choice.         *)
(***************************************************************************)
EXTENDS JournalStates, Naturals

CONSTANTS
  Intents,     \* execution intents, by intent_id
  Calls,       \* concurrent submit() calls the process can hold
  MaxHeight,   \* bound on the block height
  Validity,    \* blocks a blockhash stays valid
  MaxCrashes,  \* bound on process crashes
  NoSig,       \* no signed bytes
  NoIntent     \* no intent

ASSUME HeightAssumption == MaxHeight \in Nat /\ Validity \in Nat
ASSUME CrashAssumption == MaxCrashes \in Nat
ASSUME NoSigAssumption == NoSig \notin 0..MaxHeight
ASSUME NoIntentAssumption == NoIntent \notin Intents

Sigs == 0..MaxHeight

LastValid(s) == s + Validity

VARIABLES
  jstate,    \* journal: state column of each intent
  jsig,      \* journal: signed bytes, signature and last valid height
  chain,     \* what the network knows of each signed transaction
  height,    \* processed block height
  stored,    \* getSignatureStatuses answers held by the RPC response cache
  pc,        \* where each submit() call is, or the receipt it returned
  cintent,   \* the intent a call executes
  csig,      \* the bytes a call built
  rpc,       \* where the process and its recover_pending() are
  snap,      \* journal states read by list_recovery_pending()
  todo,      \* pending records recover_pending() has not resolved yet
  cur,       \* the record recover_pending() is awaiting on
  crashes    \* crashes so far

journalVars  == <<jstate, jsig>>
callVars     == <<pc, cintent, csig>>
recoveryVars == <<rpc, snap, todo, cur>>
networkVars  == <<chain, height, stored>>
vars == <<jstate, jsig, chain, height, stored, pc, cintent, csig,
          rpc, snap, todo, cur, crashes>>

\* unsent: no sender was handed the bytes; flight: sent, not in a block;
\* okSeen, errSeen: executed in a block that is not final yet.
TxStatus == {"unsent", "flight", "okSeen", "errSeen", "okFinal", "errFinal"}
Final    == {"okFinal", "errFinal"}
Seen     == {"okSeen", "errSeen"}
Took     == {"okSeen", "okFinal"}

\* A status answer; no answer is stored until one is asked for.
Answer == {"absent", "seen"} \cup Final

\* Receipts: refused (intent already past INTENT), failed (not accepted),
\* accepted, and accepted with the exact reconciliation still pending.
Receipts == {"idle", "refused", "failed", "accepted", "acceptedPending"}
Building == {"building", "simulating"}
Signing  == {"signed"}
OnWire   == {"routing", "awaitAck", "polling", "reconciling"}
CallPc   == Receipts \cup Building \cup Signing \cup OnWire

RecoveryPc ==
  {"down", "starting", "next", "waiting", "absent", "routing",
   "awaitAck", "polling", "reconciling", "raised", "idle"}

TypeOK ==
  /\ jstate \in [Intents -> JournalState]
  /\ jsig \in [Intents -> Sigs \cup {NoSig}]
  /\ chain \in [Intents -> [Sigs -> TxStatus]]
  /\ height \in Sigs
  /\ stored \in [Intents -> [Sigs -> Answer \cup {"none"}]]
  /\ pc \in [Calls -> CallPc]
  /\ cintent \in [Calls -> Intents \cup {NoIntent}]
  /\ csig \in [Calls -> Sigs \cup {NoSig}]
  /\ rpc \in RecoveryPc
  /\ snap \in [Intents -> JournalState]
  /\ todo \in SUBSET Intents
  /\ cur \in Intents \cup {NoIntent}
  /\ crashes \in 0..MaxCrashes

Init ==
  /\ jstate = [i \in Intents |-> Absent]
  /\ jsig = [i \in Intents |-> NoSig]
  /\ chain = [i \in Intents |-> [s \in Sigs |-> "unsent"]]
  /\ height = 0
  /\ stored = [i \in Intents |-> [s \in Sigs |-> "none"]]
  /\ pc = [c \in Calls |-> "idle"]
  /\ cintent = [c \in Calls |-> NoIntent]
  /\ csig = [c \in Calls |-> NoSig]
  /\ rpc = "starting"
  /\ snap = [i \in Intents |-> Absent]
  /\ todo = {}
  /\ cur = NoIntent
  /\ crashes = 0

(***************************************************************************)
(* submit()                                                                 *)
(***************************************************************************)

\* There is no await between store_signed and mark_submitted: while a call
\* stands between them no other task of the event loop runs.
LoopFree == \A c \in Calls : pc[c] \notin Signing

Running == rpc # "down" /\ LoopFree

Goto(c, label) == pc' = [pc EXCEPT ![c] = label]

\* Mutant: the error class is written to the state column.
HandleErrorBadColumn(c) ==
  /\ jstate' = [jstate EXCEPT ![cintent[c]] =
                  IF @ \in UnsentStates THEN "SimulationError" ELSE @]
  /\ UNCHANGED jsig
  /\ Goto(c, "failed")

\* The except clause of submit(): the journal is re-read and an intent that
\* is still unsent is marked FAILED.
HandleError(c) ==
  /\ jstate' = [jstate EXCEPT ![cintent[c]] =
                  IF @ \in UnsentStates THEN "FAILED" ELSE @]
  /\ UNCHANGED jsig
  /\ Goto(c, "failed")

\* Mutant: a failed intent may be executed again under its own id.
SubmitRetriesFailed(c, i) ==
  /\ Running
  /\ pc[c] \in Receipts
  /\ jstate' = [jstate EXCEPT ![i] = IF @ \in {Absent, "FAILED"} THEN "INTENT" ELSE @]
  /\ Goto(c, IF jstate'[i] = "INTENT" THEN "building" ELSE "refused")
  /\ cintent' = [cintent EXCEPT ![c] = i]
  /\ csig' = [csig EXCEPT ![c] = NoSig]
  /\ UNCHANGED <<jsig, networkVars, recoveryVars, crashes>>

\* create_intent, and the early return for an intent that is past INTENT.
Submit(c, i) ==
  /\ Running
  /\ pc[c] \in Receipts
  /\ jstate' = [jstate EXCEPT ![i] = IF @ = Absent THEN "INTENT" ELSE @]
  /\ Goto(c, IF jstate[i] \in {Absent, "INTENT"} THEN "building" ELSE "refused")
  /\ cintent' = [cintent EXCEPT ![c] = i]
  /\ csig' = [csig EXCEPT ![c] = NoSig]
  /\ UNCHANGED <<jsig, networkVars, recoveryVars, crashes>>

\* get_cached_blockhash_context: the first blockhash the process fetched is
\* kept until a refresh that is off by default, so it can be of any earlier
\* height.
TakeBlockhash(c, s) ==
  /\ Running
  /\ pc[c] = "building"
  /\ s <= height
  /\ csig' = [csig EXCEPT ![c] = s]
  /\ Goto(c, "simulating")
  /\ UNCHANGED <<journalVars, cintent, networkVars, recoveryVars, crashes>>

\* A validation, account or simulation error reaches the except clause.
BuildError(c) ==
  /\ Running
  /\ pc[c] \in Building
  /\ HandleError(c)
  /\ UNCHANGED <<cintent, csig, networkVars, recoveryVars, crashes>>

\* The context abstains, or an exception the except clause does not name
\* escapes: the journal keeps the INTENT.
BuildAbandoned(c) ==
  /\ Running
  /\ pc[c] \in Building
  /\ Goto(c, "failed")
  /\ UNCHANGED <<journalVars, cintent, csig, networkVars, recoveryVars, crashes>>

\* Mutant: the bytes go to the sender before mark_submitted.
SignAndRoute(c) ==
  /\ Running
  /\ pc[c] = "simulating"
  /\ MayMove(jstate[cintent[c]], "SIGNED")
  /\ jstate' = [jstate EXCEPT ![cintent[c]] = "SIGNED"]
  /\ jsig' = [jsig EXCEPT ![cintent[c]] = csig[c]]
  /\ Goto(c, "routing")
  /\ UNCHANGED <<cintent, csig, networkVars, recoveryVars, crashes>>

\* store_signed, accepted by the journal.
Sign(c) ==
  /\ Running
  /\ pc[c] = "simulating"
  /\ MayMove(jstate[cintent[c]], "SIGNED")
  /\ jstate' = [jstate EXCEPT ![cintent[c]] = "SIGNED"]
  /\ jsig' = [jsig EXCEPT ![cintent[c]] = csig[c]]
  /\ Goto(c, "signed")
  /\ UNCHANGED <<cintent, csig, networkVars, recoveryVars, crashes>>

\* store_signed raises: another call or recovery moved the intent first.
SignRejected(c) ==
  /\ Running
  /\ pc[c] = "simulating"
  /\ ~MayMove(jstate[cintent[c]], "SIGNED")
  /\ HandleError(c)
  /\ UNCHANGED <<cintent, csig, networkVars, recoveryVars, crashes>>

\* mark_submitted, in the same loop turn as store_signed.
MarkSubmitted(c) ==
  /\ rpc # "down"
  /\ pc[c] = "signed"
  /\ MayMove(jstate[cintent[c]], "SUBMITTED")
  /\ jstate' = [jstate EXCEPT ![cintent[c]] = "SUBMITTED"]
  /\ Goto(c, "routing")
  /\ UNCHANGED <<jsig, cintent, csig, networkVars, recoveryVars, crashes>>

\* The bytes of s reach the network; repeating them changes nothing.
Send(i, s) ==
  chain' = [chain EXCEPT ![i][s] = IF @ = "unsent" THEN "flight" ELSE @]

\* What the chain says of a signature, and what post_rpc answers: a stored
\* answer if the cache holds one, which Look leaves there.
Status(i, s) ==
  CASE chain[i][s] \in {"unsent", "flight"} -> "absent"
    [] chain[i][s] \in Seen -> "seen"
    [] chain[i][s] \in Final -> chain[i][s]

Answered(i, s) == IF stored[i][s] = "none" THEN Status(i, s) ELSE stored[i][s]

Look(i, s) == stored' = [stored EXCEPT ![i][s] = Answered(i, s)]

\* route(): the sender puts the bytes on the wire...
Broadcast(c) ==
  /\ Running
  /\ pc[c] = "routing"
  /\ Send(cintent[c], csig[c])
  /\ Goto(c, "awaitAck")
  /\ UNCHANGED <<journalVars, cintent, csig, height, stored, recoveryVars, crashes>>

\* ... and acknowledges them,
RouteAcked(c) ==
  /\ Running
  /\ pc[c] = "awaitAck"
  /\ Goto(c, "polling")
  /\ UNCHANGED <<journalVars, cintent, csig, networkVars, recoveryVars, crashes>>

\* Mutant: route again until somebody acknowledges.
RouteRetried(c) ==
  /\ Running
  /\ pc[c] \in {"routing", "awaitAck"}
  /\ Goto(c, "routing")
  /\ UNCHANGED <<journalVars, cintent, csig, networkVars, recoveryVars, crashes>>

\* or returns no acknowledgement or another signature, whether or not the
\* bytes went out: the record stays SUBMITTED.
RouteRejected(c) ==
  /\ Running
  /\ pc[c] \in {"routing", "awaitAck"}
  /\ Goto(c, "failed")
  /\ UNCHANGED <<journalVars, cintent, csig, networkVars, recoveryVars, crashes>>

\* Mutant: a transaction that is only found counts as landed.
PollConfirmedWhenSeen(c) ==
  /\ Running
  /\ pc[c] = "polling"
  /\ Answered(cintent[c], csig[c]) \in {"seen", "okFinal"}
  /\ Look(cintent[c], csig[c])
  /\ MayMove(jstate[cintent[c]], "CONFIRMED")
  /\ jstate' = [jstate EXCEPT ![cintent[c]] = "CONFIRMED"]
  /\ Goto(c, "reconciling")
  /\ UNCHANGED <<jsig, cintent, csig, chain, height, recoveryVars, crashes>>

\* wait_for_finalized_signatures sees the transaction final without error:
\* mark_confirmed moves the record, repeats an equal mark, or raises.  Only the
\* last poll of a wait is modelled: the earlier ones decide nothing.
PollConfirmed(c) ==
  /\ Running
  /\ pc[c] = "polling"
  /\ Answered(cintent[c], csig[c]) = "okFinal"
  /\ Look(cintent[c], csig[c])
  /\ \/ /\ MayMove(jstate[cintent[c]], "CONFIRMED")
        /\ jstate' = [jstate EXCEPT ![cintent[c]] = "CONFIRMED"]
        /\ Goto(c, "reconciling")
     \/ /\ jstate[cintent[c]] = "CONFIRMED"
        /\ Goto(c, "reconciling")
        /\ UNCHANGED jstate
     \/ /\ ~MayMove(jstate[cintent[c]], "CONFIRMED")
        /\ Goto(c, "failed")
        /\ UNCHANGED jstate
  /\ UNCHANGED <<jsig, cintent, csig, chain, height, recoveryVars, crashes>>

\* The transaction is final with an error: mark_failed, and a failed receipt
\* whether or not mark_failed raises.
PollExecutionFailed(c) ==
  /\ Running
  /\ pc[c] = "polling"
  /\ Answered(cintent[c], csig[c]) = "errFinal"
  /\ Look(cintent[c], csig[c])
  /\ jstate' = [jstate EXCEPT ![cintent[c]] =
                  IF MayMove(@, "FAILED") THEN "FAILED" ELSE @]
  /\ Goto(c, "failed")
  /\ UNCHANGED <<jsig, cintent, csig, chain, height, recoveryVars, crashes>>

\* Mutant: a wait that times out marks the intent FAILED.
PollGaveUpAsFailed(c) ==
  /\ Running
  /\ pc[c] = "polling"
  /\ Answered(cintent[c], csig[c]) \notin Final
  /\ Look(cintent[c], csig[c])
  /\ jstate' = [jstate EXCEPT ![cintent[c]] =
                  IF MayMove(@, "FAILED") THEN "FAILED" ELSE @]
  /\ Goto(c, "failed")
  /\ UNCHANGED <<jsig, cintent, csig, chain, height, recoveryVars, crashes>>

\* The poll budget ends on an answer that is not final, or an answer is
\* malformed: failed receipt, and the record stays as it is.
PollGaveUp(c) ==
  /\ Running
  /\ pc[c] = "polling"
  /\ \/ Answered(cintent[c], csig[c]) \notin Final /\ Look(cintent[c], csig[c])
     \/ UNCHANGED stored
  /\ Goto(c, "failed")
  /\ UNCHANGED <<journalVars, cintent, csig, chain, height, recoveryVars, crashes>>

\* reconcile_finalized_landing answers: mark_reconciled moves the record,
\* repeats an equal mark, or raises.
Reconcile(c) ==
  /\ Running
  /\ pc[c] = "reconciling"
  /\ \/ /\ MayMove(jstate[cintent[c]], "RECONCILED")
        /\ jstate' = [jstate EXCEPT ![cintent[c]] = "RECONCILED"]
        /\ Goto(c, "accepted")
     \/ /\ jstate[cintent[c]] = "RECONCILED"
        /\ \E receipt \in {"accepted", "failed"} : Goto(c, receipt)
        /\ UNCHANGED jstate
  /\ UNCHANGED <<jsig, cintent, csig, networkVars, recoveryVars, crashes>>

\* LandingReconciliationError: the receipt is accepted without an output.
ReconcileUnavailable(c) ==
  /\ Running
  /\ pc[c] = "reconciling"
  /\ Goto(c, "acceptedPending")
  /\ UNCHANGED <<journalVars, cintent, csig, networkVars, recoveryVars, crashes>>

(***************************************************************************)
(* recover_pending(): one record after the other, in the order of the list. *)
(* The order itself is abstracted to any order.                             *)
(***************************************************************************)

RecoveryUnchanged == UNCHANGED <<jsig, callVars, crashes>>

\* Mutant: the list forgets signed records.
ListPendingUnsigned ==
  /\ Running
  /\ rpc = "starting"
  /\ snap' = jstate
  /\ todo' = {i \in Intents : jstate[i] \in RecoveryStates \ {"SIGNED"}}
  /\ rpc' = "next"
  /\ UNCHANGED <<jstate, cur, networkVars>>
  /\ RecoveryUnchanged

\* list_recovery_pending.
ListPending ==
  /\ Running
  /\ rpc = "starting"
  /\ snap' = jstate
  /\ todo' = {i \in Intents : jstate[i] \in RecoveryStates}
  /\ rpc' = "next"
  /\ UNCHANGED <<jstate, cur, networkVars>>
  /\ RecoveryUnchanged

\* The record of i is resolved or left as it is; on to the next one.
Resolved(i) == rpc' = "next" /\ todo' = todo \ {i} /\ cur' = NoIntent

\* A store or evidence error leaves recover_pending() and start().
Raised == rpc' = "raised" /\ UNCHANGED <<todo, cur>>

\* Mutant: signed records are skipped instead of cancelled.
CancelOnlyIntents(i) ==
  /\ Running
  /\ rpc = "next" /\ i \in todo
  /\ snap[i] \in UnsentStates
  /\ jstate' = [jstate EXCEPT ![i] = IF @ = "INTENT" THEN "CANCELLED" ELSE @]
  /\ Resolved(i)
  /\ UNCHANGED <<snap, networkVars>>
  /\ RecoveryUnchanged

\* A record that was INTENT or SIGNED in the list: mark_cancelled.
CancelUnsent(i) ==
  /\ Running
  /\ rpc = "next" /\ i \in todo
  /\ snap[i] \in UnsentStates
  /\ \/ /\ MayMove(jstate[i], "CANCELLED")
        /\ jstate' = [jstate EXCEPT ![i] = "CANCELLED"]
        /\ Resolved(i)
     \/ /\ ~MayMove(jstate[i], "CANCELLED")
        /\ Raised
        /\ UNCHANGED jstate
  /\ UNCHANGED <<snap, networkVars>>
  /\ RecoveryUnchanged

\* _finish_recovered_landing of a final transaction: mark_failed, or
\* mark_confirmed and on to the reconciliation.
FinishLanding(i) ==
  \/ /\ Answered(i, jsig[i]) = "errFinal"
     /\ \/ /\ MayMove(jstate[i], "FAILED")
           /\ jstate' = [jstate EXCEPT ![i] = "FAILED"]
           /\ Resolved(i)
        \/ /\ jstate[i] = "FAILED"
           /\ Resolved(i)
           /\ UNCHANGED jstate
  \/ /\ Answered(i, jsig[i]) = "okFinal"
     /\ \/ /\ MayMove(jstate[i], "CONFIRMED")
           /\ jstate' = [jstate EXCEPT ![i] = "CONFIRMED"]
           /\ rpc' = "reconciling" /\ cur' = i /\ UNCHANGED todo
        \/ /\ jstate[i] = "CONFIRMED"
           /\ rpc' = "reconciling" /\ cur' = i /\ UNCHANGED <<jstate, todo>>
        \/ /\ ~MayMove(jstate[i], "CONFIRMED")
           /\ Raised
           /\ UNCHANGED jstate

\* _recover_submitted: the first look at the signature.
ObserveSubmitted(i) ==
  /\ Running
  /\ rpc = "next" /\ i \in todo
  /\ snap[i] = "SUBMITTED"
  /\ Look(i, jsig[i])
  /\ \/ FinishLanding(i)
     \/ /\ Answered(i, jsig[i]) = "seen"
        /\ rpc' = "waiting" /\ cur' = i /\ UNCHANGED <<jstate, todo>>
     \/ /\ Answered(i, jsig[i]) = "absent"
        /\ rpc' = "absent" /\ cur' = i /\ UNCHANGED <<jstate, todo>>
  /\ UNCHANGED <<snap, chain, height>>
  /\ RecoveryUnchanged

\* A transaction found but not final is polled for the whole budget.
WaitFound ==
  /\ Running
  /\ rpc = "waiting"
  /\ Look(cur, jsig[cur])
  /\ \/ FinishLanding(cur)
     \/ /\ Answered(cur, jsig[cur]) \notin Final
        /\ rpc' = "absent"
        /\ UNCHANGED <<jstate, todo, cur>>
  /\ UNCHANGED <<snap, chain, height>>
  /\ RecoveryUnchanged

\* _get_block_height, which may also be a stored answer, after the signature
\* was not seen final: mark_expired past the last valid height, else send the
\* same bytes again.
CheckHeight ==
  /\ Running
  /\ rpc = "absent"
  /\ \/ /\ \E h \in 0..height : h > LastValid(jsig[cur])
        /\ \/ /\ MayMove(jstate[cur], "EXPIRED")
              /\ jstate' = [jstate EXCEPT ![cur] = "EXPIRED"]
              /\ Resolved(cur)
           \/ /\ ~MayMove(jstate[cur], "EXPIRED")
              /\ Raised
              /\ UNCHANGED jstate
     \/ /\ \E h \in 0..height : h <= LastValid(jsig[cur])
        /\ rpc' = "routing"
        /\ UNCHANGED <<jstate, todo, cur>>
  /\ UNCHANGED <<snap, networkVars>>
  /\ RecoveryUnchanged

\* The durable bytes go out again.
Rebroadcast ==
  /\ Running
  /\ rpc = "routing"
  /\ Send(cur, jsig[cur])
  /\ rpc' = "awaitAck"
  /\ UNCHANGED <<jstate, height, stored, snap, todo, cur>>
  /\ RecoveryUnchanged

\* The sender acknowledges; or does not, and the record stays SUBMITTED; or
\* acknowledges another signature, which raises.
RebroadcastResult ==
  /\ Running
  /\ \/ rpc = "awaitAck" /\ rpc' = "polling" /\ UNCHANGED <<todo, cur>>
     \/ rpc \in {"routing", "awaitAck"} /\ Resolved(cur)
     \/ rpc = "awaitAck" /\ Raised
  /\ UNCHANGED <<jstate, snap, networkVars>>
  /\ RecoveryUnchanged

\* The wait after the second send: final, or the record stays SUBMITTED.
PollRebroadcast ==
  /\ Running
  /\ rpc = "polling"
  /\ Look(cur, jsig[cur])
  /\ \/ FinishLanding(cur)
     \/ /\ Answered(cur, jsig[cur]) \notin Final
        /\ Resolved(cur)
        /\ UNCHANGED jstate
  /\ UNCHANGED <<snap, chain, height>>
  /\ RecoveryUnchanged

\* A record that was CONFIRMED in the list goes straight to reconciliation.
ReconcileListed(i) ==
  /\ Running
  /\ rpc = "next" /\ i \in todo
  /\ snap[i] = "CONFIRMED"
  /\ rpc' = "reconciling" /\ cur' = i
  /\ UNCHANGED <<jstate, snap, todo, networkVars>>
  /\ RecoveryUnchanged

\* _reconcile_recovered: mark_reconciled moves the record, repeats an equal
\* mark, or raises.
ReconcileRecovered ==
  /\ Running
  /\ rpc = "reconciling"
  /\ \/ /\ MayMove(jstate[cur], "RECONCILED")
        /\ jstate' = [jstate EXCEPT ![cur] = "RECONCILED"]
        /\ Resolved(cur)
     \/ /\ jstate[cur] = "RECONCILED"
        /\ Resolved(cur) \/ Raised
        /\ UNCHANGED jstate
  /\ UNCHANGED <<snap, networkVars>>
  /\ RecoveryUnchanged

\* An RPC answer that recovery awaits is malformed or missing.
RecoveryRpcError ==
  /\ Running
  /\ \/ rpc \in {"waiting", "absent", "polling", "reconciling"}
     \/ rpc = "next" /\ \E i \in todo : snap[i] = "SUBMITTED"
  /\ Raised
  /\ UNCHANGED <<jstate, snap, networkVars>>
  /\ RecoveryUnchanged

RecoveryReturns ==
  /\ Running
  /\ rpc = "next" /\ todo = {}
  /\ rpc' = "idle"
  /\ UNCHANGED <<jstate, snap, todo, cur, networkVars>>
  /\ RecoveryUnchanged

(***************************************************************************)
(* The process and the chain.                                               *)
(***************************************************************************)

Crash ==
  /\ rpc # "down"
  /\ crashes < MaxCrashes
  /\ crashes' = crashes + 1
  /\ rpc' = "down"
  /\ todo' = {} /\ cur' = NoIntent
  /\ snap' = [i \in Intents |-> Absent]
  /\ pc' = [c \in Calls |-> "idle"]
  /\ cintent' = [c \in Calls |-> NoIntent]
  /\ csig' = [c \in Calls |-> NoSig]
  /\ UNCHANGED <<journalVars, networkVars>>

Restart ==
  /\ rpc = "down"
  /\ rpc' = "starting"
  /\ UNCHANGED <<journalVars, callVars, networkVars, snap, todo, cur, crashes>>

\* A transaction in flight executes in a block while its blockhash is valid.
Land(i, s) ==
  /\ chain[i][s] = "flight"
  /\ height <= LastValid(s)
  /\ \E outcome \in Seen : chain' = [chain EXCEPT ![i][s] = outcome]
  /\ UNCHANGED <<journalVars, callVars, height, stored, recoveryVars, crashes>>

Finalize(i, s) ==
  /\ chain[i][s] \in Seen
  /\ chain' = [chain EXCEPT ![i][s] = IF @ = "okSeen" THEN "okFinal" ELSE "errFinal"]
  /\ UNCHANGED <<journalVars, callVars, height, stored, recoveryVars, crashes>>

\* A stored answer reaches its time to live; it outlives a crash.
ForgetAnswer(i, s) ==
  /\ stored[i][s] # "none"
  /\ stored' = [stored EXCEPT ![i][s] = "none"]
  /\ UNCHANGED <<journalVars, callVars, chain, height, recoveryVars, crashes>>

AdvanceHeight ==
  /\ height < MaxHeight
  /\ height' = height + 1
  /\ UNCHANGED <<journalVars, callVars, chain, stored, recoveryVars, crashes>>

(***************************************************************************)
(* The specification.                                                       *)
(***************************************************************************)

\* One step of a call that is executing.
CallStep(c) ==
  \/ \E s \in Sigs : TakeBlockhash(c, s)
  \/ BuildError(c) \/ BuildAbandoned(c)
  \/ Sign(c) \/ SignRejected(c) \/ MarkSubmitted(c)
  \/ Broadcast(c) \/ RouteAcked(c) \/ RouteRejected(c)
  \/ PollConfirmed(c) \/ PollExecutionFailed(c) \/ PollGaveUp(c)
  \/ Reconcile(c) \/ ReconcileUnavailable(c)

RecoveryStep ==
  \/ ListPending
  \/ \E i \in Intents : CancelUnsent(i) \/ ObserveSubmitted(i) \/ ReconcileListed(i)
  \/ WaitFound \/ CheckHeight \/ Rebroadcast \/ RebroadcastResult
  \/ PollRebroadcast \/ ReconcileRecovered \/ RecoveryRpcError \/ RecoveryReturns

NetworkStep ==
  \/ \E i \in Intents, s \in Sigs : Land(i, s) \/ Finalize(i, s) \/ ForgetAnswer(i, s)
  \/ AdvanceHeight

Next ==
  \/ \E c \in Calls : (\E i \in Intents : Submit(c, i)) \/ CallStep(c)
  \/ RecoveryStep
  \/ Crash \/ Restart
  \/ NetworkStep

Spec == Init /\ [][Next]_vars

\* The event loop runs every ready task and the supervisor restarts a dead
\* process.  Nothing is assumed of callers, of the chain or of crashes.
Fairness ==
  /\ \A c \in Calls : WF_vars(CallStep(c))
  /\ WF_vars(RecoveryStep)
  /\ WF_vars(Restart)

FairSpec == Spec /\ Fairness

(***************************************************************************)
(* Properties.                                                              *)
(***************************************************************************)

\* The bytes of i are, or may still be, out: the record says so.
MayBeOut(i) ==
  \/ jstate[i] \in {"SUBMITTED", "CONFIRMED", "RECONCILED", "EXPIRED"}
  \/ jstate[i] = "FAILED" /\ jsig[i] # NoSig /\ chain[i][jsig[i]] = "errFinal"

\* Nothing reaches the network that the journal did not hold first: whatever
\* bytes of an intent the chain knows are the ones its record stores, and the
\* record is past SIGNED and never CANCELLED.  So one intent never puts two
\* transactions on the wire, over crashes, recovery and concurrent submits.
OneDurableBroadcast ==
  \A i \in Intents, s \in Sigs :
    chain[i][s] # "unsent" => jsig[i] = s /\ MayBeOut(i)

\* The journal never lies about a landing: CONFIRMED and RECONCILED records
\* executed without error and are final, FAILED and CANCELLED ones have no
\* successful execution on the chain, now or ever.
JournalMatchesChain ==
  \A i \in Intents :
    /\ jstate[i] \in {"CONFIRMED", "RECONCILED"} =>
         jsig[i] # NoSig /\ chain[i][jsig[i]] = "okFinal"
    /\ jstate[i] \in {"FAILED", "CANCELLED"} =>
         \A s \in Sigs : chain[i][s] \notin Took

\* Of several submit() calls for one intent at most one gets past signing:
\* the others return without touching the network.
OneWinner ==
  \A c, d \in Calls :
    /\ pc[c] \in Signing \cup OnWire \cup {"accepted", "acceptedPending"}
    /\ pc[d] \in Signing \cup OnWire \cup {"accepted", "acceptedPending"}
    /\ cintent[c] = cintent[d]
    => c = d

\* An accepted receipt is only ever returned for an intent that executed and
\* is final, and whose record will not be taken up as unresolved.
AcceptedIsFinal ==
  \A c \in Calls :
    pc[c] \in {"accepted", "acceptedPending"} =>
      /\ jstate[cintent[c]] \in {"CONFIRMED", "RECONCILED"}
      /\ chain[cintent[c]][csig[c]] = "okFinal"

\* What recovery leaves behind when it returns: every record it listed is
\* terminal, except submitted ones whose outcome it could not see.
RecoveryLeavesOnlySubmitted ==
  rpc = "idle" =>
    \A i \in Intents :
      snap[i] \in RecoveryStates =>
        \/ jstate[i] \in TerminalStates
        \/ snap[i] = "SUBMITTED" /\ jstate[i] \in {"SUBMITTED", "CONFIRMED"}

\* A terminal record never changes again and signed bytes are never replaced,
\* whoever races: a later retry can neither rebuild nor reopen an intent.
RecordsAreStable ==
  [][\A i \in Intents :
       /\ jstate[i] \in TerminalStates => jstate'[i] = jstate[i]
       /\ jsig[i] # NoSig => jsig'[i] = jsig[i]]_vars

\* A call that started always returns a receipt or dies with the process.
SubmitReturns == \A c \in Calls : pc[c] = "building" ~> pc[c] \in Receipts

\* After a crash an unsent record is decided, unless recovery raises.
UnsentDecidedAfterCrash ==
  \A i \in Intents :
    (rpc = "down" /\ jstate[i] \in UnsentStates)
      ~> (jstate[i] \notin UnsentStates \/ rpc = "raised")

\* The decision each journal record stands for, and its effects on the chain.
Decision(state) ==
  CASE state \in {Absent} \cup UnsentStates -> "new"
    [] state = "SUBMITTED" -> "handedOver"
    [] state \in {"CONFIRMED", "RECONCILED"} -> "done"
    [] state \in {"FAILED", "CANCELLED"} -> "void"
    [] state = "EXPIRED" -> "givenUp"

Promise == INSTANCE AtMostOnceExecution WITH
             Txs <- Sigs,
             phase <- [i \in Intents |-> Decision(jstate[i])],
             effects <- [i \in Intents |->
                           {s \in Sigs : chain[i][s] \in Took}]

\* The journal, the port and the chain together keep the promise of
\* AtMostOnceExecution: an intent executes at most once and only while its
\* record says SUBMITTED, whatever crashes and races happen in between.
KeepsPromise == Promise!Spec

\* mark_expired records "submitted signature was absent after its blockhash
\* expired": an EXPIRED transaction has no execution on the chain.
ExpiredMeansAbsent ==
  \A i \in Intents :
    jstate[i] = "EXPIRED" => chain[i][jsig[i]] \notin Took
=============================================================================
