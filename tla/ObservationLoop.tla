------------------------ MODULE ObservationLoop ------------------------
(***************************************************************************)
(* The watcher of one wallet (interfaces/cli/watch.py): cycles of          *)
(* SharedObservationLoop.run_once (runtime/workers/observation_loop.py)    *)
(* over one of two sources,                                                *)
(*   - "poll": RpcAddressObservationSource, a new one each cycle, whose    *)
(*     cursor is the newest transaction both in the raw store and in the   *)
(*     handled ledger;  its handler (WatchSnipeHandler, also new each      *)
(*     cycle) trades through the live port;                                *)
(*   - "stream": PumpCreateStreamSource (ingest/pump/pump_stream.py), one  *)
(*     for the life of the process, which reads the missed history once    *)
(*     and then hydrates the creates PumpPortal announces; its handler only*)
(*     observes, the trades are the sniper daemon's.                       *)
(* A transaction is its position in the wallet's finalized history.        *)
(***************************************************************************)
EXTENDS AddressHistory, Sequences

CONSTANTS
    Sources,      \* subset of {"poll", "stream"}
    MaxHistory,   \* bound: transactions of the wallet
    MaxFaults     \* bound: crashes, failures, rejections, lost connections

ASSUME LoopAssumption ==
    /\ Sources \subseteq {"poll", "stream"}
    /\ MaxHistory \in Nat
    /\ MaxFaults \in Nat

VARIABLES
    source,     \* how this watcher was started
    history,    \* external: the wallet's finalized transactions
    \* durable: observations.jsonl, state.sqlite3, transactions.sqlite3
    raw,        \* observations in the raw store
    handled,    \* observations in the handled-evidence ledger
    positions,  \* launches with an open position in the position store
    submitted,  \* launches whose intent the live port has journaled
    \* the process
    pc,         \* where the cycle stands
    staged,     \* batch returned and not acknowledged
    todo,       \* observations of the batch not gone through yet
    current,    \* the one being handled
    bought,     \* WatchSnipeHandler._bought_market_ids
    caughtUp,   \* PumpCreateStreamSource._catchup_complete
    connected,  \* the PumpPortal WebSocket is open
    feed,       \* creates announced and not received yet
    pending,    \* PumpCreateStreamSource._pending_signature
    faults      \* faults so far

durable == <<raw, handled, positions, submitted>>
stream == <<caughtUp, connected, feed, pending>>
vars == <<source, history, durable, pc, staged, todo, current, bought, stream,
          faults>>

Txs == 1 .. MaxHistory

(* "refused" is a create the trading handler abstains on whenever it is    *)
(* looked at: a resolver, a candidate, an entry rule or a sizing that finds*)
(* the same evidence wanting again.  To the reader it is a create.         *)
TxKinds == Kinds \cup {"refused"}
Launches == {"create", "refused"}

NoBatch == {}
NoSignature == 0
(* An announced create that no fork the cluster finalizes contains.        *)
Orphan == -1

PCs == {"reading", "handling", "advancing", "deciding", "bought", "recording",
        "polling"}

TypeOK ==
    /\ source \in Sources
    /\ history \in Seq(TxKinds) /\ Len(history) <= MaxHistory
    /\ raw \subseteq Txs /\ handled \subseteq Txs
    /\ positions \subseteq Txs /\ submitted \subseteq Txs
    /\ pc \in PCs
    /\ staged \subseteq Txs /\ todo \subseteq Txs /\ bought \subseteq Txs
    /\ current \in Txs \cup {NoSignature}
    /\ caughtUp \in BOOLEAN /\ connected \in BOOLEAN
    /\ feed \in Seq(Txs \cup {Orphan})
    /\ pending \in Txs \cup {Orphan, NoSignature}
    /\ faults \in 0 .. MaxFaults

Init ==
    /\ source \in Sources
    /\ history = <<>>
    /\ raw = {} /\ handled = {} /\ positions = {} /\ submitted = {}
    /\ pc = "reading"
    /\ staged = NoBatch /\ todo = {} /\ current = NoSignature /\ bought = {}
    /\ caughtUp = FALSE /\ connected = FALSE
    /\ feed = <<>> /\ pending = NoSignature
    /\ faults = 0

Fault == faults < MaxFaults /\ faults' = faults + 1

-----------------------------------------------------------------------------
(* The environment.                                                        *)

(* The cluster finalizes a transaction of the wallet; a successful create  *)
(* is announced on the feed if its socket is open.  The handler of a       *)
(* streaming watcher refuses nothing.                                      *)
Finalize(kind) ==
    /\ Len(history) < MaxHistory
    /\ kind = "refused" => source = "poll"
    /\ history' = Append(history, kind)
    /\ feed' = IF connected /\ kind = "create"
               THEN Append(feed, Len(history) + 1) ELSE feed
    /\ UNCHANGED <<source, durable, pc, staged, todo, current, bought, caughtUp,
                   connected, pending, faults>>

AnnounceOrphan ==
    /\ Fault
    /\ connected
    /\ feed' = Append(feed, Orphan)
    /\ UNCHANGED <<source, history, durable, pc, staged, todo, current,
                   bought, caughtUp, connected, pending>>

(* The socket drops: what it had not delivered is gone.                    *)
Disconnect ==
    /\ Fault
    /\ connected
    /\ connected' = FALSE
    /\ feed' = <<>>
    /\ UNCHANGED <<source, history, durable, pc, staged, todo, current,
                   bought, caughtUp, pending>>

(* The process dies and is started again; only the stores survive.         *)
Crash ==
    /\ Fault
    /\ pc' = "reading"
    /\ staged' = NoBatch /\ todo' = {} /\ current' = NoSignature /\ bought' = {}
    /\ caughtUp' = FALSE /\ connected' = FALSE
    /\ feed' = <<>> /\ pending' = NoSignature
    /\ UNCHANGED <<source, history, durable>>

-----------------------------------------------------------------------------
(* The read of a cycle.                                                    *)

(* The batch goes to a handler that has just read the position store.      *)
Hand(batch) ==
    /\ staged' = batch
    /\ todo' = batch
    /\ bought' = positions
    /\ pc' = "handling"
    /\ UNCHANGED current

(* _restore_cursor: the newest stored observation the ledger knows.        *)
RestoredCursor(c) ==
    IF raw \cap handled = {}
    THEN c = NoCursor
    ELSE c \in raw \cap handled /\ \A j \in raw \cap handled : j <= c

(* A batch that was never acknowledged is returned again.                  *)
ReadStaged ==
    /\ pc = "reading"
    /\ staged # NoBatch
    /\ Hand(staged)
    /\ UNCHANGED <<source, history, durable, stream, faults>>

ReadsHistory ==
    /\ pc = "reading"
    /\ staged = NoBatch
    /\ source = "stream" => ~caughtUp

ReadHistory(cursor) ==
    LET result == SignatureHistory(Len(history), cursor)
        batch == Observed(history, result.sigs)
    IN  /\ ReadsHistory
        /\ RestoredCursor(cursor)
        /\ result.read
        /\ IF source = "stream" /\ batch = {}
           THEN /\ caughtUp' = TRUE
                /\ UNCHANGED <<staged, todo, current, bought, pc>>
           ELSE /\ Hand(batch)
                /\ UNCHANGED caughtUp
        /\ UNCHANGED <<source, history, durable, connected, feed, pending,
                       faults>>

ReadsStream ==
    /\ pc = "reading"
    /\ staged = NoBatch
    /\ source = "stream"
    /\ caughtUp

Connect ==
    /\ ReadsStream
    /\ pending = NoSignature
    /\ ~connected
    /\ connected' = TRUE
    /\ UNCHANGED <<source, history, durable, pc, staged, todo, current,
                   bought, caughtUp, feed, pending, faults>>

ReceiveNotification ==
    /\ ReadsStream
    /\ pending = NoSignature
    /\ feed # <<>>
    /\ feed' = Tail(feed)
    /\ pending' = Head(feed)
    /\ UNCHANGED <<source, history, durable, pc, staged, todo, current,
                   bought, caughtUp, connected, faults>>

(* The processed slot or the handler of processed creates raises: run_once *)
(* reports it and the notification is gone.                                *)
NotificationLost ==
    /\ Fault
    /\ ReadsStream
    /\ pending = NoSignature
    /\ feed # <<>>
    /\ feed' = Tail(feed)
    /\ UNCHANGED <<source, history, durable, pc, staged, todo, current,
                   bought, caughtUp, connected, pending>>

(* Mutant: the signature is handed on without its finalized transaction.   *)
HydrateUnfinalized ==
    /\ ReadsStream
    /\ pending # NoSignature
    /\ pending' = NoSignature
    /\ Hand({pending})
    /\ UNCHANGED <<source, history, durable, caughtUp, connected, feed, faults>>

(* The pending signature is fetched with its block; until then the read    *)
(* abstains and the next one asks for the same signature.                  *)
Hydrate ==
    /\ ReadsStream
    /\ pending \in Txs
    /\ pending' = NoSignature
    /\ Hand({pending})
    /\ UNCHANGED <<source, history, durable, caughtUp, connected, feed, faults>>

-----------------------------------------------------------------------------
(* The batch, in ascending order, observation by observation.              *)

NextObservation(i) == i \in todo /\ \A j \in todo : i <= j

SkipHandled(i) ==
    /\ pc = "handling"
    /\ NextObservation(i)
    /\ i \in handled
    /\ todo' = todo \ {i}
    /\ UNCHANGED <<source, history, durable, pc, staged, current, bought, stream,
                   faults>>

(* DurableObservationIngestor.persist_observation.                         *)
Persist(i) ==
    /\ pc = "handling"
    /\ NextObservation(i)
    /\ i \notin handled
    /\ raw' = raw \cup {i}
    /\ current' = i
    /\ pc' = "advancing"
    /\ UNCHANGED <<source, history, handled, positions, submitted, staged, todo,
                   bought, stream, faults>>

(* The handler advances the open positions first: some may be sold.        *)
AdvanceOpenPositions ==
    /\ pc = "advancing"
    /\ positions' \in SUBSET positions
    /\ pc' = "deciding"
    /\ UNCHANGED <<source, history, raw, handled, submitted, staged, todo,
                   current, bought, stream, faults>>

(* Mutant: a launch is accepted without the trade.                         *)
AcceptUntraded ==
    /\ pc = "deciding"
    /\ pc' = "recording"
    /\ UNCHANGED <<source, history, durable, staged, todo, current, bought,
                   stream, faults>>

(* Not a launch or not one of the target's, or the handler of an observing *)
(* watcher accepts it.                                                     *)
NothingToBuy ==
    /\ pc = "deciding"
    /\ history[current] = "other" \/ source = "stream"
    /\ pc' = "recording"
    /\ UNCHANGED <<source, history, durable, staged, todo, current, bought,
                   stream, faults>>

BuyOnce == current \in bought

(* A launch that passes every gate is submitted; the port takes an intent  *)
(* it has never journaled.                                                 *)
Submit ==
    /\ pc = "deciding"
    /\ history[current] = "create" /\ source = "poll"
    /\ ~BuyOnce
    /\ current \notin submitted
    /\ submitted' = submitted \cup {current}
    /\ bought' = bought \cup {current}
    /\ pc' = "bought"
    /\ UNCHANGED <<source, history, raw, handled, positions, staged, todo,
                   current, stream, faults>>

SavePosition ==
    /\ pc = "bought"
    /\ positions' = positions \cup {current}
    /\ pc' = "recording"
    /\ UNCHANGED <<source, history, raw, handled, submitted, staged, todo,
                   current, bought, stream, faults>>

(* HandledEvidenceLedger.append.                                           *)
Record ==
    /\ pc = "recording"
    /\ handled' = handled \cup {current}
    /\ todo' = todo \ {current}
    /\ current' = NoSignature
    /\ pc' = "handling"
    /\ UNCHANGED <<source, history, raw, positions, submitted, staged, bought,
                   stream, faults>>

-----------------------------------------------------------------------------
(* The end of a cycle.                                                     *)

(* Mutant: the rejected observation is skipped and the batch goes on.      *)
EndSkipping ==
    /\ pc' = "handling"
    /\ todo' = todo \ {current}
    /\ current' = NoSignature
    /\ UNCHANGED <<source, history, durable, staged, bought, stream>>

(* The partial report: what follows in the batch is not looked at, nothing *)
(* is acknowledged.  A polling watcher exits and is run again; a streaming *)
(* one reads its staged batch again.                                       *)
EndAbstained ==
    /\ pc' = "reading"
    /\ todo' = {}
    /\ current' = NoSignature
    /\ bought' = {}
    /\ staged' = IF source = "stream" THEN staged ELSE NoBatch
    /\ UNCHANGED <<source, history, durable, stream>>

(* Refused for good: the market is already bought, or the port has already *)
(* journaled the intent.                                                   *)
RejectRepeat ==
    /\ pc = "deciding"
    /\ history[current] = "create" /\ source = "poll"
    /\ BuyOnce \/ current \in submitted
    /\ EndAbstained
    /\ UNCHANGED faults

(* Refused for good as well: what is wrong with the launch stays wrong, no *)
(* row is written, and the same batch is read and refused again.           *)
RejectForGood ==
    /\ pc = "deciding"
    /\ history[current] = "refused" /\ source = "poll"
    /\ EndAbstained
    /\ UNCHANGED faults

(* Any other error or abstention, none of which a later cycle need meet    *)
(* again: a store or the node fails, the port raises, or the launch comes  *)
(* within the cooldown, over the hourly limit or in the pause of a handler *)
(* that lives no longer than its cycle.                                    *)
CycleAbstains ==
    /\ Fault
    /\ pc \in PCs \ {"reading", "polling"}
    /\ EndAbstained

(* Mutant: a poll that is through with its batch forgets to acknowledge it.*)
AcknowledgeNot ==
    /\ pc = "handling"
    /\ todo = {}
    /\ bought' = {}
    /\ pc' = IF source = "poll" THEN "polling" ELSE "reading"
    /\ UNCHANGED <<source, history, durable, staged, todo, current, stream, faults>>

Acknowledge ==
    /\ pc = "handling"
    /\ todo = {}
    /\ staged' = NoBatch
    /\ bought' = {}
    /\ caughtUp' = (source = "stream")
    /\ pc' = IF source = "poll" THEN "polling" ELSE "reading"
    /\ UNCHANGED <<source, history, durable, todo, current, connected, feed,
                   pending, faults>>

(* poll_open_positions, after a cycle without abstention.                  *)
PollOpenPositions ==
    /\ pc = "polling"
    /\ positions' \in SUBSET positions
    /\ pc' = "reading"
    /\ UNCHANGED <<source, history, raw, handled, submitted, staged, todo,
                   current, bought, stream, faults>>

Watcher ==
    \/ \E c \in Txs \cup {NoCursor} : ReadHistory(c)
    \/ ReadStaged \/ Connect \/ ReceiveNotification \/ Hydrate
    \/ \E i \in Txs : SkipHandled(i) \/ Persist(i)
    \/ AdvanceOpenPositions \/ NothingToBuy \/ Submit \/ SavePosition \/ Record
    \/ RejectRepeat \/ RejectForGood \/ Acknowledge \/ PollOpenPositions

Environment ==
    \/ \E kind \in TxKinds : Finalize(kind)
    \/ AnnounceOrphan \/ Disconnect \/ Crash \/ NotificationLost \/ CycleAbstains

Next == Watcher \/ Environment

Spec == Init /\ [][Next]_vars

(* The watcher goes on: its RPC node answers in the end (a failing read    *)
(* changes nothing and is asked again), a cycle that ended is followed by  *)
(* another.  Nothing is assumed of the environment.                        *)
FairSpec == Spec /\ WF_vars(Watcher)

-----------------------------------------------------------------------------
(* Properties.                                                             *)

(* The loop refines the handling in order: whatever crashes, fails or is   *)
(* rejected, transactions are recorded in chain order, and a polling       *)
(* watcher leaves no successful one out between two recorded ones.         *)
Promise == INSTANCE InOrderHandling WITH gapless <- (source = "poll")
HandlesInOrder == Promise!Spec

(* A trade and its record (poll): a recorded launch was submitted (one that*)
(* is always refused is neither), and of the launches newer than a recorded*)
(* one at most one is submitted and not recorded, the next one due: a crash*)
(* never leaves two trades half done.                                      *)
HalfDone == {i \in submitted \ handled : \E j \in handled : j < i}

TradesAreRecorded ==
    source = "poll" =>
        /\ \A i \in handled : history[i] \in Launches => i \in submitted
        /\ \A i \in HalfDone :
              /\ \A j \in handled : j < i
              /\ \A j \in HalfDone : j = i

(* An open position belongs to a launch that was submitted, and the store  *)
(* holds its observation: a position is never without its evidence.        *)
PositionsHaveEvidence == positions \subseteq submitted /\ submitted \subseteq raw

(* What can stop a watcher for good: more unread transactions than a read  *)
(* may return (or pages that do not show the cursor), a launch submitted   *)
(* and not recorded, a notification nothing finalizes.                     *)
HistoryUnreadable ==
    \E c \in handled :
        /\ RestoredCursor(c)
        /\ ~WithinBounds(Len(history), c)
TradeUnrecorded == \E i \in submitted \ handled : \A j \in handled : j < i
Wedged == HistoryUnreadable \/ TradeUnrecorded \/ pending = Orphan

(* A polling watcher does not get past a launch it always refuses: the     *)
(* batch ends there in every cycle and its cursor stays below.             *)
BehindRefused(i) ==
    source = "poll" /\ \E k \in 1 .. i :
        history[k] = "refused" /\ \E j \in handled : j < k

(* Unless the watcher stays wedged, a successful transaction newer than a  *)
(* recorded one is recorded in the end by a polling watcher, and one that  *)
(* was staged by a streaming one, except for a launch that is always       *)
(* refused and all that comes behind it.                                   *)
Owed(i) ==
    /\ i <= Len(history)
    /\ history[i] # "failed"
    /\ \E j \in handled : j < i
    /\ source = "poll" \/ i \in staged
    /\ ~BehindRefused(i)

HandledInTheEnd == <>[]Wedged \/ \A i \in Txs : Owed(i) ~> (i \in handled)

(* _read_signature_history (rpc_observer.py:551): "Read bounded finalized  *)
(* history without silently skipping evidence."                            *)
NoEvidenceSkipped ==
    \A i \in raw : \A j \in handled : i < j => i \in handled

(* _read_signature_history (rpc_observer.py:563): the boundary is located  *)
(* so that a healthy poll is not turned into an abstention.                *)
HealthyPollReturns ==
    \A c \in handled :
        RestoredCursor(c) /\ Len(history) - c <= MaxTransactions
            => SignatureHistory(Len(history), c).read
=============================================================================
