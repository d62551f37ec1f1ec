------------------------- MODULE CabalPipeline -------------------------
(***************************************************************************)
(* The copytrading session (runtime/cabal_pipeline.py, interfaces/cli/     *)
(* cabal.py): the RPC poller of a tracked wallet and the PumpPortal stream *)
(* bring its trades to handle_stream_payload, which buys with it and gets  *)
(* out when it sells, through CabalExecutor; a ticker updates the prices of*)
(* the positions.  One wallet and one mint; a trade is its place in the    *)
(* wallet's history; a transaction that is no trade is like a BUY that the *)
(* filter rejects.                                                         *)
(***************************************************************************)
EXTENDS CabalExecutor

CONSTANTS
    Limit,       \* signatures one poll lists
    MaxTrades,   \* bound: transactions of the wallet
    MaxPrunings  \* bound: times _seen_signatures is cut down

ASSUME PipelineAssumption ==
    Limit \in Nat \ {0} /\ MaxTrades \in Nat /\ MaxPrunings \in Nat

VARIABLES
    trades,    \* external: the wallet's transactions, oldest first
    started,   \* the poller has its baseline, or failed to get it
    baseline,  \* history: transactions there were at the start
    seen,      \* the wallet's part of _seen_signatures
    last,      \* _last_seen_signatures of the wallet
    todo,      \* signatures listed and not gone through
    polled,    \* history: trades the poller handled
    streamed,  \* history: trades the stream handled
    dropped,   \* history: trades whose transaction could not be fetched
    forgotten, \* history: what a pruning took out of seen and nothing put back
    prunings   \* prunings so far

feedVars == <<trades, started, baseline, seen, last, todo, polled, streamed, dropped,
              forgotten, prunings>>
vars == <<executorVars, feedVars>>

Txs == 1 .. MaxTrades
Kinds == {"buy", "sell"}
None == 0

TypeOK ==
    /\ ExecutorTypeOK
    /\ trades \in Seq(Kinds) /\ Len(trades) <= MaxTrades
    /\ started \in BOOLEAN
    /\ baseline \in 0 .. MaxTrades /\ last \in 0 .. MaxTrades
    /\ seen \subseteq 1 .. Len(trades) /\ todo \subseteq 1 .. Len(trades)
    /\ prunings \in 0 .. MaxPrunings
    /\ polled \cup streamed \cup dropped \cup forgotten \subseteq 1 .. Len(trades)

(* The session starts on a wallet with a past.                             *)
Init ==
    /\ ExecutorInit
    /\ trades \in UNION {[1 .. n -> Kinds] : n \in 0 .. MaxTrades}
    /\ started = FALSE
    /\ baseline = Len(trades) /\ last = None
    /\ seen = {} /\ todo = {}
    /\ polled = {} /\ streamed = {} /\ dropped = {}
    /\ forgotten = {} /\ prunings = 0

Trade(kind) ==
    /\ Len(trades) < MaxTrades
    /\ trades' = Append(trades, kind)
    /\ UNCHANGED <<executorVars, started, baseline, seen, last, todo, polled, streamed,
                   dropped, forgotten, prunings>>

(* Where an await does not suspend, no other task runs before the loop an  *)
(* actor is in has come to its sleep.                                      *)
Busy(a) == Waits(a) \/ queue[a] # {} \/ (a = "poller" /\ todo # {})
MayRun(a) ==
    /\ ~stopped
    /\ adapter = "live" \/ \A b \in Actors \ {a} : ~Busy(b)

-----------------------------------------------------------------------------
(* handle_stream_payload.                                                  *)

(* A BUY that the filter lets through is copied; the positions there are   *)
(* when an insider sells are got out of, one after the other.              *)
Handle(a, t) ==
    IF trades[t] = "buy"
    THEN BeginBuy(a) \/ UNCHANGED executorVars
    ELSE /\ queue' = [queue EXCEPT ![a] = Active]
         /\ UNCHANGED <<adapter, cash, leases, leaked, positions, orders, overlapped,
                        stopped, faults>>

(* The stream: whether the poller has handled the trade is not asked.      *)
StreamTrade(t) ==
    /\ MayRun("stream") /\ ~Busy("stream")
    /\ t \in 1 .. Len(trades)
    /\ baseline < t /\ t \notin streamed
    /\ streamed' = streamed \cup {t}
    /\ seen' = seen \cup {t}
    /\ forgotten' = forgotten \ {t}
    /\ Handle("stream", t)
    /\ UNCHANGED <<trades, started, baseline, last, todo, polled, dropped, prunings>>

-----------------------------------------------------------------------------
(* poll_onchain_trades.                                                    *)

(* The newest signature becomes the baseline, unless the request fails.    *)
Baseline ==
    /\ MayRun("poller") /\ ~started
    /\ started' = TRUE
    /\ \/ /\ Len(trades) > 0
          /\ last' = Len(trades)
          /\ seen' = seen \cup {Len(trades)}
          /\ baseline' = Len(trades)
          /\ UNCHANGED faults
       \/ Len(trades) = 0 /\ UNCHANGED <<last, seen, baseline, faults>>
       \/ Fault /\ UNCHANGED <<last, seen, baseline>>
    /\ UNCHANGED <<adapter, cash, leases, leaked, positions, orders, queue, overlapped,
                   stopped, trades, todo, polled, streamed, dropped, forgotten, prunings>>

(* Mutant: the request asks for one signature too few.                     *)
PageOneShort == {t \in 1 .. Len(trades) : Len(trades) - t < Limit - 1}

Page == {t \in 1 .. Len(trades) : Len(trades) - t < Limit}

(* Mutant: signatures seen are not skipped.                                *)
NewSignaturesUnskipped == {t \in Page : t > last}

(* Newest first, signatures seen are skipped, and only then the last one is*)
(* compared with: it is a seen one itself, so that the walk ends with the  *)
(* page.                                                                   *)
NewSignatures ==
    {t \in Page \ seen : ~\E s \in Page \ seen : s = last /\ t <= s}

ListSignatures ==
    /\ MayRun("poller") /\ started /\ ~Busy("poller")
    /\ todo' = NewSignatures
    /\ todo' # {}
    /\ UNCHANGED <<executorVars, trades, started, baseline, seen, last, polled, streamed,
                   dropped, forgotten, prunings>>

(* All the wallets share the set, so that its limit may be passed with any *)
(* signature the poller adds; then an arbitrary half of it is kept (a set  *)
(* has no order), of the wallet's signatures any part.  One that leaves    *)
(* them all is like none.                                                  *)
Prune(all) ==
    /\ prunings < MaxPrunings
    /\ prunings' = prunings + 1
    /\ seen' \in SUBSET all /\ seen' # all

Remember(all) == (seen' = all /\ UNCHANGED prunings) \/ Prune(all)

(* The oldest one is marked seen before its transaction is fetched, and not*)
(* asked for again if that fails.  A trade is marked once more when it is  *)
(* handed on; what is no trade is not.                                     *)
PollTrade(t) ==
    /\ MayRun("poller")
    /\ ~Waits("poller") /\ queue["poller"] = {}
    /\ t \in todo /\ \A s \in todo : t <= s
    /\ todo' = todo \ {t}
    /\ last' = t
    /\ Remember(seen \cup {t})
    /\ forgotten' = (forgotten \cup seen \cup {t}) \ seen'
    /\ \/ /\ polled' = polled \cup {t}
          /\ \/ t \in seen' /\ Handle("poller", t)
             \/ trades[t] = "buy" /\ UNCHANGED executorVars
          /\ UNCHANGED dropped
       \/ /\ Fault
          /\ dropped' = dropped \cup {t}
          /\ UNCHANGED <<adapter, cash, leases, leaked, positions, orders, queue,
                         overlapped, stopped, polled>>
    /\ UNCHANGED <<trades, started, baseline, streamed>>

(* The signature of another wallet passes the limit.                       *)
PruneSeen ==
    /\ MayRun("poller") /\ started /\ ~Busy("poller")
    /\ Prune(seen)
    /\ forgotten' = forgotten \cup (seen \ seen')
    /\ UNCHANGED <<executorVars, trades, started, baseline, last, todo, polled, streamed,
                   dropped>>

-----------------------------------------------------------------------------
(* _tick_positions: the positions open now, one after the other.           *)
BeginTick ==
    /\ MayRun("ticker") /\ ~Busy("ticker")
    /\ Active # {}
    /\ queue' = [queue EXCEPT !["ticker"] = Active]
    /\ UNCHANGED <<adapter, cash, leases, leaked, positions, orders, overlapped, stopped,
                   faults, feedVars>>

ExecutorStep(a) ==
    /\ MayRun(a)
    /\ \/ EndOrder(a) /\ UNCHANGED feedVars
       \/ /\ \E p \in Ids : UpdatePriceTick(a, p) \/ ExitPosition(a, p)
          /\ UNCHANGED feedVars

(* An order that raises ends the poller's way through its list, too.       *)
Raise(a) ==
    /\ MayRun(a)
    /\ OrderRaises(a)
    /\ todo' = IF a = "poller" THEN {} ELSE todo
    /\ UNCHANGED <<trades, started, baseline, seen, last, polled, streamed, dropped,
                   forgotten, prunings>>

Poller == Baseline \/ ListSignatures \/ \E t \in Txs : PollTrade(t)

Next ==
    \/ \E kind \in Kinds : Trade(kind)
    \/ \E t \in Txs : StreamTrade(t)
    \/ Poller \/ PruneSeen
    \/ BeginTick
    \/ \E a \in Actors : ExecutorStep(a) \/ Raise(a)

Spec == Init /\ [][Next]_vars

(* The poller polls on, between the ticks it has to wait for, and every    *)
(* order is answered: the event loop runs what is ready in turn.           *)
FairSpec ==
    /\ Spec
    /\ SF_vars(Poller)
    /\ \A a \in Actors : WF_vars(ExecutorStep(a))

-----------------------------------------------------------------------------
(* Properties.                                                             *)

(* In paper mode the poller has listed no trade that a feed, the stream or *)
(* itself, has handled already, unless a pruning of _seen_signatures took  *)
(* its signature out: it handles nothing twice as long as it remembers.    *)
(* The stream does not ask, and with an adapter that suspends the poller   *)
(* asks before it waits, so that a trade may be copied twice.              *)
PollerNeverRepeats ==
    adapter = "paper" => todo \cap (streamed \cup polled) \subseteq forgotten

Missed(t) == Len(trades) - t >= Limit

(* The poller goes past no trade after the baseline: what is not newer than*)
(* the last signature it went through was handled by one of the feeds, lost*)
(* with its transaction, or is out of reach, since more trades than a page *)
(* holds came after it (poll_onchain_trades).  Lists that are interrupted, *)
(* trades that the stream brings first and requests that fail leave no gap.*)
PollerPassesNothing ==
    \A t \in Txs :
        baseline < t /\ t <= last
            => t \in polled \cup streamed \cup dropped \/ Missed(t)

(* A trade after the baseline is handled in the end, unless its transaction*)
(* could not be fetched, more trades than a page holds came in between, or *)
(* the session ended.  MaxTrades ends the wallet's trading, so that nothing*)
(* being left to handle again and again says it of each trade.             *)
NothingLeft ==
    \A t \in Txs :
        started /\ baseline < t /\ t <= Len(trades)
            => t \in polled \cup streamed \cup dropped \/ Missed(t) \/ stopped
NewTradesHandled == []<>NothingLeft

(* poll_onchain_trades (runtime/cabal_pipeline.py:636): the baseline is    *)
(* established "to avoid replaying history".                               *)
HistoryNotReplayed == last # None => \A t \in polled : baseline < t
=============================================================================
