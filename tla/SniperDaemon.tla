---------------------------- MODULE SniperDaemon ----------------------------
(***************************************************************************)
(* SniperDaemonService (runtime/workers/sniper_daemon.py) with its           *)
(* PositionExitWorker (runtime/workers/position_exit_worker.py) and the       *)
(* durable position store, over an execution port that keeps the promise of   *)
(* LiveExecution: an intent executes at most once, and a receipt that is not  *)
(* accepted says nothing about the chain.  Launch deliveries, manual sells    *)
(* and the exit worker are tasks of one event loop: an action is the code     *)
(* between two awaits.                                                        *)
(*                                                                          *)
(* One market has one launch, so its BUY has one intent_id.  Slots are        *)
(* abstracted: every cycle and every manual sell carries a newer one.         *)
(* Prices and exit rules are abstracted to the decision they lead to, policy  *)
(* lookups and the balance gates to "allowed or not".                         *)
(***************************************************************************)
EXTENDS Naturals, FiniteSets

CONSTANTS
  Markets,     \* markets that may be launched
  Deliveries,  \* concurrent handle_processed_launch() calls
  Manuals,     \* concurrent manual_sell() calls
  Worker,      \* the exit worker
  Tokens,      \* base units one BUY acquires
  MaxOpen,     \* RiskLimits.max_open_positions
  MaxCrashes,  \* bound on process crashes
  NoMarket     \* no market

ASSUME MarketAssumption == NoMarket \notin Markets /\ IsFiniteSet(Markets)
ASSUME WorkerAssumption == Worker \notin Manuals
ASSUME AmountAssumption == Tokens \in Nat \ {0} /\ MaxOpen \in Nat /\ MaxCrashes \in Nat

VARIABLES
  held,      \* chain: tokens of each market the wallet holds
  late,      \* chain: sells that are out although their submit() returned
  buy,       \* journal: the record of each market's BUY
  bought,    \* chain: the BUY executed
  pos,       \* position store: current_position_base_units; 0 is no row
  opened,    \* history: a position of the market was saved
  closed,    \* history: a position of the market was removed
  stage,     \* the daemon
  kill,      \* _kill_switch_active
  rtodo,     \* BUY records recover_pending() has not looked at yet
  rdone,     \* BUY records it reconciled
  task,      \* launch deliveries
  seller,    \* manual sells, and the worker inside _submit_and_persist
  exit,      \* the exit worker's cycle: what it read and has to visit
  crashes    \* crashes so far

chainVars == <<held, late, bought>>
storeVars == <<buy, pos, opened, closed>>
startVars == <<stage, rtodo, rdone>>
vars == <<held, late, buy, bought, pos, opened, closed, stage, kill,
          rtodo, rdone, task, seller, exit, crashes>>

Sellers == Manuals \cup {Worker}
Amount  == 0..Tokens

\* open: SUBMITTED or CONFIRMED; void: FAILED, CANCELLED or EXPIRED.
BuyState == {"new", "open", "reconciled", "void"}

IdleTask   == [pc |-> "idle", market |-> NoMarket, seen |-> 0]
IdleSeller == [pc |-> "idle", market |-> NoMarket, amount |-> 0, left |-> 0]
IdleExit   == [pc |-> "idle", read |-> [m \in Markets |-> 0], todo |-> {}]

TypeOK ==
  /\ held \in [Markets -> Amount] /\ pos \in [Markets -> Amount]
  /\ late \in [Markets -> SUBSET (1..Tokens)]
  /\ buy \in [Markets -> BuyState]
  /\ bought \in [Markets -> BOOLEAN]
  /\ opened \in [Markets -> BOOLEAN] /\ closed \in [Markets -> BOOLEAN]
  /\ stage \in {"down", "recovering", "running", "failed"}
  /\ kill \in BOOLEAN
  /\ rtodo \in SUBSET Markets /\ rdone \in SUBSET Markets
  /\ task \in [Deliveries -> [pc : {"idle", "risk", "submitted"},
                              market : Markets \cup {NoMarket}, seen : Nat]]
  /\ seller \in [Sellers -> [pc : {"idle", "risk", "submitted", "landed"},
                             market : Markets \cup {NoMarket},
                             amount : Amount, left : Amount]]
  /\ exit \in [pc : {"idle", "cycle", "dead"}, read : [Markets -> Amount],
               todo : SUBSET Markets]
  /\ crashes \in 0..MaxCrashes

Init ==
  /\ held = [m \in Markets |-> 0] /\ pos = [m \in Markets |-> 0]
  /\ late = [m \in Markets |-> {}]
  /\ buy = [m \in Markets |-> "new"] /\ bought = [m \in Markets |-> FALSE]
  /\ opened = [m \in Markets |-> FALSE] /\ closed = [m \in Markets |-> FALSE]
  /\ stage = "down" /\ kill = FALSE
  /\ rtodo = {} /\ rdone = {}
  /\ task = [d \in Deliveries |-> IdleTask]
  /\ seller = [x \in Sellers |-> IdleSeller]
  /\ exit = IdleExit
  /\ crashes = 0

(***************************************************************************)
(* The position store: save() overwrites, remove() deletes.                 *)
(***************************************************************************)

Open == {m \in Markets : pos[m] > 0}

Save(m, amount) ==
  /\ pos' = [pos EXCEPT ![m] = amount]
  /\ opened' = [opened EXCEPT ![m] = TRUE]
  /\ closed' = [closed EXCEPT ![m] = @ \/ amount = 0]

(***************************************************************************)
(* handle_processed_launch()                                                *)
(***************************************************************************)

\* The market's lock is taken, a market with a position is refused, and the
\* risk resolver reads the open positions before it awaits the balance.  Policy
\* and freshness checks may refuse the launch: then nothing happens.
Deliver(d, m) ==
  /\ stage = "running" /\ task[d].pc = "idle"
  /\ \A e \in Deliveries : task[e].pc # "idle" => task[e].market # m
  /\ pos[m] = 0
  /\ task' = [task EXCEPT ![d] = [pc |-> "risk", market |-> m, seen |-> Cardinality(Open)]]
  /\ UNCHANGED <<chainVars, storeVars, startVars, kill, seller, exit, crashes>>

LaunchEnds(d) == task' = [task EXCEPT ![d] = IdleTask]

\* Mutant: the journal accepts the same intent again.
SubmitBuyAgain(d) ==
  /\ task[d].pc = "risk"
  /\ ~kill /\ task[d].seen < MaxOpen
  /\ buy' = [buy EXCEPT ![task[d].market] = "open"]
  /\ bought' = [bought EXCEPT ![task[d].market] = FALSE]
  /\ task' = [task EXCEPT ![d].pc = "submitted"]
  /\ UNCHANGED <<held, late, pos, opened, closed, startVars, kill, seller, exit, crashes>>

\* The balance has come, the kill switch is read, the gate allows the BUY and
\* it is submitted.  The port is entered once per intent.
SubmitBuy(d) ==
  /\ task[d].pc = "risk"
  /\ ~kill /\ task[d].seen < MaxOpen
  /\ buy[task[d].market] = "new"
  /\ buy' = [buy EXCEPT ![task[d].market] = "open"]
  /\ task' = [task EXCEPT ![d].pc = "submitted"]
  /\ UNCHANGED <<chainVars, pos, opened, closed, startVars, kill, seller, exit, crashes>>

\* The gate denies, its evidence fails, or the port refuses the intent.
BuyDenied(d) ==
  /\ task[d].pc = "risk"
  /\ LaunchEnds(d)
  /\ UNCHANGED <<chainVars, storeVars, startVars, kill, seller, exit, crashes>>

\* The transaction of the BUY executes, also after submit() gave up on it.
BuyLands(m) ==
  /\ buy[m] = "open" /\ ~bought[m]
  /\ bought' = [bought EXCEPT ![m] = TRUE]
  /\ held' = [held EXCEPT ![m] = Tokens]
  /\ UNCHANGED <<late, storeVars, startVars, kill, task, seller, exit, crashes>>

\* Accepted and reconciled: the position is saved in the same loop turn.
BuyAccepted(d) ==
  LET m == task[d].market IN
  /\ task[d].pc = "submitted" /\ bought[m]
  /\ buy' = [buy EXCEPT ![m] = "reconciled"]
  /\ Save(m, Tokens)
  /\ LaunchEnds(d)
  /\ UNCHANGED <<chainVars, startVars, kill, seller, exit, crashes>>

\* Mutant: an unconfirmed BUY opens a position on the quoted amount.
BuyOpensOnQuote(d) ==
  LET m == task[d].market IN
  /\ task[d].pc = "submitted"
  /\ Save(m, Tokens)
  /\ LaunchEnds(d)
  /\ UNCHANGED <<chainVars, buy, startVars, kill, seller, exit, crashes>>

\* Not accepted, or accepted without an output: no position.  The record is
\* void when the BUY failed before or in its execution, else it stays open.
BuyNotAccepted(d) ==
  LET m == task[d].market IN
  /\ task[d].pc = "submitted"
  /\ \/ ~bought[m] /\ buy' = [buy EXCEPT ![m] = "void"]
     \/ UNCHANGED buy
  /\ LaunchEnds(d)
  /\ UNCHANGED <<chainVars, pos, opened, closed, startVars, kill, seller, exit, crashes>>

(***************************************************************************)
(* _submit_and_persist(), for a manual sell and for the worker.             *)
(***************************************************************************)

SellIntent(x, m, amount, left) ==
  seller' = [seller EXCEPT ![x] = [pc |-> "risk", market |-> m,
                                   amount |-> amount, left |-> left]]

\* Mutant: half of the original position, not of the current one.
ManualExitOfOriginal(x, m) ==
  /\ stage # "down"
  /\ x \in Manuals /\ seller[x].pc = "idle"
  /\ pos[m] > 0
  /\ \E amount \in {pos[m], (Tokens + 1) \div 2} : SellIntent(x, m, amount, pos[m] - amount)
  /\ UNCHANGED <<chainVars, storeVars, startVars, kill, task, exit, crashes>>

\* manual_sell(): the position is read, half of it rounded up to one unit or
\* all of it is to be sold, and what is left is computed now.
ManualExit(x, m) ==
  /\ stage # "down"
  /\ x \in Manuals /\ seller[x].pc = "idle"
  /\ pos[m] > 0
  /\ \E amount \in {pos[m], IF pos[m] = 1 THEN 1 ELSE pos[m] \div 2} :
       SellIntent(x, m, amount, pos[m] - amount)
  /\ UNCHANGED <<chainVars, storeVars, startVars, kill, task, exit, crashes>>

SellEnds(x) == seller' = [seller EXCEPT ![x] = IdleSeller]

\* The gate allows: submit().  The kill switch plays no part.
SubmitSell(x) ==
  /\ seller[x].pc = "risk"
  /\ seller' = [seller EXCEPT ![x].pc = "submitted"]
  /\ UNCHANGED <<chainVars, storeVars, startVars, kill, task, exit, crashes>>

\* The gate denies or its evidence fails.
SellDenied(x) ==
  /\ seller[x].pc = "risk"
  /\ SellEnds(x)
  /\ UNCHANGED <<chainVars, storeVars, startVars, kill, task, exit, crashes>>

\* The sell executes: the wallet must hold what it sells.
SellLands(x) ==
  LET m == seller[x].market IN
  /\ seller[x].pc = "submitted"
  /\ held[m] >= seller[x].amount
  /\ held' = [held EXCEPT ![m] = @ - seller[x].amount]
  /\ seller' = [seller EXCEPT ![x].pc = "landed"]
  /\ UNCHANGED <<late, bought, storeVars, startVars, kill, task, exit, crashes>>

\* Mutant: the receipt is not looked at.
SellAcceptedUnseen(x) ==
  /\ seller[x].pc \in {"submitted", "landed"}
  /\ Save(seller[x].market, seller[x].left)
  /\ SellEnds(x)
  /\ UNCHANGED <<chainVars, buy, startVars, kill, task, exit, crashes>>

\* An accepted receipt: the state computed before the first await is saved,
\* or the position removed, whatever the store holds by now.
SellAccepted(x) ==
  /\ seller[x].pc = "landed"
  /\ Save(seller[x].market, seller[x].left)
  /\ SellEnds(x)
  /\ UNCHANGED <<chainVars, buy, startVars, kill, task, exit, crashes>>

\* Any other receipt: nothing is saved, and the transaction may have executed
\* or may still do so.
SellNotAccepted(x) ==
  /\ seller[x].pc \in {"submitted", "landed"}
  /\ \/ /\ seller[x].pc = "submitted"
        /\ late' = [late EXCEPT ![seller[x].market] = @ \cup {seller[x].amount}]
     \/ UNCHANGED late
  /\ SellEnds(x)
  /\ UNCHANGED <<held, bought, storeVars, startVars, kill, task, exit, crashes>>

LateSellLands(m, amount) ==
  /\ amount \in late[m]
  /\ held[m] >= amount
  /\ held' = [held EXCEPT ![m] = @ - amount]
  /\ late' = [late EXCEPT ![m] = @ \ {amount}]
  /\ UNCHANGED <<bought, storeVars, startVars, kill, task, seller, exit, crashes>>

(***************************************************************************)
(* PositionExitWorker.run_forever(): cycles of run_once().                   *)
(***************************************************************************)

\* The finalized slot has come: every position is read, then their evidence
\* is awaited.
ReadPositions ==
  /\ stage = "running" /\ exit.pc = "idle"
  /\ exit' = [pc |-> IF Open = {} THEN "idle" ELSE "cycle", read |-> pos, todo |-> Open]
  /\ UNCHANGED <<chainVars, storeVars, startVars, kill, task, seller, crashes>>

\* The slot resolver raises: the exception leaves run_forever().
SlotFails ==
  /\ stage = "running" /\ exit.pc = "idle"
  /\ exit' = [IdleExit EXCEPT !.pc = "dead"]
  /\ UNCHANGED <<chainVars, storeVars, startVars, kill, task, seller, crashes>>

\* Mutant: the visited position stays in the cycle.
VisitAgain(m) ==
  /\ exit.pc = "cycle" /\ seller[Worker].pc = "idle"
  /\ m \in exit.todo
  /\ exit' = exit

Visit(m) ==
  /\ exit.pc = "cycle" /\ seller[Worker].pc = "idle"
  /\ m \in exit.todo
  /\ exit' = [exit EXCEPT !.todo = @ \ {m}]

\* No evidence, stale evidence, no exit capacity.
SkipPosition(m) ==
  /\ Visit(m)
  /\ UNCHANGED <<chainVars, storeVars, startVars, kill, task, seller, crashes>>

\* HOLD: the position as it was read is saved with its new slot and peak.
HoldPosition(m) ==
  /\ Visit(m)
  /\ Save(m, exit.read[m])
  /\ UNCHANGED <<chainVars, buy, startVars, kill, task, seller, crashes>>

\* SELL: a part or all of the position as it was read.
SellPosition(m) ==
  /\ Visit(m)
  /\ \E amount \in 1..exit.read[m] :
       SellIntent(Worker, m, amount, exit.read[m] - amount)
  /\ UNCHANGED <<chainVars, storeVars, startVars, kill, task, crashes>>

CycleEnds ==
  /\ exit.pc = "cycle" /\ exit.todo = {} /\ seller[Worker].pc = "idle"
  /\ exit' = IdleExit
  /\ UNCHANGED <<chainVars, storeVars, startVars, kill, task, seller, crashes>>

(***************************************************************************)
(* start(): recover_pending(), _restore_reconciled_buys(), then the worker.  *)
(***************************************************************************)

Start ==
  /\ stage = "down"
  /\ stage' = "recovering"
  /\ rtodo' = {m \in Markets : buy[m] = "open"}
  /\ rdone' = {}
  /\ UNCHANGED <<chainVars, storeVars, kill, task, seller, exit, crashes>>

\* One BUY record: reconciled, given up (also when it executed), or left open.
Recover(m) ==
  /\ stage = "recovering" /\ m \in rtodo
  /\ rtodo' = rtodo \ {m}
  /\ \/ /\ bought[m]
        /\ buy' = [buy EXCEPT ![m] = "reconciled"]
        /\ rdone' = rdone \cup {m}
     \/ buy' = [buy EXCEPT ![m] = "void"] /\ UNCHANGED rdone
     \/ UNCHANGED <<buy, rdone>>
  /\ UNCHANGED <<chainVars, pos, opened, closed, stage, kill, task, seller, exit, crashes>>

\* recover_pending() or the restore raises: start() raises, and what was
\* reconciled before is not restored.
StartFails ==
  /\ stage = "recovering" /\ (rtodo # {} \/ rdone # {})
  /\ stage' = "failed" /\ rtodo' = {} /\ rdone' = {}
  /\ UNCHANGED <<chainVars, storeVars, kill, task, seller, exit, crashes>>

\* A reconciled BUY without a position gets one.
Restore(m) ==
  /\ stage = "recovering" /\ rtodo = {} /\ m \in rdone
  /\ rdone' = rdone \ {m}
  /\ IF pos[m] = 0 THEN Save(m, Tokens) ELSE UNCHANGED <<pos, opened, closed>>
  /\ UNCHANGED <<chainVars, buy, stage, rtodo, kill, task, seller, exit, crashes>>

Started ==
  /\ stage = "recovering" /\ rtodo = {} /\ rdone = {}
  /\ stage' = "running"
  /\ UNCHANGED <<chainVars, storeVars, rtodo, rdone, kill, task, seller, exit, crashes>>

ToggleKillSwitch ==
  /\ stage # "down"
  /\ kill' = ~kill
  /\ UNCHANGED <<chainVars, storeVars, startVars, task, seller, exit, crashes>>

(***************************************************************************)
(* The process dies; the stores and the chain stay.                         *)
(***************************************************************************)

\* Sells that were submitted may land without their caller.
ProcessDies ==
  /\ stage # "down" /\ crashes < MaxCrashes
  /\ crashes' = crashes + 1
  /\ stage' = "down" /\ rtodo' = {} /\ rdone' = {} /\ kill' = FALSE
  /\ task' = [d \in Deliveries |-> IdleTask]
  /\ seller' = [x \in Sellers |-> IdleSeller]
  /\ exit' = IdleExit
  /\ late' = [m \in Markets |-> late[m] \cup
       {seller[x].amount : x \in {y \in Sellers : /\ seller[y].pc = "submitted"
                                                  /\ seller[y].market = m}}]

Crash ==
  /\ ProcessDies
  /\ UNCHANGED <<held, bought, storeVars>>

\* The process dies between mark_reconciled and the position save.
CrashBeforeSave(d) ==
  /\ ProcessDies
  /\ task[d].pc = "submitted" /\ bought[task[d].market]
  /\ buy' = [buy EXCEPT ![task[d].market] = "reconciled"]
  /\ UNCHANGED <<held, bought, pos, opened, closed>>

LaunchStep ==
  \E d \in Deliveries :
    \/ \E m \in Markets : Deliver(d, m)
    \/ SubmitBuy(d) \/ BuyDenied(d) \/ BuyAccepted(d) \/ BuyNotAccepted(d)

SellStep ==
  \E x \in Sellers :
    \/ \E m \in Markets : ManualExit(x, m)
    \/ SubmitSell(x) \/ SellDenied(x) \/ SellLands(x) \/ SellAccepted(x)
    \/ SellNotAccepted(x)

WorkerStep ==
  \/ ReadPositions \/ SlotFails \/ CycleEnds
  \/ \E m \in Markets : SkipPosition(m) \/ HoldPosition(m) \/ SellPosition(m)

StartStep ==
  \/ Start \/ StartFails \/ Started
  \/ \E m \in Markets : Recover(m) \/ Restore(m)

ChainStep ==
  \E m \in Markets :
    BuyLands(m) \/ \E amount \in 1..Tokens : LateSellLands(m, amount)

Next ==
  \/ LaunchStep \/ SellStep \/ WorkerStep \/ StartStep \/ ChainStep
  \/ ToggleKillSwitch \/ Crash \/ \E d \in Deliveries : CrashBeforeSave(d)

Spec == Init /\ [][Next]_vars

\* The event loop runs a worker that can go on, and the port answers it.  No
\* fairness is asked of launches, the operator, the chain or crashes.
WorkerSell ==
  SubmitSell(Worker) \/ SellDenied(Worker) \/ SellAccepted(Worker) \/ SellNotAccepted(Worker)

FairSpec == Spec /\ WF_vars(WorkerStep) /\ WF_vars(WorkerSell)

(***************************************************************************)
(* Properties.                                                              *)
(***************************************************************************)

\* A position of the store is one whose BUY executed and was reconciled: no
\* interleaving of deliveries, exits and restarts shows the exit worker tokens
\* that were never bought (sniper_daemon.py _handle_locked_launch, restore).
PositionIsBought ==
  \A m \in Markets : opened[m] => bought[m] /\ buy[m] = "reconciled"

\* Once a market has had a position, the wallet never holds more of it than
\* the store says: concurrent manual and automatic sells, each saving what it
\* computed before it awaited, never lose sight of tokens
\* (position_exit_worker.py _submit_and_persist).
NoTokensForgotten ==
  \A m \in Markets : opened[m] => held[m] <= pos[m]

\* A launch is bought once: a market that has had a position, closed or not,
\* is never bought into again by a repeated or concurrent delivery, nor by a
\* restart (sniper_daemon.py _buy_intent).
EntriesAreNotRepeated ==
  [][\A m \in Markets : opened[m] => held'[m] <= held[m]]_vars

\* Positions that were opened and never closed: the ones the gate really holds
\* back.  (A HOLD that saves a closed position again is not the gate's doing.)
NeverClosed == {m \in Markets : opened[m] /\ ~closed[m]}

\* The gate counts the rows of the store before it awaits the balance, so
\* concurrent launches pass it together (decision/risk_gatekeeper.py evaluate,
\* sniper_daemon.py _handle_locked_launch): max_open_positions may be exceeded,
\* but only by the launches that were on their way at once, and by nothing as
\* long as they come one by one.  Restarts, which restore without asking the
\* gate, are excepted.
ExposureBounded ==
  crashes = 0 /\ NeverClosed # {} =>
    Cardinality(NeverClosed) < MaxOpen + Cardinality(Deliveries)

\* Without a restart nothing that was bought and reconciled is out of the exit
\* worker's sight: the daemon has no await between mark_reconciled of a BUY and
\* the save of its position (sniper_daemon.py _handle_locked_launch).
NothingLostWithoutCrash ==
  crashes = 0 =>
    \A m \in Markets : buy[m] = "reconciled" /\ held[m] > 0 => pos[m] > 0

\* What becomes of the BUY of a market, in the words of the port's promise.
BuyPhase(m) ==
  CASE buy[m] = "new" -> "new"
    [] buy[m] = "open" -> "handedOver"
    [] buy[m] = "reconciled" -> "done"
    [] buy[m] = "void" -> IF bought[m] THEN "givenUp" ELSE "void"

BuyPort == INSTANCE AtMostOnceExecution WITH
             Intents <- Markets,
             Txs <- Markets,
             phase <- [m \in Markets |-> BuyPhase(m)],
             effects <- [m \in Markets |-> {n \in {m} : bought[m]}]

\* What deliveries, recovery, restarts and late executions do to a BUY are
\* decisions of the promise that LiveExecution keeps: none is handed over or
\* settled twice, and none executes once it is closed (sniper_daemon.py
\* _handle_locked_launch, start; live.py submit).
BuysKeepPromise == BuyPort!Spec

\* A cycle of the exit worker visits its positions and ends: no position, sell
\* or answer of the port makes it spin (position_exit_worker.py run_once).
CyclesEnd == (exit.pc = "cycle") ~> (exit.pc # "cycle")

\* What position_exit_worker.py says of remove(), "Remove one fully exited
\* position.": a position that was fully exited is not in the store.  A HOLD or
\* a sell that read the position before saves it again.
ClosedStaysClosed == \A m \in Markets : closed[m] => pos[m] = 0

\* What TODO.md says of restarts, "Reprise des positions ouvertes apres
\* redemarrage.": when start() has returned, every reconciled BUY whose tokens
\* the wallet holds has its position.
RestartResumesPositions ==
  stage = "running" =>
    \A m \in Markets : buy[m] = "reconciled" /\ held[m] > 0 => pos[m] > 0

\* What position_exit_worker.py says of run_forever(), "Poll until explicitly
\* stopped, independently of the launch watcher.": while the daemon runs, so
\* does its exit worker.
WorkerKeepsPolling == stage = "running" => exit.pc # "dead"
=============================================================================
