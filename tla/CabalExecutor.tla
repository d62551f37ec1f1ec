------------------------- MODULE CabalExecutor -------------------------
(***************************************************************************)
(* The copytrading executor (execution/cabal_executor.py) and its pool of  *)
(* execution wallets (execution/wallet_pool.py).  Every order is an await  *)
(* between what was read before it and what is written after it; with the  *)
(* paper adapter the await does not suspend, with another one the tasks of *)
(* the session interleave there.  Every fill is at one price, so tokens are*)
(* counted in the cash they cost.                                          *)
(***************************************************************************)
EXTENDS Integers, Sequences, FiniteSets

CONSTANTS
    Adapters,      \* subset of {"paper", "live"}: execution adapters
    Wallets,       \* execution wallets of the pool
    MaxPerWallet,  \* max_concurrent_per_wallet
    Balance,       \* initial cash balance
    MinSize,       \* min_position_sol
    Size,          \* max_position_sol
    GasReserve,    \* gas_reserve_sol, kept back from an entry
    Tiers,         \* tiers of the take-profit ladder
    MaxPositions,  \* bound: positions of a session
    MaxFaults,     \* bound: orders that raise, requests that fail
    NoWallet

Actors == {"poller", "stream", "ticker"}
Feeds == {"poller", "stream"}

ASSUME ExecutorAssumption ==
    /\ Adapters \subseteq {"paper", "live"}
    /\ Wallets # {} /\ NoWallet \notin Wallets
    /\ MaxPerWallet \in Nat \ {0}
    /\ Balance \in Nat /\ GasReserve \in Nat
    /\ Size \in Nat \ {0} /\ MinSize \in 1 .. Size
    /\ Tiers \in Nat /\ MaxPositions \in Nat /\ MaxFaults \in Nat

VARIABLES
    adapter,
    cash,        \* cash_balance_sol
    leases,      \* active_trades_count of a wallet
    leaked,      \* history: BUYs of a wallet that raised
    positions,   \* _positions, numbered in the order of their opening
    orders,      \* the order an actor awaits
    queue,       \* positions an actor's loop has still to visit
    overlapped,  \* history: positions two orders were awaited for at once
    stopped,     \* the session ended with an exception
    faults

executorVars == <<adapter, cash, leases, leaked, positions, orders, queue, overlapped,
                  stopped, faults>>

Ids == 1 .. MaxPositions
NoOrder == [kind |-> "none", position |-> 0, amount |-> 0, wallet |-> NoWallet]
Position == [wallet : Wallets, bought : Int, remaining : Int, sold : Int,
             tiers : 0 .. Tiers, closed : BOOLEAN]
Orders == [kind : {"none", "buy", "profit", "stop", "exit"},
           position : 0 .. MaxPositions, amount : Int, wallet : Wallets \cup {NoWallet}]

Opened == DOMAIN positions
Active == {p \in Opened : ~positions[p].closed}

ExecutorTypeOK ==
    /\ adapter \in Adapters
    /\ cash \in Int
    /\ leases \in [Wallets -> Nat] /\ leaked \in [Wallets -> Nat]
    /\ positions \in Seq(Position) /\ Len(positions) <= MaxPositions
    /\ orders \in [Actors -> Orders]
    /\ queue \in [Actors -> SUBSET Ids]
    /\ overlapped \subseteq Ids
    /\ stopped \in BOOLEAN
    /\ faults \in 0 .. MaxFaults

ExecutorInit ==
    /\ adapter \in Adapters
    /\ cash = Balance
    /\ leases = [w \in Wallets |-> 0] /\ leaked = [w \in Wallets |-> 0]
    /\ positions = <<>>
    /\ orders = [a \in Actors |-> NoOrder]
    /\ queue = [a \in Actors |-> {}]
    /\ overlapped = {}
    /\ stopped = FALSE
    /\ faults = 0

Fault == faults < MaxFaults /\ faults' = faults + 1
Waits(a) == orders[a] # NoOrder

-----------------------------------------------------------------------------
(* The pool.                                                               *)

(* acquire_wallet: a wallet below its limit, the rotation says which; the  *)
(* least busy one if there is none.                                        *)
Acquires(w) ==
    LET eligible == {v \in Wallets : leases[v] < MaxPerWallet} IN
    IF eligible # {} THEN w \in eligible ELSE \A v \in Wallets : leases[w] <= leases[v]

(* Mutant: the wallet's count is not raised.                               *)
AcquireUncounted(w) == Acquires(w) /\ UNCHANGED leases

Acquire(w) == Acquires(w) /\ leases' = [leases EXCEPT ![w] = @ + 1]

(* Mutant: the count is not kept from going below zero.                    *)
ReleaseBelowZero(w) == leases' = [leases EXCEPT ![w] = @ - 1]

Release(w) == leases' = [leases EXCEPT ![w] = IF @ > 0 THEN @ - 1 ELSE 0]

-----------------------------------------------------------------------------
(* enter_position.                                                         *)

(* What calculate_entry_size may come to on the cash at hand: its mode, the*)
(* trade copied and the balance give an amount within the bounds, cut to   *)
(* the cash less the reserve unless the reserve is all there is.           *)
EntrySizes ==
    LET spendable == cash - GasReserve IN
    {IF spendable > 0 /\ spendable < raw THEN spendable ELSE raw : raw \in MinSize .. Size}

(* Mutant: whether the balance pays for it is not asked.                   *)
AffordableOrNot(size) == TRUE

Affordable(size) == size <= cash
Buying == {a \in Actors : orders[a].kind = "buy"}

BeginBuy(a) ==
    /\ Len(positions) + Cardinality(Buying) < MaxPositions
    /\ \E w \in Wallets, size \in EntrySizes :
          /\ Affordable(size)
          /\ Acquire(w)
          /\ orders' = [orders EXCEPT ![a] = [kind |-> "buy", position |-> 0,
                                              amount |-> size, wallet |-> w]]
    /\ UNCHANGED <<adapter, cash, leaked, positions, queue, overlapped, stopped, faults>>

(* The receipt is not looked at: the position is opened whatever it says.  *)
EndBuy(a) ==
    LET order == orders[a] IN
    /\ order.kind = "buy"
    /\ positions' = Append(positions,
          [wallet |-> order.wallet, bought |-> order.amount,
           remaining |-> order.amount, sold |-> 0, tiers |-> 0, closed |-> FALSE])
    /\ cash' = cash - order.amount
    /\ orders' = [orders EXCEPT ![a] = NoOrder]
    /\ UNCHANGED <<adapter, leases, leaked, queue, overlapped, stopped, faults>>

-----------------------------------------------------------------------------
(* Orders on a position.                                                   *)

BeginSell(a, p, kind, amount) ==
    /\ orders' = [orders EXCEPT ![a] = [kind |-> kind, position |-> p,
                                        amount |-> amount, wallet |-> NoWallet]]
    /\ overlapped' = IF \E b \in Actors \ {a} : orders[b].position = p
                     THEN overlapped \cup {p} ELSE overlapped

(* A position one of whose tiers has been triggered, and one that an amount*)
(* of has been sold.                                                       *)
Triggered(p) ==
    [wallet |-> positions[p].wallet, bought |-> positions[p].bought,
     remaining |-> positions[p].remaining, sold |-> positions[p].sold,
     tiers |-> positions[p].tiers + 1, closed |-> positions[p].closed]

Sold(p, amount, closes) ==
    [wallet |-> positions[p].wallet, bought |-> positions[p].bought,
     remaining |-> positions[p].remaining - amount,
     sold |-> positions[p].sold + amount,
     tiers |-> positions[p].tiers, closed |-> positions[p].closed \/ closes]

(* The tick of a position: a tier not executed yet sells a fraction of what*)
(* remains, and counts as executed before the order is awaited; the        *)
(* trailing stop sells the rest; or neither is triggered.  A position      *)
(* closed since the list was taken raises, and the session is over.        *)
TakeProfit(a, p) ==
    /\ positions[p].tiers < Tiers
    /\ positions[p].remaining > 0
    /\ positions' = [positions EXCEPT ![p] = Triggered(p)]
    /\ \E amount \in 1 .. positions[p].remaining : BeginSell(a, p, "profit", amount)

StopOut(a, p) ==
    /\ positions[p].remaining > 0
    /\ BeginSell(a, p, "stop", positions[p].remaining)
    /\ UNCHANGED positions

UpdatePriceTick(a, p) ==
    /\ a = "ticker"
    /\ p \in queue[a]
    /\ ~Waits(a)
    /\ queue' = [queue EXCEPT ![a] = @ \ {p}]
    /\ IF positions[p].closed
       THEN stopped' = TRUE /\ UNCHANGED <<positions, orders, overlapped>>
       ELSE /\ \/ TakeProfit(a, p) \/ StopOut(a, p)
               \/ UNCHANGED <<positions, orders, overlapped>>
            /\ UNCHANGED stopped
    /\ UNCHANGED <<adapter, cash, leases, leaked, faults>>

(* Mutant: a position with nothing left is not closed.                     *)
EmptiedBeyond(left) == left < 0

Emptied(left) == left <= 0

(* A tier is filled: what was sold comes off what remains now.  At nothing *)
(* left the position is closed; otherwise the trailing stop is evaluated.  *)
EndTakeProfit(a) ==
    LET order == orders[a]
        p == order.position
        left == positions[p].remaining - order.amount
    IN  /\ order.kind = "profit"
        /\ cash' = cash + order.amount
        /\ positions' = [positions EXCEPT ![p] = Sold(p, order.amount, Emptied(left))]
        /\ IF Emptied(left)
           THEN Release(positions[p].wallet) ELSE UNCHANGED leases
        /\ \/ orders' = [orders EXCEPT ![a] = NoOrder] /\ UNCHANGED overlapped
           \/ ~Emptied(left) /\ left > 0 /\ BeginSell(a, p, "stop", left)
        /\ UNCHANGED <<adapter, leaked, queue, stopped, faults>>

(* A trailing stop or an exit is filled: whatever remains now is sold, the *)
(* position closed and its wallet released.                                *)
EndLiquidation(a) ==
    LET p == orders[a].position IN
    /\ orders[a].kind \in {"stop", "exit"}
    /\ cash' = cash + positions[p].remaining
    /\ positions' = [positions EXCEPT ![p] = Sold(p, positions[p].remaining, TRUE)]
    /\ Release(positions[p].wallet)
    /\ orders' = [orders EXCEPT ![a] = NoOrder]
    /\ UNCHANGED <<adapter, leaked, queue, overlapped, stopped, faults>>

(* exit_position of the next position of an insider's sell; one closed     *)
(* since the list was taken is passed over.                                *)
ExitPosition(a, p) ==
    /\ a \in Feeds
    /\ p \in queue[a]
    /\ ~Waits(a)
    /\ queue' = [queue EXCEPT ![a] = @ \ {p}]
    /\ IF positions[p].closed
       THEN UNCHANGED <<orders, overlapped>>
       ELSE BeginSell(a, p, "exit", positions[p].remaining)
    /\ UNCHANGED <<adapter, cash, leases, leaked, positions, stopped, faults>>

(* An order raises: a BUY leaves its wallet acquired, a sell its position  *)
(* as it is.  The feeds go on with the next trade, the ticker ends the     *)
(* session.                                                                *)
OrderRaises(a) ==
    LET order == orders[a] IN
    /\ Fault
    /\ Waits(a)
    /\ orders' = [orders EXCEPT ![a] = NoOrder]
    /\ queue' = [queue EXCEPT ![a] = {}]
    /\ leaked' = IF order.kind = "buy"
                 THEN [leaked EXCEPT ![order.wallet] = @ + 1] ELSE leaked
    /\ stopped' = (stopped \/ a = "ticker")
    /\ UNCHANGED <<adapter, cash, leases, positions, overlapped>>

EndOrder(a) == EndBuy(a) \/ EndTakeProfit(a) \/ EndLiquidation(a)

-----------------------------------------------------------------------------
(* Properties.                                                             *)

(* The BUYs of a wallet on their way, and its open positions.              *)
InUse(w) ==
    Cardinality({p \in Active : positions[p].wallet = w})
        + Cardinality({a \in Actors : orders[a].kind = "buy" /\ orders[a].wallet = w})

(* active_trades_count is the number of a wallet's open positions and BUYs *)
(* on their way, and of its BUYs that raised.  Only two orders awaited at  *)
(* once for one of its positions may have released it once too often.      *)
LeasesMatchPositions ==
    \A w \in Wallets :
        /\ leases[w] <= InUse(w) + leaked[w]
        /\ (\A p \in overlapped \cap Opened : positions[p].wallet # w)
              => leases[w] = InUse(w) + leaked[w]

(* What was bought is what remains and what was sold; more than was bought *)
(* is sold, and a closed position sold again, only where two orders were   *)
(* awaited at once, which the paper adapter never lets happen.             *)
SoldOnce ==
    /\ \A p \in Opened :
          /\ positions[p].bought = positions[p].remaining + positions[p].sold
          /\ p \notin overlapped =>
                /\ positions[p].remaining >= 0
                /\ positions[p].closed <=> positions[p].remaining = 0
    /\ adapter = "paper" => overlapped = {}

(* The balance pays for what is bought: a BUY is sized on the cash before  *)
(* its await, so that another feed's BUY may overdraw it by one entry, and *)
(* in paper mode nothing does.                                             *)
BalanceCoversEntries ==
    overlapped = {} => cash >= IF adapter = "paper" THEN 0 ELSE -Size
=============================================================================
