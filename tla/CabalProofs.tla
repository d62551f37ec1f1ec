-------------------------- MODULE CabalProofs --------------------------
(***************************************************************************)
(* CabalPipeline for any adapters, wallets, balance, sizes and faults.     *)
(***************************************************************************)
EXTENDS CabalPipeline, FiniteSetTheorems, SequenceTheorems, TLAPS

SellKinds == {"profit", "stop", "exit"}

(* The bound on positions holds what is on its way, too.                   *)
RoomInv == Len(positions) + Cardinality(Buying) <= MaxPositions

(* What an order says of the actor that awaits it and of its position.     *)
OrderInv ==
    /\ \A a \in Actors : queue[a] \subseteq 1 .. Len(positions)
    /\ \A a \in Actors :
          /\ orders[a].kind = "none" => orders[a] = NoOrder
          /\ orders[a].kind = "buy" =>
                /\ a \in Feeds /\ orders[a].wallet \in Wallets
                /\ orders[a].position = 0
                /\ orders[a].amount \in 1 .. Size
          /\ orders[a].kind \in SellKinds =>
                orders[a].position \in 1 .. Len(positions)
          /\ orders[a].kind = "profit" => orders[a].amount \in Nat \ {0}

(* In paper mode at most one actor is in the middle of something.          *)
PaperInv ==
    adapter = "paper" => \A a, b \in Actors : Busy(a) /\ Busy(b) => a = b

Buys(a) == orders[a].kind = "buy"

(* What the balance still covers of the BUYs on their way.                 *)
CashInv ==
    overlapped = {} =>
        /\ adapter = "paper" =>
              cash >= 0 /\ \A a \in Feeds : Buys(a) => cash >= orders[a].amount
        /\ cash >= -Size
        /\ \A a, b \in Feeds :
              a # b /\ Buys(a) =>
                  IF Buys(b) THEN cash >= orders[a].amount \/ cash >= orders[b].amount
                  ELSE cash >= orders[a].amount - Size

-----------------------------------------------------------------------------
(* Steps, by what they do to positions and money.                          *)

moneyVars == <<adapter, cash, leases, leaked, positions, orders, overlapped>>

Entry(a) == a \in Feeds /\ ~Waits(a) /\ BeginBuy(a)

SellsFrom(a, p) ==
    /\ p \in queue[a] /\ ~Waits(a) /\ ~positions[p].closed
    /\ UNCHANGED <<adapter, cash, leases, leaked>>
    /\ \/ TakeProfit(a, p)
       \/ StopOut(a, p)
       \/ UNCHANGED positions /\ BeginSell(a, p, "exit", positions[p].remaining)

MoneyStep(a) ==
    \/ Entry(a) \/ \E p \in Ids : SellsFrom(a, p)
    \/ EndBuy(a) \/ EndTakeProfit(a) \/ EndLiquidation(a)
    \/ OrderRaises(a)

LEMMA HandleSteps ==
  ASSUME NEW a, NEW t, Handle(a, t), ~Waits(a), a \in Feeds
  PROVE  Entry(a) \/ UNCHANGED moneyVars
BY DEF Handle, Entry, moneyVars, executorVars

LEMMA MoneySteps ==
  ASSUME [Next]_vars
  PROVE  UNCHANGED moneyVars \/ (\E a \in Actors : MayRun(a) /\ MoneyStep(a))
<1>1. ASSUME NEW kind \in Kinds, Trade(kind)  PROVE UNCHANGED moneyVars
  BY <1>1 DEF Trade, executorVars, moneyVars
<1>2. ASSUME NEW t \in Txs, StreamTrade(t)
      PROVE  UNCHANGED moneyVars \/ (MayRun("stream") /\ MoneyStep("stream"))
  <2>1. Handle("stream", t) /\ ~Waits("stream") /\ "stream" \in Feeds /\ MayRun("stream")
    BY <1>2 DEF StreamTrade, Busy, Feeds
  <2>2. Entry("stream") \/ UNCHANGED moneyVars
    BY <2>1, HandleSteps
  <2>. QED  BY <2>1, <2>2 DEF MoneyStep
<1>3. ASSUME NEW t \in Txs, PollTrade(t)
      PROVE  UNCHANGED moneyVars \/ (MayRun("poller") /\ MoneyStep("poller"))
  <2>1. ~Waits("poller") /\ "poller" \in Feeds /\ MayRun("poller")
    BY <1>3 DEF PollTrade, Feeds
  <2>2. Handle("poller", t) \/ UNCHANGED moneyVars
    BY <1>3 DEF PollTrade, executorVars, moneyVars
  <2>3. Entry("poller") \/ UNCHANGED moneyVars
    BY <2>1, <2>2, HandleSteps
  <2>. QED  BY <2>1, <2>3 DEF MoneyStep
<1>4. ASSUME Baseline \/ ListSignatures \/ PruneSeen \/ BeginTick
      PROVE  UNCHANGED moneyVars
  BY <1>4 DEF Baseline, ListSignatures, PruneSeen, BeginTick, executorVars, moneyVars
<1>5. ASSUME NEW a \in Actors, ExecutorStep(a)
      PROVE  UNCHANGED moneyVars \/ (MayRun(a) /\ MoneyStep(a))
  <2>1. ASSUME NEW p \in Ids, UpdatePriceTick(a, p)
        PROVE  UNCHANGED moneyVars \/ SellsFrom(a, p)
    BY <2>1 DEF UpdatePriceTick, SellsFrom, moneyVars
  <2>2. ASSUME NEW p \in Ids, ExitPosition(a, p)
        PROVE  UNCHANGED moneyVars \/ SellsFrom(a, p)
    BY <2>2 DEF ExitPosition, SellsFrom, moneyVars
  <2>3. MayRun(a) /\ (EndOrder(a) \/ \E p \in Ids : UpdatePriceTick(a, p) \/ ExitPosition(a, p))
    BY <1>5 DEF ExecutorStep
  <2>4. CASE EndOrder(a)
    BY <2>3, <2>4 DEF EndOrder, MoneyStep
  <2>5. CASE \E p \in Ids : UpdatePriceTick(a, p) \/ ExitPosition(a, p)
    <3>1. UNCHANGED moneyVars \/ \E p \in Ids : SellsFrom(a, p)
      BY <2>1, <2>2, <2>5
    <3>. QED  BY <2>3, <3>1 DEF MoneyStep
  <2>. QED  BY <2>3, <2>4, <2>5
<1>6. ASSUME NEW a \in Actors, Raise(a)  PROVE MayRun(a) /\ MoneyStep(a)
  BY <1>6 DEF Raise, MoneyStep
<1>7. "stream" \in Actors /\ "poller" \in Actors
  BY DEF Actors
<1>. QED  BY <1>1, <1>2, <1>3, <1>4, <1>5, <1>6, <1>7
          DEF Next, Poller, vars, executorVars, moneyVars

-----------------------------------------------------------------------------
(* Types.                                                                  *)

LEMMA Actual ==
  /\ Actors = {"poller", "stream", "ticker"} /\ Feeds = {"poller", "stream"}
  /\ IsFiniteSet(Actors) /\ Feeds \subseteq Actors
<1>1. IsFiniteSet({"poller"})
  BY FS_Singleton
<1>2. IsFiniteSet({"poller"} \cup {"stream"})
  BY <1>1, FS_AddElement
<1>3. IsFiniteSet(({"poller"} \cup {"stream"}) \cup {"ticker"})
  BY <1>2, FS_AddElement
<1>4. Actors = ({"poller"} \cup {"stream"}) \cup {"ticker"}
  BY DEF Actors
<1>. QED  BY <1>3, <1>4 DEF Actors, Feeds

LEMMA Book ==
  ASSUME positions \in Seq(Position)
  PROVE  /\ Len(positions) \in Nat /\ Opened = 1 .. Len(positions)
         /\ \A p \in 1 .. Len(positions) : positions[p] \in Position
BY LenProperties, ElementOfSeq DEF Opened

LEMMA Put ==
  ASSUME positions \in Seq(Position), NEW p \in 1 .. Len(positions), NEW r \in Position,
         positions' = [positions EXCEPT ![p] = r]
  PROVE  /\ positions' \in Seq(Position) /\ Len(positions') = Len(positions)
         /\ \A q \in 1 .. Len(positions) : positions'[q] = IF q = p THEN r ELSE positions[q]
BY ExceptSeq

LEMMA Rewritten ==
  ASSUME TypeOK, NEW p \in 1 .. Len(positions)
  PROVE  /\ positions[p].tiers < Tiers => Triggered(p) \in Position
         /\ \A amount \in Int, closes \in BOOLEAN : Sold(p, amount, closes) \in Position
<1>1. positions[p] \in Position /\ Tiers \in Nat
  BY Book, ExecutorAssumption DEF TypeOK, ExecutorTypeOK
<1>2. positions[p].tiers < Tiers => Triggered(p) \in Position
  BY <1>1 DEF Triggered, Position
<1>3. ASSUME NEW amount \in Int, NEW closes \in BOOLEAN
      PROVE  Sold(p, amount, closes) \in Position
  <2>1. (positions[p].closed \/ closes) \in BOOLEAN
    OBVIOUS
  <2>. QED  BY <1>1, <2>1 DEF Sold, Position
<1>. QED  BY <1>2, <1>3

LEMMA OrderWritten ==
  ASSUME TypeOK, NEW a \in Actors, NEW o \in Orders, orders' = [orders EXCEPT ![a] = o]
  PROVE  /\ orders' \in [Actors -> Orders] /\ orders'[a] = o
         /\ \A b \in Actors : b # a => orders'[b] = orders[b]
BY DEF TypeOK, ExecutorTypeOK

LEMMA NoOrderTyped == NoOrder \in Orders /\ NoOrder.kind = "none" /\ NoOrder.position = 0
BY ExecutorAssumption DEF NoOrder, Orders

LEMMA SellBegins ==
  ASSUME TypeOK, NEW a \in Actors, NEW p \in 1 .. Len(positions), NEW kind \in SellKinds,
         NEW amount \in Int, BeginSell(a, p, kind, amount)
  PROVE  /\ orders' \in [Actors -> Orders]
         /\ orders'[a] = [kind |-> kind, position |-> p, amount |-> amount,
                          wallet |-> NoWallet]
         /\ \A b \in Actors : b # a => orders'[b] = orders[b]
         /\ overlapped' \subseteq overlapped \cup {p} /\ overlapped \subseteq overlapped'
         /\ p \in Ids
         /\ p \notin overlapped' => \A b \in Actors \ {a} : orders[b].position # p
<1>. DEFINE o == [kind |-> kind, position |-> p, amount |-> amount, wallet |-> NoWallet]
<1>1. p \in Ids /\ p \in 0 .. MaxPositions
  BY Book, ExecutorAssumption DEF TypeOK, ExecutorTypeOK, Ids
<1>2. o \in Orders
  BY <1>1 DEF Orders, SellKinds
<1>3. orders' = [orders EXCEPT ![a] = o]
  BY DEF BeginSell
<1>. HIDE DEF o
<1>4. /\ orders' \in [Actors -> Orders] /\ orders'[a] = o
      /\ \A b \in Actors : b # a => orders'[b] = orders[b]
  BY <1>2, <1>3, OrderWritten
<1>. QED  BY <1>1, <1>4 DEF BeginSell, o

(* The BUYs on their way when one order changes.                           *)
LEMMA BuyersChange ==
  ASSUME NEW a \in Actors, \A b \in Actors : b # a => orders'[b] = orders[b]
  PROVE  /\ IsFiniteSet(Buying) /\ Cardinality(Buying) \in Nat
         /\ IsFiniteSet(Buying') /\ Cardinality(Buying') \in Nat
         /\ Buys(a)' /\ ~Buys(a) => Cardinality(Buying') = Cardinality(Buying) + 1
         /\ ~Buys(a)' /\ Buys(a) => Cardinality(Buying') = Cardinality(Buying) - 1
         /\ (Buys(a)' <=> Buys(a)) => Buying' = Buying
<1>1. IsFiniteSet(Buying) /\ IsFiniteSet(Buying')
  BY Actual, FS_Subset DEF Buying
<1>2. Cardinality(Buying) \in Nat /\ Cardinality(Buying') \in Nat
  BY <1>1, FS_CardinalityType
<1>3. ASSUME Buys(a)', ~Buys(a)  PROVE Cardinality(Buying') = Cardinality(Buying) + 1
  <2>1. Buying' = Buying \cup {a} /\ a \notin Buying
    BY <1>3 DEF Buying, Buys
  <2>. QED  BY <1>1, <2>1, FS_AddElement
<1>4. ASSUME ~Buys(a)', Buys(a)  PROVE Cardinality(Buying') = Cardinality(Buying) - 1
  <2>1. Buying' = Buying \ {a} /\ a \in Buying
    BY <1>4 DEF Buying, Buys
  <2>. QED  BY <1>1, <2>1, FS_RemoveElement
<1>5. ASSUME Buys(a)' <=> Buys(a)  PROVE Buying' = Buying
  BY <1>5 DEF Buying, Buys
<1>. QED  BY <1>1, <1>2, <1>3, <1>4, <1>5

(* The types of what a step of an order changes.                           *)
MoneyTyped ==
    /\ adapter \in Adapters
    /\ cash \in Int
    /\ leases \in [Wallets -> Nat] /\ leaked \in [Wallets -> Nat]
    /\ positions \in Seq(Position) /\ Len(positions) <= MaxPositions
    /\ orders \in [Actors -> Orders]
    /\ overlapped \subseteq Ids

(* OrderInv of one actor.                                                  *)
OrderFact(a) ==
    /\ orders[a].kind = "none" => orders[a] = NoOrder
    /\ orders[a].kind = "buy" =>
          /\ a \in Feeds /\ orders[a].wallet \in Wallets
          /\ orders[a].position = 0
          /\ orders[a].amount \in 1 .. Size
    /\ orders[a].kind \in SellKinds =>
          orders[a].position \in 1 .. Len(positions)
    /\ orders[a].kind = "profit" => orders[a].amount \in Nat \ {0}

LEMMA Facts == OrderInv <=> /\ \A a \in Actors : queue[a] \subseteq 1 .. Len(positions)
                           /\ \A a \in Actors : OrderFact(a)
BY DEF OrderInv, OrderFact

Well == MoneyTyped /\ RoomInv /\ \A a \in Actors : OrderFact(a)

LEMMA WellNow == TypeOK /\ OrderInv /\ RoomInv => Well
BY Facts DEF TypeOK, ExecutorTypeOK, MoneyTyped, Well

(* The order of one actor changes, the others keep what was true of them.  *)
LEMMA OthersKeep ==
  ASSUME TypeOK, OrderInv, NEW a \in Actors,
         \A b \in Actors : b # a => orders'[b] = orders[b],
         Len(positions') \in Nat, Len(positions) <= Len(positions')
  PROVE  \A b \in Actors : b # a => OrderFact(b)'
<1>. SUFFICES ASSUME NEW b \in Actors, b # a  PROVE OrderFact(b)'
  OBVIOUS
<1>1. OrderFact(b) /\ orders'[b] = orders[b] /\ Len(positions) \in Nat
  BY Facts, Book DEF TypeOK, ExecutorTypeOK
<1>. QED  BY <1>1 DEF OrderFact

LEMMA ReleaseTypes ==
  ASSUME TypeOK, NEW w \in Wallets, Release(w)
  PROVE  /\ leases' \in [Wallets -> Nat]
         /\ leases'[w] = IF leases[w] > 0 THEN leases[w] - 1 ELSE 0
         /\ \A v \in Wallets : v # w => leases'[v] = leases[v]
BY DEF TypeOK, ExecutorTypeOK, Release

LEMMA EntryWell ==
  ASSUME TypeOK, OrderInv, RoomInv, NEW a \in Actors, Entry(a)
  PROVE  /\ Well'
         /\ \E w \in Wallets :
               /\ orders'[a].kind = "buy" /\ orders'[a].wallet = w
               /\ orders'[a].position = 0
               /\ leases'[w] = leases[w] + 1
               /\ \A v \in Wallets : v # w => leases'[v] = leases[v]
         /\ orders[a] = NoOrder
         /\ orders'[a].amount \in 1 .. Size /\ orders'[a].amount <= cash
         /\ \A b \in Actors : b # a => orders'[b] = orders[b]
<1>1. PICK w \in Wallets, size \in EntrySizes :
         /\ size <= cash
         /\ Acquire(w)
         /\ orders' = [orders EXCEPT ![a] = [kind |-> "buy", position |-> 0,
                                             amount |-> size, wallet |-> w]]
  BY DEF Entry, BeginBuy, Affordable
<1>. DEFINE o == [kind |-> "buy", position |-> 0, amount |-> size, wallet |-> w]
<1>2. size \in 1 .. Size /\ size <= cash
  <2>1. cash \in Int /\ GasReserve \in Nat /\ Size \in Nat \ {0} /\ MinSize \in 1 .. Size
    BY ExecutorAssumption DEF TypeOK, ExecutorTypeOK
  <2>2. PICK raw \in MinSize .. Size :
           size = IF cash - GasReserve > 0 /\ cash - GasReserve < raw
                  THEN cash - GasReserve ELSE raw
    BY DEF EntrySizes
  <2>. QED  BY <1>1, <2>1, <2>2
<1>3. o \in Orders /\ o.kind = "buy" /\ o.position = 0 /\ o.wallet = w /\ o.amount = size
  BY <1>2, ExecutorAssumption DEF Orders
<1>. HIDE DEF o
<1>4. orders' = [orders EXCEPT ![a] = o]
  BY <1>1 DEF o
<1>5. /\ orders' \in [Actors -> Orders] /\ orders'[a] = o
      /\ \A b \in Actors : b # a => orders'[b] = orders[b]
  BY <1>3, <1>4, OrderWritten
<1>6. /\ leases' \in [Wallets -> Nat] /\ leases'[w] = leases[w] + 1
      /\ \A v \in Wallets : v # w => leases'[v] = leases[v]
  BY <1>1 DEF Acquire, TypeOK, ExecutorTypeOK
<1>7. MoneyTyped'
  BY <1>5, <1>6 DEF Entry, BeginBuy, MoneyTyped, TypeOK, ExecutorTypeOK
<1>8. positions' = positions /\ Len(positions) \in Nat
  BY Book DEF Entry, BeginBuy, TypeOK, ExecutorTypeOK
<1>9. orders[a] = NoOrder
  BY DEF Entry, Waits
<1>10. RoomInv'
  <2>1. Buys(a)' /\ ~Buys(a)
    BY <1>3, <1>5, <1>9, NoOrderTyped DEF Buys
  <2>2. Cardinality(Buying') = Cardinality(Buying) + 1 /\ Cardinality(Buying) \in Nat
    BY <1>5, <2>1, BuyersChange
  <2>3. Len(positions) + Cardinality(Buying) < MaxPositions
    BY DEF Entry, BeginBuy
  <2>. QED  BY <1>8, <2>2, <2>3, ExecutorAssumption DEF RoomInv
<1>11. OrderFact(a)'
  BY <1>2, <1>3, <1>5 DEF OrderFact, SellKinds, Entry
<1>12. \A b \in Actors : OrderFact(b)'
  BY <1>5, <1>8, <1>11, OthersKeep
<1>. QED  BY <1>2, <1>3, <1>5, <1>6, <1>7, <1>9, <1>10, <1>12 DEF Well

LEMMA EndBuyWell ==
  ASSUME TypeOK, OrderInv, RoomInv, NEW a \in Actors, EndBuy(a)
  PROVE  /\ Well'
         /\ Buys(a) /\ a \in Feeds /\ orders[a].amount \in 1 .. Size
         /\ orders'[a] = NoOrder /\ \A b \in Actors : b # a => orders'[b] = orders[b]
         /\ Len(positions) \in Nat /\ Len(positions') = Len(positions) + 1
         /\ \A p \in 1 .. Len(positions) : positions'[p] = positions[p]
         /\ positions'[Len(positions) + 1] =
               [wallet |-> orders[a].wallet, bought |-> orders[a].amount,
                remaining |-> orders[a].amount, sold |-> 0, tiers |-> 0, closed |-> FALSE]
         /\ cash' = cash - orders[a].amount
         /\ UNCHANGED <<adapter, leases, leaked, overlapped>>
<1>. DEFINE r == [wallet |-> orders[a].wallet, bought |-> orders[a].amount,
                  remaining |-> orders[a].amount, sold |-> 0, tiers |-> 0, closed |-> FALSE]
<1>1. /\ orders[a].kind = "buy" /\ positions' = Append(positions, r)
      /\ cash' = cash - orders[a].amount /\ orders' = [orders EXCEPT ![a] = NoOrder]
      /\ UNCHANGED <<adapter, leases, leaked, overlapped>>
  BY DEF EndBuy
<1>2. orders[a].wallet \in Wallets /\ orders[a].amount \in 1 .. Size /\ a \in Feeds
  BY <1>1 DEF OrderInv
<1>3. r \in Position
  BY <1>2, ExecutorAssumption DEF Position
<1>4. Len(positions) \in Nat /\ positions \in Seq(Position)
  BY Book DEF TypeOK, ExecutorTypeOK
<1>. HIDE DEF r
<1>5. /\ positions' \in Seq(Position) /\ Len(positions') = Len(positions) + 1
      /\ \A p \in 1 .. Len(positions) : positions'[p] = positions[p]
      /\ positions'[Len(positions) + 1] = r
  BY <1>1, <1>3, <1>4
<1>6. /\ orders' \in [Actors -> Orders] /\ orders'[a] = NoOrder
      /\ \A b \in Actors : b # a => orders'[b] = orders[b]
  BY <1>1, NoOrderTyped, OrderWritten
<1>7. RoomInv' /\ Len(positions') <= MaxPositions
  <2>1. Buys(a) /\ ~Buys(a)'
    BY <1>1, <1>6, NoOrderTyped DEF Buys
  <2>2. Cardinality(Buying') = Cardinality(Buying) - 1 /\ Cardinality(Buying') \in Nat
        /\ Cardinality(Buying) \in Nat
    BY <1>6, <2>1, BuyersChange
  <2>. QED  BY <1>4, <1>5, <2>2, ExecutorAssumption DEF RoomInv
<1>8. MoneyTyped'
  <2>1. cash' \in Int
    BY <1>1, <1>2, ExecutorAssumption DEF TypeOK, ExecutorTypeOK
  <2>. QED  BY <1>1, <1>5, <1>6, <1>7, <2>1 DEF MoneyTyped, TypeOK, ExecutorTypeOK
<1>9. OrderFact(a)'
  BY <1>6, NoOrderTyped DEF OrderFact, SellKinds
<1>10. \A b \in Actors : OrderFact(b)'
  BY <1>4, <1>5, <1>6, <1>9, OthersKeep
<1>. QED  BY <1>1, <1>2, <1>4, <1>5, <1>6, <1>7, <1>8, <1>10 DEF Well, Buys, r

(* A step that leaves the number of positions and the BUYs as they are.    *)
LEMMA SameRoom ==
  ASSUME TypeOK, RoomInv, NEW a \in Actors, Len(positions') = Len(positions),
         \A b \in Actors : b # a => orders'[b] = orders[b],
         ~Buys(a), ~Buys(a)'
  PROVE  RoomInv'
BY BuyersChange DEF RoomInv

LEMMA SellsWell ==
  ASSUME TypeOK, OrderInv, RoomInv, NEW a \in Actors, NEW p \in Ids, SellsFrom(a, p)
  PROVE  /\ Well'
         /\ p \in 1 .. Len(positions) /\ ~positions[p].closed /\ orders[a] = NoOrder
         /\ UNCHANGED <<adapter, cash, leases, leaked>>
         /\ Len(positions') = Len(positions)
         /\ \A q \in 1 .. Len(positions) : q # p => positions'[q] = positions[q]
         /\ positions'[p] \in {positions[p], Triggered(p)}
         /\ \E kind \in SellKinds, amount \in Int :
               /\ BeginSell(a, p, kind, amount)
               /\ kind = "profit" => amount \in 1 .. positions[p].remaining
<1>1. /\ p \in 1 .. Len(positions) /\ ~positions[p].closed /\ orders[a] = NoOrder
      /\ UNCHANGED <<adapter, cash, leases, leaked>>
  BY DEF SellsFrom, OrderInv, Waits
<1>2. positions \in Seq(Position) /\ positions[p] \in Position
  BY <1>1, Book DEF TypeOK, ExecutorTypeOK
<1>3. PICK kind \in SellKinds, amount \in Int :
         /\ BeginSell(a, p, kind, amount)
         /\ kind = "profit" => amount \in 1 .. positions[p].remaining
  <2>1. positions[p].remaining \in Int
    BY <1>2 DEF Position
  <2>2. "profit" \in SellKinds /\ "stop" \in SellKinds /\ "exit" \in SellKinds
    BY DEF SellKinds
  <2>3. CASE TakeProfit(a, p)
    <3>1. PICK amount \in 1 .. positions[p].remaining : BeginSell(a, p, "profit", amount)
      BY <2>3 DEF TakeProfit
    <3>2. amount \in Int
      BY <2>1, <3>1
    <3>. QED  BY <2>2, <3>1, <3>2
  <2>4. CASE StopOut(a, p)
    BY <2>1, <2>2, <2>4 DEF StopOut
  <2>5. CASE BeginSell(a, p, "exit", positions[p].remaining)
    BY <2>1, <2>2, <2>5
  <2>. QED  BY <2>3, <2>4, <2>5 DEF SellsFrom
<1>4. /\ positions' \in Seq(Position) /\ Len(positions') = Len(positions)
      /\ \A q \in 1 .. Len(positions) : q # p => positions'[q] = positions[q]
      /\ positions'[p] \in {positions[p], Triggered(p)}
  <2>1. CASE TakeProfit(a, p)
    BY <1>1, <1>2, <2>1, Rewritten, Put DEF TakeProfit
  <2>2. CASE UNCHANGED positions
    BY <1>1, <1>2, <2>2
  <2>. QED  BY <2>1, <2>2 DEF SellsFrom, StopOut
<1>5. /\ orders' \in [Actors -> Orders]
      /\ orders'[a] = [kind |-> kind, position |-> p, amount |-> amount, wallet |-> NoWallet]
      /\ \A b \in Actors : b # a => orders'[b] = orders[b]
      /\ overlapped' \subseteq overlapped \cup {p}
  BY <1>1, <1>3, SellBegins
<1>6. MoneyTyped'
  BY <1>1, <1>4, <1>5 DEF MoneyTyped, TypeOK, ExecutorTypeOK
<1>7. RoomInv'
  <2>1. ~Buys(a) /\ ~Buys(a)'
    BY <1>1, <1>5, NoOrderTyped DEF Buys, SellKinds
  <2>. QED  BY <1>4, <1>5, <2>1, SameRoom
<1>8. OrderFact(a)'
  BY <1>1, <1>3, <1>4, <1>5 DEF OrderFact, SellKinds
<1>9. \A b \in Actors : OrderFact(b)'
  <2>1. Len(positions) \in Nat
    BY <1>2, Book
  <2>. QED  BY <1>4, <1>5, <1>8, <2>1, OthersKeep
<1>. QED  BY <1>1, <1>3, <1>4, <1>6, <1>7, <1>9 DEF Well

(* What the end of a sale does to its position, whatever comes next.       *)
LEMMA SaleWell ==
  ASSUME TypeOK, OrderInv, RoomInv, NEW a \in Actors, NEW amount \in Int,
         NEW closes \in BOOLEAN, orders[a].kind \in SellKinds,
         positions' = [positions EXCEPT ![orders[a].position] =
                           Sold(orders[a].position, amount, closes)],
         cash' = cash + amount,
         IF closes THEN Release(positions[orders[a].position].wallet)
                   ELSE UNCHANGED leases,
         \/ orders' = [orders EXCEPT ![a] = NoOrder] /\ UNCHANGED overlapped
         \/ \E left \in Int : BeginSell(a, orders[a].position, "stop", left),
         UNCHANGED <<adapter, leaked>>
  PROVE  /\ Well'
         /\ orders[a].position \in 1 .. Len(positions)
         /\ Len(positions') = Len(positions)
         /\ \A q \in 1 .. Len(positions) :
               positions'[q] = IF q = orders[a].position
                               THEN Sold(orders[a].position, amount, closes)
                               ELSE positions[q]
         /\ \A b \in Actors : b # a => orders'[b] = orders[b]
         /\ ~Buys(a) /\ ~Buys(a)'
<1>. DEFINE p == orders[a].position
<1>1. p \in 1 .. Len(positions)
  BY DEF OrderInv
<1>2. positions \in Seq(Position) /\ positions[p] \in Position /\ Len(positions) \in Nat
  BY <1>1, Book DEF TypeOK, ExecutorTypeOK
<1>3. positions[p].wallet \in Wallets
  BY <1>2 DEF Position
<1>4. Sold(p, amount, closes) \in Position
  BY <1>1, Rewritten
<1>5. /\ positions' \in Seq(Position) /\ Len(positions') = Len(positions)
      /\ \A q \in 1 .. Len(positions) :
            positions'[q] = IF q = p THEN Sold(p, amount, closes) ELSE positions[q]
  BY <1>1, <1>2, <1>4, Put
<1>6. leases' \in [Wallets -> Nat]
  BY <1>3, ReleaseTypes DEF TypeOK, ExecutorTypeOK
<1>7. /\ orders' \in [Actors -> Orders] /\ overlapped' \subseteq Ids
      /\ \A b \in Actors : b # a => orders'[b] = orders[b]
      /\ ~Buys(a)' /\ OrderFact(a)'
  <2>1. CASE orders' = [orders EXCEPT ![a] = NoOrder] /\ UNCHANGED overlapped
    <3>1. /\ orders' \in [Actors -> Orders] /\ orders'[a] = NoOrder
          /\ \A b \in Actors : b # a => orders'[b] = orders[b]
      BY <2>1, NoOrderTyped, OrderWritten
    <3>. QED  BY <2>1, <3>1, NoOrderTyped
              DEF Buys, OrderFact, SellKinds, TypeOK, ExecutorTypeOK
  <2>2. ASSUME NEW left \in Int, BeginSell(a, p, "stop", left)
        PROVE  /\ orders' \in [Actors -> Orders] /\ overlapped' \subseteq Ids
               /\ \A b \in Actors : b # a => orders'[b] = orders[b]
               /\ ~Buys(a)' /\ OrderFact(a)'
    <3>1. "stop" \in SellKinds
      BY DEF SellKinds
    <3>2. /\ orders' \in [Actors -> Orders]
          /\ orders'[a] = [kind |-> "stop", position |-> p, amount |-> left,
                           wallet |-> NoWallet]
          /\ \A b \in Actors : b # a => orders'[b] = orders[b]
          /\ overlapped' \subseteq overlapped \cup {p} /\ p \in Ids
      BY <1>1, <2>2, <3>1, SellBegins
    <3>. QED  BY <1>1, <1>5, <3>2 DEF Buys, OrderFact, SellKinds, TypeOK, ExecutorTypeOK
  <2>. QED  BY <2>1, <2>2
<1>8. ~Buys(a)
  BY DEF Buys, SellKinds
<1>9. RoomInv'
  BY <1>5, <1>7, <1>8, SameRoom
<1>10. MoneyTyped'
  BY <1>5, <1>6, <1>7 DEF MoneyTyped, TypeOK, ExecutorTypeOK
<1>11. \A b \in Actors : OrderFact(b)'
  BY <1>2, <1>5, <1>7, OthersKeep
<1>. QED  BY <1>1, <1>5, <1>7, <1>8, <1>9, <1>10, <1>11 DEF Well

(* The end of a tier, a trailing stop or an exit, as one kind of step: an  *)
(* amount is sold, and the position is closed when nothing remains.        *)
SaleOf(a, amount, closes) ==
    LET p == orders[a].position
        left == positions[p].remaining - amount
    IN  /\ orders[a].kind \in SellKinds
        /\ positions' = [positions EXCEPT ![p] = Sold(p, amount, closes)]
        /\ cash' = cash + amount
        /\ IF closes THEN Release(positions[p].wallet) ELSE UNCHANGED leases
        /\ \/ orders' = [orders EXCEPT ![a] = NoOrder] /\ UNCHANGED overlapped
           \/ ~closes /\ left > 0 /\ BeginSell(a, p, "stop", left)
        /\ closes <=> left <= 0
        /\ \/ orders[a].kind = "profit" /\ amount = orders[a].amount
           \/ amount = positions[p].remaining
        /\ UNCHANGED <<adapter, leaked>>

LEMMA SaleEnds ==
  ASSUME TypeOK, OrderInv, NEW a \in Actors, EndTakeProfit(a) \/ EndLiquidation(a)
  PROVE  \E amount \in Int, closes \in BOOLEAN : SaleOf(a, amount, closes)
<1>. DEFINE p == orders[a].position
            r == positions[p].remaining
<1>1. orders[a].kind \in SellKinds
  BY DEF EndTakeProfit, EndLiquidation, SellKinds
<1>2. p \in 1 .. Len(positions) /\ positions[p] \in Position
  BY <1>1, Book DEF OrderInv, TypeOK, ExecutorTypeOK
<1>3. r \in Int /\ orders[a].amount \in Int
  <2>1. orders[a] \in Orders
    BY DEF TypeOK, ExecutorTypeOK
  <2>. QED  BY <1>2, <2>1 DEF Position, Orders
<1>4. CASE EndTakeProfit(a)
  <2>1. Emptied(r - orders[a].amount) <=> r - orders[a].amount <= 0
    BY DEF Emptied
  <2>2. SaleOf(a, orders[a].amount, Emptied(r - orders[a].amount))
    BY <1>1, <1>4, <2>1 DEF EndTakeProfit, SaleOf
  <2>3. Emptied(r - orders[a].amount) \in BOOLEAN
    BY DEF Emptied
  <2>. QED  BY <1>3, <2>2, <2>3
<1>5. CASE EndLiquidation(a)
  <2>1. SaleOf(a, r, TRUE)
    BY <1>1, <1>3, <1>5 DEF EndLiquidation, SaleOf
  <2>. QED  BY <1>3, <2>1
<1>. QED  BY <1>4, <1>5

LEMMA RaiseWell ==
  ASSUME TypeOK, OrderInv, RoomInv, NEW a \in Actors, OrderRaises(a)
  PROVE  /\ Well'
         /\ orders'[a] = NoOrder /\ \A b \in Actors : b # a => orders'[b] = orders[b]
         /\ UNCHANGED <<adapter, cash, leases, positions, overlapped>>
         /\ Len(positions) \in Nat
<1>1. /\ orders' \in [Actors -> Orders] /\ orders'[a] = NoOrder
      /\ \A b \in Actors : b # a => orders'[b] = orders[b]
  BY NoOrderTyped, OrderWritten DEF OrderRaises
<1>2. /\ UNCHANGED <<adapter, cash, leases, positions, overlapped>>
      /\ leaked' = IF orders[a].kind = "buy"
                   THEN [leaked EXCEPT ![orders[a].wallet] = @ + 1] ELSE leaked
  BY DEF OrderRaises
<1>3. leaked' \in [Wallets -> Nat]
  BY <1>2 DEF OrderInv, TypeOK, ExecutorTypeOK
<1>4. Len(positions) \in Nat
  BY Book DEF TypeOK, ExecutorTypeOK
<1>5. MoneyTyped'
  BY <1>1, <1>2, <1>3 DEF MoneyTyped, TypeOK, ExecutorTypeOK
<1>6. RoomInv'
  <2>1. ~Buys(a)' /\ Len(positions') = Len(positions)
    BY <1>1, <1>2, NoOrderTyped DEF Buys
  <2>2. Cardinality(Buying') <= Cardinality(Buying)
        /\ Cardinality(Buying') \in Nat /\ Cardinality(Buying) \in Nat
    BY <1>1, <2>1, BuyersChange
  <2>. QED  BY <1>4, <2>1, <2>2, ExecutorAssumption DEF RoomInv
<1>7. OrderFact(a)'
  BY <1>1, NoOrderTyped DEF OrderFact, SellKinds
<1>8. \A b \in Actors : OrderFact(b)'
  BY <1>1, <1>2, <1>4, <1>7, OthersKeep
<1>. QED  BY <1>1, <1>2, <1>4, <1>5, <1>6, <1>8 DEF Well

LEMMA SaleOfWell ==
  ASSUME TypeOK, OrderInv, RoomInv, NEW a \in Actors, NEW amount \in Int,
         NEW closes \in BOOLEAN, SaleOf(a, amount, closes)
  PROVE  /\ Well'
         /\ orders[a].position \in 1 .. Len(positions)
         /\ Len(positions') = Len(positions)
         /\ \A q \in 1 .. Len(positions) :
               positions'[q] = IF q = orders[a].position
                               THEN Sold(orders[a].position, amount, closes)
                               ELSE positions[q]
         /\ \A b \in Actors : b # a => orders'[b] = orders[b]
         /\ ~Buys(a) /\ ~Buys(a)'
<1>1. orders[a].position \in 1 .. Len(positions)
  BY DEF SaleOf, OrderInv
<1>2. positions[orders[a].position] \in Position
  BY <1>1, Book DEF TypeOK, ExecutorTypeOK
<1>3. positions[orders[a].position].remaining - amount \in Int
  BY <1>2 DEF Position
<1>4. \/ orders' = [orders EXCEPT ![a] = NoOrder] /\ UNCHANGED overlapped
      \/ \E left \in Int : BeginSell(a, orders[a].position, "stop", left)
  BY <1>3 DEF SaleOf
<1>. QED  BY <1>4, SaleWell DEF SaleOf

(* Every step keeps what it says of orders, room and money, and the        *)
(* positions there are.                                                    *)
LEMMA StepWell ==
  ASSUME TypeOK, OrderInv, RoomInv, [Next]_vars
  PROVE  Well' /\ Len(positions) \in Nat /\ Len(positions') >= Len(positions)
<1>1. Len(positions) \in Nat
  BY Book DEF TypeOK, ExecutorTypeOK
<1>2. CASE UNCHANGED moneyVars
  <2>1. Buying' = Buying
    BY <1>2 DEF Buying, moneyVars
  <2>2. \A a \in Actors : OrderFact(a)'
    BY <1>2, Facts DEF OrderFact, moneyVars
  <2>3. MoneyTyped' /\ RoomInv' /\ Len(positions') = Len(positions)
    BY <1>2, <2>1 DEF MoneyTyped, RoomInv, TypeOK, ExecutorTypeOK, moneyVars
  <2>. QED  BY <1>1, <2>2, <2>3 DEF Well
<1>3. ASSUME NEW a \in Actors, MoneyStep(a)
      PROVE  Well' /\ Len(positions') >= Len(positions)
  <2>1. CASE Entry(a)
    <3>1. Well' /\ UNCHANGED positions
      BY <2>1, EntryWell DEF Entry, BeginBuy
    <3>. QED  BY <1>1, <3>1
  <2>2. ASSUME NEW p \in Ids, SellsFrom(a, p)
        PROVE  Well' /\ Len(positions') >= Len(positions)
    BY <1>1, <2>2, SellsWell
  <2>3. CASE EndBuy(a)
    <3>1. Well' /\ Len(positions') = Len(positions) + 1
      BY <2>3, EndBuyWell
    <3>. QED  BY <1>1, <3>1
  <2>4. CASE EndTakeProfit(a) \/ EndLiquidation(a)
    <3>1. PICK amount \in Int, closes \in BOOLEAN : SaleOf(a, amount, closes)
      BY <2>4, SaleEnds
    <3>. QED  BY <1>1, <3>1, SaleOfWell
  <2>5. CASE OrderRaises(a)
    <3>1. Well' /\ UNCHANGED positions
      BY <2>5, RaiseWell
    <3>. QED  BY <1>1, <3>1
  <2>. QED  BY <1>3, <2>1, <2>2, <2>3, <2>4, <2>5 DEF MoneyStep
<1>. QED  BY <1>1, <1>2, <1>3, MoneySteps

-----------------------------------------------------------------------------
(* The rest of the types: the loops, the session, the feeds.               *)

(* A list of positions to visit is taken of those there are, and shrinks.  *)
LEMMA QueueStep ==
  ASSUME TypeOK, OrderInv, [Next]_vars
  PROVE  /\ queue' \in [Actors -> SUBSET (1 .. Len(positions))]
         /\ stopped' \in BOOLEAN /\ faults' \in 0 .. MaxFaults
<1>1. /\ queue \in [Actors -> SUBSET (1 .. Len(positions))]
      /\ Active \subseteq 1 .. Len(positions)
  <2>1. queue = [a \in Actors |-> queue[a]]
    BY DEF TypeOK, ExecutorTypeOK
  <2>2. Active \subseteq 1 .. Len(positions)
    BY Book DEF TypeOK, ExecutorTypeOK, Active
  <2>. QED  BY <2>1, <2>2 DEF OrderInv
<1>2. stopped \in BOOLEAN /\ faults \in 0 .. MaxFaults /\ MaxFaults \in Nat
  BY ExecutorAssumption DEF TypeOK, ExecutorTypeOK
<1>. DEFINE Kept == UNCHANGED <<queue, stopped, faults>>
            Goal == /\ queue' \in [Actors -> SUBSET (1 .. Len(positions))]
                    /\ stopped' \in BOOLEAN /\ faults' \in 0 .. MaxFaults
<1>3. Kept => Goal
  BY <1>1, <1>2
<1>4. Fault => faults' \in 0 .. MaxFaults
  BY <1>2 DEF Fault
<1>5. ASSUME NEW a \in Actors, NEW t, Handle(a, t)  PROVE Goal
  <2>1. CASE BeginBuy(a) \/ UNCHANGED executorVars
    BY <1>3, <2>1 DEF BeginBuy, executorVars
  <2>2. CASE /\ queue' = [queue EXCEPT ![a] = Active]
             /\ UNCHANGED <<stopped, faults>>
    BY <1>1, <1>2, <2>2
  <2>. QED  BY <1>5, <2>1, <2>2 DEF Handle
<1>6. ASSUME NEW kind \in Kinds, Trade(kind)  PROVE Goal
  BY <1>3, <1>6 DEF Trade, executorVars
<1>7. ASSUME NEW t \in Txs, StreamTrade(t)  PROVE Goal
  BY <1>5, <1>7, Actual DEF StreamTrade
<1>8. ASSUME NEW t \in Txs, PollTrade(t)  PROVE Goal
  <2>1. CASE Handle("poller", t)
    BY <1>5, <2>1, Actual
  <2>2. CASE UNCHANGED executorVars
    BY <1>3, <2>2 DEF executorVars
  <2>3. CASE Fault /\ UNCHANGED <<queue, stopped>>
    BY <1>1, <1>2, <1>4, <2>3
  <2>. QED  BY <1>8, <2>1, <2>2, <2>3 DEF PollTrade
<1>9. CASE Baseline
  BY <1>1, <1>2, <1>4, <1>9 DEF Baseline
<1>10. CASE ListSignatures \/ PruneSeen
  BY <1>3, <1>10 DEF ListSignatures, PruneSeen, executorVars
<1>11. CASE BeginTick
  BY <1>1, <1>2, <1>11, Actual DEF BeginTick
<1>12. ASSUME NEW a \in Actors, ExecutorStep(a)  PROVE Goal
  <2>1. CASE EndOrder(a)
    BY <1>3, <2>1 DEF EndOrder, EndBuy, EndTakeProfit, EndLiquidation
  <2>2. ASSUME NEW p \in Ids, UpdatePriceTick(a, p)  PROVE Goal
    BY <1>1, <1>2, <2>2 DEF UpdatePriceTick
  <2>3. ASSUME NEW p \in Ids, ExitPosition(a, p)  PROVE Goal
    BY <1>1, <1>2, <2>3 DEF ExitPosition
  <2>. QED  BY <1>12, <2>1, <2>2, <2>3 DEF ExecutorStep
<1>13. ASSUME NEW a \in Actors, Raise(a)  PROVE Goal
  BY <1>1, <1>2, <1>4, <1>13 DEF Raise, OrderRaises
<1>14. CASE UNCHANGED vars
  BY <1>3, <1>14 DEF vars, executorVars
<1>. QED
  BY <1>6, <1>7, <1>8, <1>9, <1>10, <1>11, <1>12, <1>13, <1>14 DEF Next, Poller

FeedTyped ==
    /\ trades \in Seq(Kinds) /\ Len(trades) <= MaxTrades
    /\ started \in BOOLEAN
    /\ baseline \in 0 .. MaxTrades /\ last \in 0 .. MaxTrades
    /\ seen \subseteq 1 .. Len(trades) /\ todo \subseteq 1 .. Len(trades)
    /\ prunings \in 0 .. MaxPrunings
    /\ polled \cup streamed \cup dropped \cup forgotten \subseteq 1 .. Len(trades)

(* What is seen, listed and handled is what there is.                      *)
LEMMA FeedStep ==
  ASSUME FeedTyped, [Next]_vars
  PROVE  FeedTyped'
<1>1. Len(trades) \in Nat /\ MaxTrades \in Nat /\ MaxPrunings \in Nat
  BY LenProperties, PipelineAssumption DEF FeedTyped
<1>. DEFINE Pruned(all) == seen' \subseteq all /\ prunings' \in 0 .. MaxPrunings
<1>a. ASSUME NEW all, Prune(all)  PROVE Pruned(all)
  BY <1>1, <1>a DEF Prune, FeedTyped
<1>b. ASSUME NEW all, Remember(all)  PROVE Pruned(all)
  BY <1>a, <1>b DEF Remember, FeedTyped
<1>2. ASSUME NEW kind \in Kinds, Trade(kind)  PROVE FeedTyped'
  <2>1. trades' \in Seq(Kinds) /\ Len(trades') = Len(trades) + 1
    BY <1>2 DEF Trade, FeedTyped
  <2>2. 1 .. Len(trades) \subseteq 1 .. Len(trades') /\ Len(trades') <= MaxTrades
    BY <1>1, <1>2, <2>1 DEF Trade
  <2>. QED  BY <1>2, <2>1, <2>2 DEF Trade, FeedTyped
<1>3. ASSUME NEW t \in Txs, StreamTrade(t)  PROVE FeedTyped'
  BY <1>3 DEF StreamTrade, FeedTyped
<1>4. ASSUME NEW t \in Txs, PollTrade(t)  PROVE FeedTyped'
  <2>1. t \in 1 .. Len(trades) /\ t \in 0 .. MaxTrades
    BY <1>1, <1>4 DEF PollTrade, FeedTyped
  <2>2. Pruned(seen \cup {t})
    BY <1>b, <1>4 DEF PollTrade
  <2>3. forgotten' \subseteq forgotten \cup seen \cup {t}
    BY <1>4 DEF PollTrade
  <2>4. polled' \subseteq polled \cup {t} /\ dropped' \subseteq dropped \cup {t}
    BY <1>4 DEF PollTrade
  <2>5. last' = t /\ todo' \subseteq todo /\ UNCHANGED <<trades, started, baseline, streamed>>
    BY <1>4 DEF PollTrade
  <2>. QED  BY <2>1, <2>2, <2>3, <2>4, <2>5 DEF FeedTyped
<1>5. CASE Baseline
  <2>1. Len(trades) \in 0 .. MaxTrades
    BY <1>1 DEF FeedTyped
  <2>2. /\ last' \in 0 .. MaxTrades /\ baseline' \in 0 .. MaxTrades
        /\ seen' \subseteq 1 .. Len(trades) /\ seen \subseteq seen' /\ started' \in BOOLEAN
    <3>1. CASE /\ Len(trades) > 0 /\ last' = Len(trades) /\ baseline' = Len(trades)
               /\ seen' = seen \cup {Len(trades)}
      <4>1. Len(trades) \in 1 .. Len(trades)
        BY <1>1, <3>1
      <4>2. started' = TRUE /\ seen \subseteq 1 .. Len(trades)
        BY <1>5 DEF Baseline, FeedTyped
      <4>. QED  BY <2>1, <3>1, <4>1, <4>2
    <3>2. CASE UNCHANGED <<last, seen, baseline>>
      BY <1>5, <3>2 DEF Baseline, FeedTyped
    <3>. QED  BY <1>5, <3>1, <3>2 DEF Baseline
  <2>3. UNCHANGED <<trades, todo, polled, streamed, dropped, forgotten, prunings>>
    BY <1>5 DEF Baseline
  <2>. QED  BY <2>2, <2>3 DEF FeedTyped
<1>6. CASE ListSignatures
  BY <1>6 DEF ListSignatures, NewSignatures, Page, FeedTyped
<1>11. CASE PruneSeen
  <2>1. Pruned(seen) /\ forgotten' \subseteq forgotten \cup seen
    BY <1>a, <1>11 DEF PruneSeen
  <2>. QED  BY <1>11, <2>1 DEF PruneSeen, FeedTyped
<1>7. CASE BeginTick
  BY <1>7 DEF BeginTick, feedVars, FeedTyped
<1>8. ASSUME NEW a \in Actors, ExecutorStep(a)  PROVE FeedTyped'
  BY <1>8 DEF ExecutorStep, feedVars, FeedTyped
<1>9. ASSUME NEW a \in Actors, Raise(a)  PROVE FeedTyped'
  BY <1>9 DEF Raise, FeedTyped
<1>10. CASE UNCHANGED vars
  BY <1>10 DEF vars, feedVars, FeedTyped
<1>. QED
  BY <1>2, <1>3, <1>4, <1>5, <1>6, <1>7, <1>8, <1>9, <1>10, <1>11 DEF Next, Poller

TypeInv == TypeOK /\ OrderInv /\ RoomInv

LEMMA TypeInit == Init => TypeInv
<1>. SUFFICES ASSUME Init  PROVE TypeInv
  OBVIOUS
<1>1. /\ positions = <<>> /\ Len(positions) = 0 /\ positions \in Seq(Position)
      /\ orders = [a \in Actors |-> NoOrder] /\ queue = [a \in Actors |-> {}]
  BY DEF Init, ExecutorInit
<1>2. ExecutorTypeOK
  <2>1. orders \in [Actors -> Orders] /\ queue \in [Actors -> SUBSET Ids]
    BY <1>1, NoOrderTyped
  <2>2. /\ adapter \in Adapters /\ cash \in Int
        /\ leases \in [Wallets -> Nat] /\ leaked \in [Wallets -> Nat]
        /\ overlapped \subseteq Ids /\ stopped \in BOOLEAN /\ faults \in 0 .. MaxFaults
    <3>1. /\ adapter \in Adapters /\ cash = Balance /\ overlapped = {}
          /\ leases = [w \in Wallets |-> 0] /\ leaked = [w \in Wallets |-> 0]
          /\ stopped = FALSE /\ faults = 0
      BY DEF Init, ExecutorInit
    <3>2. 0 \in 0 .. MaxFaults /\ Balance \in Int
      BY ExecutorAssumption
    <3>3. [w \in Wallets |-> 0] \in [Wallets -> Nat]
      OBVIOUS
    <3>. QED  BY <3>1, <3>2, <3>3
  <2>3. Len(positions) <= MaxPositions
    BY <1>1, ExecutorAssumption
  <2>. QED  BY <1>1, <2>1, <2>2, <2>3 DEF ExecutorTypeOK
<1>3. trades \in Seq(Kinds) /\ Len(trades) \in 0 .. MaxTrades
  <2>1. PICK n \in 0 .. MaxTrades : trades \in [1 .. n -> Kinds]
    BY DEF Init
  <2>2. n \in Nat
    BY <2>1
  <2>. QED  BY <2>1, <2>2, SeqDef, LenProperties
<1>4. FeedTyped
  <2>1. Len(trades) <= MaxTrades /\ baseline \in 0 .. MaxTrades /\ last \in 0 .. MaxTrades
    BY <1>3, PipelineAssumption DEF Init, None
  <2>2. /\ started \in BOOLEAN /\ seen = {} /\ todo = {}
        /\ polled = {} /\ streamed = {} /\ dropped = {} /\ forgotten = {}
        /\ prunings = 0
    BY DEF Init
  <2>3. 0 \in 0 .. MaxPrunings
    BY PipelineAssumption
  <2>. QED  BY <1>3, <2>1, <2>2, <2>3 DEF FeedTyped
<1>5. OrderInv
  BY <1>1, NoOrderTyped DEF OrderInv, SellKinds
<1>6. RoomInv
  <2>1. Buying = {}
    BY <1>1, NoOrderTyped DEF Buying
  <2>. QED  BY <1>1, <2>1, FS_EmptySet, ExecutorAssumption DEF RoomInv
<1>. QED  BY <1>2, <1>4, <1>5, <1>6 DEF TypeInv, TypeOK, FeedTyped

LEMMA TypeStep == TypeInv /\ [Next]_vars => TypeInv'
<1>. SUFFICES ASSUME TypeInv, [Next]_vars  PROVE TypeInv'
  OBVIOUS
<1>1. /\ Well' /\ Len(positions) \in Nat /\ Len(positions') >= Len(positions)
      /\ queue' \in [Actors -> SUBSET (1 .. Len(positions))]
      /\ stopped' \in BOOLEAN /\ faults' \in 0 .. MaxFaults
  BY StepWell, QueueStep DEF TypeInv
<1>2. FeedTyped'
  BY FeedStep DEF TypeInv, TypeOK, FeedTyped
<1>3. Len(positions') \in Nat /\ Len(positions') <= MaxPositions
  BY <1>1, Book DEF Well, MoneyTyped
<1>4. 1 .. Len(positions) \subseteq 1 .. Len(positions') /\ 1 .. Len(positions') \subseteq Ids
  BY <1>1, <1>3, ExecutorAssumption DEF Ids
<1>5. queue' \in [Actors -> SUBSET Ids]
  BY <1>1, <1>4
<1>6. \A a \in Actors : queue'[a] \subseteq 1 .. Len(positions')
  BY <1>1, <1>4
<1>7. OrderInv'
  BY <1>1, <1>6 DEF Well, OrderInv, OrderFact
<1>8. ExecutorTypeOK'
  BY <1>1, <1>5 DEF Well, MoneyTyped, ExecutorTypeOK
<1>. QED  BY <1>1, <1>2, <1>7, <1>8 DEF Well, TypeInv, TypeOK, FeedTyped

LEMMA TypeAlways == Spec => []TypeInv
BY TypeInit, TypeStep, PTL DEF Spec

(* Every variable keeps its type: the bounds on positions hold with what is*)
(* on its way, an order is for a position there is, and nothing is listed, *)
(* seen or handled but transactions of the wallet.                         *)
THEOREM TypeCorrect == Spec => []TypeOK
<1>1. TypeInv => TypeOK
  BY DEF TypeInv
<1>. QED  BY <1>1, TypeAlways, PTL

-----------------------------------------------------------------------------
(* What is sold.                                                           *)

(* SoldOnce of one position.  An order on a position that never had two at *)
(* once is alone there, finds it open and sells no more than there is.     *)
Balanced(p) ==
    /\ positions[p].bought = positions[p].remaining + positions[p].sold
    /\ p \notin overlapped =>
          /\ positions[p].remaining >= 0
          /\ positions[p].closed <=> positions[p].remaining = 0

Alone(p, a) ==
    p \notin overlapped /\ orders[a].position = p =>
        /\ ~positions[p].closed
        /\ orders[a].kind = "profit" => orders[a].amount <= positions[p].remaining
        /\ \A b \in Actors : orders[b].position = p => a = b

BooksOK ==
    \A p \in 1 .. Len(positions) : Balanced(p) /\ \A a \in Actors : Alone(p, a)

LEMMA Positioned ==
  ASSUME TypeInv, NEW a \in Actors
  PROVE  orders[a].position \in 0 .. Len(positions)
         /\ (orders[a] = NoOrder => orders[a].position = 0)
         /\ orders[a].amount \in Int
<1>1. OrderFact(a) /\ orders[a] \in Orders /\ Len(positions) \in Nat
  BY Facts, Book DEF TypeInv, TypeOK, ExecutorTypeOK
<1>2. orders[a].kind \in {"none", "buy"} \cup SellKinds /\ orders[a].amount \in Int
  BY <1>1 DEF Orders, SellKinds
<1>3. orders[a] = NoOrder => orders[a].position = 0
  BY NoOrderTyped
<1>. QED  BY <1>1, <1>2, <1>3 DEF OrderFact, SellKinds

LEMMA Numbers ==
  ASSUME TypeInv, NEW p \in 1 .. Len(positions)
  PROVE  /\ positions[p].bought \in Int /\ positions[p].remaining \in Int
         /\ positions[p].sold \in Int /\ positions[p].closed \in BOOLEAN
         /\ positions[p].wallet \in Wallets
<1>1. positions[p] \in Position
  BY Book DEF TypeInv, TypeOK, ExecutorTypeOK
<1>. QED  BY <1>1 DEF Position

(* The order of an actor goes: what is said of the others stands.          *)
LEMMA AloneKept ==
  ASSUME TypeInv, NEW a \in Actors, NEW p \in 1 .. Len(positions),
         \A b \in Actors : Alone(p, b),
         \A b \in Actors : b # a => orders'[b] = orders[b],
         orders'[a].position # p, overlapped \subseteq overlapped',
         positions'[p].closed = positions[p].closed,
         positions'[p].remaining = positions[p].remaining
  PROVE  \A b \in Actors : Alone(p, b)'
BY DEF Alone

LEMMA BooksEntry ==
  ASSUME TypeInv, BooksOK, NEW a \in Actors, Entry(a)
  PROVE  BooksOK'
<1>1. /\ orders'[a].position = 0 /\ \A b \in Actors : b # a => orders'[b] = orders[b]
      /\ UNCHANGED <<positions, overlapped>>
  <2>1. UNCHANGED <<positions, overlapped>>
    BY DEF Entry, BeginBuy
  <2>2. /\ \E w \in Wallets : orders'[a].position = 0
        /\ \A b \in Actors : b # a => orders'[b] = orders[b]
    BY EntryWell DEF TypeInv
  <2>. QED  BY <2>1, <2>2
<1>. SUFFICES ASSUME NEW p \in 1 .. Len(positions)
              PROVE  Balanced(p)' /\ \A b \in Actors : Alone(p, b)'
  BY <1>1 DEF BooksOK
<1>2. Balanced(p)'
  BY <1>1 DEF BooksOK, Balanced
<1>3. \A b \in Actors : Alone(p, b)'
  BY <1>1, AloneKept DEF BooksOK
<1>. QED  BY <1>2, <1>3

LEMMA BooksSells ==
  ASSUME TypeInv, BooksOK, NEW a \in Actors, NEW p \in Ids, SellsFrom(a, p)
  PROVE  BooksOK'
<1>1. /\ p \in 1 .. Len(positions) /\ ~positions[p].closed
      /\ Len(positions') = Len(positions)
      /\ \A q \in 1 .. Len(positions) : q # p => positions'[q] = positions[q]
      /\ positions'[p] \in {positions[p], Triggered(p)}
  BY SellsWell DEF TypeInv
<1>2. PICK kind \in SellKinds, amount \in Int :
         /\ BeginSell(a, p, kind, amount)
         /\ kind = "profit" => amount \in 1 .. positions[p].remaining
  BY SellsWell DEF TypeInv
<1>3. /\ orders'[a] = [kind |-> kind, position |-> p, amount |-> amount, wallet |-> NoWallet]
      /\ \A b \in Actors : b # a => orders'[b] = orders[b]
      /\ overlapped \subseteq overlapped'
      /\ p \notin overlapped' => \A b \in Actors \ {a} : orders[b].position # p
  BY <1>1, <1>2, SellBegins DEF TypeInv
<1>4. /\ positions'[p].closed = positions[p].closed
      /\ positions'[p].remaining = positions[p].remaining
      /\ positions'[p].bought = positions[p].bought /\ positions'[p].sold = positions[p].sold
  BY <1>1 DEF Triggered
<1>. SUFFICES ASSUME NEW q \in 1 .. Len(positions)
              PROVE  Balanced(q)' /\ \A b \in Actors : Alone(q, b)'
  BY <1>1 DEF BooksOK
<1>5. Balanced(q)'
  BY <1>1, <1>3, <1>4 DEF BooksOK, Balanced
<1>6. CASE q # p
  BY <1>1, <1>3, <1>5, <1>6, AloneKept DEF BooksOK
<1>7. CASE q = p
  <2>1. ASSUME NEW b \in Actors  PROVE Alone(p, b)'
    <3>1. CASE p \in overlapped' \/ orders'[b].position # p
      BY <3>1 DEF Alone
    <3>2. CASE p \notin overlapped' /\ orders'[b].position = p
      <4>1. b = a /\ \A c \in Actors : orders'[c].position = p => c = a
        BY <1>3, <3>2
      <4>2. orders'[a].kind = "profit" => orders'[a].amount <= positions[p].remaining
        BY <1>1, <1>2, <1>3, Numbers
      <4>. QED  BY <1>1, <1>4, <4>1, <4>2 DEF Alone
    <3>. QED  BY <3>1, <3>2
  <2>. QED  BY <1>5, <1>7, <2>1
<1>. QED  BY <1>6, <1>7

LEMMA BooksBuy ==
  ASSUME TypeInv, BooksOK, NEW a \in Actors, EndBuy(a)
  PROVE  BooksOK'
<1>1. /\ orders[a].amount \in 1 .. Size
      /\ orders'[a] = NoOrder /\ \A b \in Actors : b # a => orders'[b] = orders[b]
      /\ Len(positions) \in Nat /\ Len(positions') = Len(positions) + 1
      /\ \A p \in 1 .. Len(positions) : positions'[p] = positions[p]
      /\ positions'[Len(positions) + 1] =
               [wallet |-> orders[a].wallet, bought |-> orders[a].amount,
                remaining |-> orders[a].amount, sold |-> 0, tiers |-> 0, closed |-> FALSE]
  BY EndBuyWell DEF TypeInv
<1>2. overlapped' = overlapped
  BY DEF EndBuy
<1>3. \A b \in Actors : orders'[b].position \in 0 .. Len(positions)
  BY <1>1, Positioned, NoOrderTyped
<1>. SUFFICES ASSUME NEW p \in 1 .. Len(positions) + 1
              PROVE  Balanced(p)' /\ \A b \in Actors : Alone(p, b)'
  BY <1>1 DEF BooksOK
<1>4. CASE p \in 1 .. Len(positions)
  <2>1. Balanced(p)'
    BY <1>1, <1>2, <1>4 DEF BooksOK, Balanced
  <2>2. orders'[a].position # p
    BY <1>1, <1>4, NoOrderTyped
  <2>. QED  BY <1>1, <1>2, <1>4, <2>1, <2>2, AloneKept DEF BooksOK
<1>5. CASE p = Len(positions) + 1
  <2>1. Balanced(p)'
    <3>1. /\ positions'[p].bought = orders[a].amount
          /\ positions'[p].remaining = orders[a].amount
          /\ positions'[p].sold = 0 /\ positions'[p].closed = FALSE
      BY <1>1, <1>5
    <3>2. orders[a].amount \in Int /\ orders[a].amount > 0
      BY <1>1, ExecutorAssumption
    <3>. QED  BY <3>1, <3>2 DEF Balanced
  <2>2. \A b \in Actors : orders'[b].position # p
    BY <1>1, <1>3, <1>5
  <2>. QED  BY <2>1, <2>2 DEF Alone
<1>. QED  BY <1>1, <1>4, <1>5

LEMMA Moved ==
  ASSUME NEW bought \in Int, NEW rest \in Int, NEW sold \in Int, NEW amount \in Int,
         NEW left \in Int, bought = rest + sold, left = rest - amount
  PROVE  bought = left + (sold + amount)
OBVIOUS

LEMMA BooksSale ==
  ASSUME TypeInv, BooksOK, NEW a \in Actors, NEW amount \in Int, NEW closes \in BOOLEAN,
         SaleOf(a, amount, closes)
  PROVE  BooksOK'
<1>a. PICK p \in 1 .. Len(positions) : p = orders[a].position
  BY SaleOfWell DEF TypeInv
<1>b. PICK left \in Int : left = positions[p].remaining - amount
  BY Numbers
<1>1. /\ p \in 1 .. Len(positions) /\ Len(positions') = Len(positions)
      /\ \A q \in 1 .. Len(positions) :
            positions'[q] = IF q = p THEN Sold(p, amount, closes) ELSE positions[q]
      /\ \A b \in Actors : b # a => orders'[b] = orders[b]
  BY <1>a, SaleOfWell DEF TypeInv
<1>2. /\ overlapped \subseteq overlapped'
      /\ orders'[a].position \in {0, p}
      /\ orders'[a].position = p => orders'[a].kind # "profit" /\ ~closes
  <2>1. CASE orders' = [orders EXCEPT ![a] = NoOrder] /\ UNCHANGED overlapped
    <3>1. orders'[a].position = 0
      BY <2>1, NoOrderTyped, OrderWritten DEF TypeInv
    <3>. QED  BY <1>1, <2>1, <3>1
  <2>2. CASE ~closes /\ left > 0 /\ BeginSell(a, p, "stop", left)
    <3>1. "stop" \in SellKinds
      BY DEF SellKinds
    <3>2. /\ overlapped \subseteq overlapped'
          /\ orders'[a] = [kind |-> "stop", position |-> p, amount |-> left,
                           wallet |-> NoWallet]
      BY <2>2, <3>1, SellBegins DEF TypeInv
    <3>. QED  BY <2>2, <3>2
  <2>. QED  BY <1>a, <1>b, <2>1, <2>2 DEF SaleOf
<1>3. /\ closes <=> left <= 0
      /\ \/ orders[a].kind = "profit" /\ amount = orders[a].amount
         \/ amount = positions[p].remaining
  BY <1>b, <1>a DEF SaleOf
<1>4. /\ positions'[p].bought = positions[p].bought
      /\ positions'[p].remaining = left
      /\ positions'[p].sold = positions[p].sold + amount
      /\ positions'[p].closed = (positions[p].closed \/ closes)
  BY <1>a, <1>b, <1>1 DEF Sold
<1>5. /\ positions[p].remaining \in Int /\ positions[p].bought \in Int
      /\ positions[p].sold \in Int /\ positions[p].closed \in BOOLEAN
  BY <1>1, Numbers
<1>6. Balanced(p) /\ Alone(p, a)
  BY <1>1 DEF BooksOK
<1>. SUFFICES ASSUME NEW q \in 1 .. Len(positions)
              PROVE  Balanced(q)' /\ \A b \in Actors : Alone(q, b)'
  BY <1>1 DEF BooksOK
<1>8. CASE q # p
  <2>1. positions'[q] = positions[q] /\ orders'[a].position # q
    BY <1>1, <1>2, <1>8
  <2>2. Balanced(q)'
    BY <1>2, <2>1 DEF BooksOK, Balanced
  <2>. QED  BY <1>1, <1>2, <2>1, <2>2, AloneKept DEF BooksOK
<1>9. CASE q = p
  <2>1. Balanced(p)'
    <3>1. positions'[p].bought = positions'[p].remaining + positions'[p].sold
      <4>1. positions[p].bought = positions[p].remaining + positions[p].sold
        BY <1>6 DEF Balanced
      <4>2. positions[p].bought = left + (positions[p].sold + amount)
        BY <1>b, <1>5, <4>1, Moved
      <4>. QED  BY <1>4, <4>2
    <3>2. ASSUME p \notin overlapped'
          PROVE  /\ positions'[p].remaining >= 0
                 /\ positions'[p].closed <=> positions'[p].remaining = 0
      <4>1. /\ ~positions[p].closed /\ positions[p].remaining >= 0
            /\ orders[a].kind = "profit" => orders[a].amount <= positions[p].remaining
        BY <1>a, <1>2, <1>6, <3>2 DEF Balanced, Alone
      <4>2. amount <= positions[p].remaining
        BY <1>3, <1>5, <4>1
      <4>3. left >= 0 /\ left \in Int
        BY <1>b, <1>5, <4>2
      <4>4. closes <=> left = 0
        BY <1>3, <4>3
      <4>. QED  BY <1>4, <4>1, <4>3, <4>4
    <3>. QED  BY <3>1, <3>2 DEF Balanced
  <2>2. ASSUME NEW b \in Actors, p \notin overlapped', orders'[b].position = p
        PROVE  /\ ~positions'[p].closed
               /\ orders'[b].kind # "profit"
               /\ \A c \in Actors : orders'[c].position = p => b = c
    <3>1. p \notin overlapped /\ orders[a].position = p
      BY <1>a, <1>2, <2>2
    <3>2. ~positions[p].closed /\ \A c \in Actors : orders[c].position = p => a = c
      BY <1>6, <3>1 DEF Alone
    <3>3. \A c \in Actors : orders'[c].position = p => c = a
      BY <1>1, <3>2
    <3>4. b = a
      BY <2>2, <3>3
    <3>. QED  BY <1>2, <1>4, <2>2, <3>2, <3>3, <3>4
  <2>. QED  BY <1>9, <2>1, <2>2 DEF Alone
<1>. QED  BY <1>8, <1>9

LEMMA BooksRaise ==
  ASSUME TypeInv, BooksOK, NEW a \in Actors, OrderRaises(a)
  PROVE  BooksOK'
<1>1. /\ orders'[a].position = 0 /\ \A b \in Actors : b # a => orders'[b] = orders[b]
      /\ UNCHANGED <<positions, overlapped>>
  BY RaiseWell, NoOrderTyped DEF TypeInv
<1>. SUFFICES ASSUME NEW p \in 1 .. Len(positions)
              PROVE  Balanced(p)' /\ \A b \in Actors : Alone(p, b)'
  BY <1>1 DEF BooksOK
<1>2. Balanced(p)'
  BY <1>1 DEF BooksOK, Balanced
<1>3. \A b \in Actors : Alone(p, b)'
  BY <1>1, AloneKept DEF BooksOK
<1>. QED  BY <1>2, <1>3

LEMMA BooksStep ==
  ASSUME TypeInv, BooksOK, [Next]_vars
  PROVE  BooksOK'
<1>1. CASE UNCHANGED moneyVars
  BY <1>1 DEF BooksOK, Balanced, Alone, moneyVars
<1>2. ASSUME NEW a \in Actors, MoneyStep(a)
      PROVE  BooksOK'
  <2>1. CASE EndTakeProfit(a) \/ EndLiquidation(a)
    <3>1. PICK amount \in Int, closes \in BOOLEAN : SaleOf(a, amount, closes)
      BY <2>1, SaleEnds DEF TypeInv
    <3>. QED  BY <3>1, BooksSale
  <2>. QED  BY <1>2, <2>1, BooksEntry, BooksSells, BooksBuy, BooksRaise DEF MoneyStep
<1>. QED  BY <1>1, <1>2, MoneySteps

-----------------------------------------------------------------------------
(* Paper mode: an await that does not suspend.                             *)

LEMMA BusyStep ==
  ASSUME TypeInv, [Next]_vars
  PROVE  \/ \A b \in Actors : Busy(b)' => Busy(b)
         \/ \E a \in Actors : MayRun(a) /\ \A b \in Actors : b # a /\ Busy(b)' => Busy(b)
<1>1. orders \in [Actors -> Orders] /\ queue \in [Actors -> SUBSET Ids]
  BY DEF TypeInv, TypeOK, ExecutorTypeOK
<1>. DEFINE Rest(a) == \A b \in Actors : b # a /\ Busy(b)' => Busy(b)
<1>2. ASSUME NEW a \in Actors, NEW t, Handle(a, t), todo' \subseteq todo
      PROVE  Rest(a)
  <2>1. \A b \in Actors : b # a => orders'[b] = orders[b] /\ queue'[b] = queue[b]
    BY <1>1, <1>2 DEF Handle, BeginBuy, executorVars
  <2>. QED  BY <1>2, <2>1 DEF Busy, Waits
<1>3. ASSUME NEW a \in Actors, UNCHANGED todo,
             \A b \in Actors : b # a => orders'[b] = orders[b] /\ queue'[b] = queue[b]
      PROVE  Rest(a)
  BY <1>3 DEF Busy, Waits
<1>4. ASSUME NEW kind \in Kinds, Trade(kind)  PROVE \A b \in Actors : Busy(b)' => Busy(b)
  BY <1>4 DEF Trade, executorVars, Busy, Waits
<1>5. ASSUME NEW t \in Txs, StreamTrade(t)  PROVE MayRun("stream") /\ Rest("stream")
  BY <1>2, <1>5, Actual DEF StreamTrade
<1>6. ASSUME NEW t \in Txs, PollTrade(t)  PROVE MayRun("poller") /\ Rest("poller")
  <2>1. CASE Handle("poller", t)
    BY <1>2, <1>6, <2>1, Actual DEF PollTrade
  <2>2. CASE UNCHANGED <<orders, queue>>
    BY <1>6, <2>2 DEF PollTrade, Busy, Waits
  <2>. QED  BY <1>6, <2>1, <2>2 DEF PollTrade, executorVars
<1>7. CASE Baseline
  BY <1>7 DEF Baseline, Busy, Waits
<1>13. CASE PruneSeen
  BY <1>13 DEF PruneSeen, executorVars, Busy, Waits
<1>8. CASE ListSignatures
  <2>1. MayRun("poller") /\ Rest("poller")
    BY <1>8 DEF ListSignatures, executorVars, Busy, Waits
  <2>. QED  BY <2>1, Actual
<1>9. CASE BeginTick
  <2>1. MayRun("ticker") /\ Rest("ticker")
    BY <1>1, <1>3, <1>9, Actual DEF BeginTick, feedVars
  <2>. QED  BY <2>1, Actual
<1>10. ASSUME NEW a \in Actors, ExecutorStep(a)  PROVE MayRun(a) /\ Rest(a)
  <2>1. MayRun(a) /\ UNCHANGED todo
    BY <1>10 DEF ExecutorStep, feedVars
  <2>2. CASE EndOrder(a)
    BY <1>1, <1>3, <2>1, <2>2
       DEF EndOrder, EndBuy, EndTakeProfit, EndLiquidation, BeginSell
  <2>3. ASSUME NEW p \in Ids, UpdatePriceTick(a, p) \/ ExitPosition(a, p)  PROVE Rest(a)
    BY <1>1, <1>3, <2>1, <2>3
       DEF UpdatePriceTick, ExitPosition, TakeProfit, StopOut, BeginSell
  <2>. QED  BY <1>10, <2>1, <2>2, <2>3 DEF ExecutorStep
<1>11. ASSUME NEW a \in Actors, Raise(a)  PROVE MayRun(a) /\ Rest(a)
  <2>1. \A b \in Actors : b # a => orders'[b] = orders[b] /\ queue'[b] = queue[b]
    BY <1>1, <1>11 DEF Raise, OrderRaises
  <2>. QED  BY <1>11, <2>1 DEF Raise, Busy, Waits
<1>12. CASE UNCHANGED vars
  BY <1>12 DEF vars, executorVars, feedVars, Busy, Waits
<1>. QED
  BY <1>4, <1>5, <1>6, <1>7, <1>8, <1>9, <1>10, <1>11, <1>12, <1>13, Actual
     DEF Next, Poller

LEMMA AdapterKept == ASSUME TypeInv, [Next]_vars  PROVE adapter' = adapter
<1>1. ASSUME NEW a \in Actors, MoneyStep(a)  PROVE adapter' = adapter
  BY <1>1 DEF MoneyStep, Entry, BeginBuy, SellsFrom, EndBuy, EndTakeProfit, EndLiquidation,
              OrderRaises
<1>. QED  BY <1>1, MoneySteps DEF moneyVars

(* In paper mode one actor acts at a time, so that no position ever has two*)
(* orders.                                                                 *)
PaperSafe == PaperInv /\ (adapter = "paper" => overlapped = {})

LEMMA PaperStep ==
  ASSUME TypeInv, PaperSafe, [Next]_vars
  PROVE  PaperSafe'
<1>1. adapter' = adapter
  BY AdapterKept
<1>2. PaperInv'
  <2>1. CASE \A b \in Actors : Busy(b)' => Busy(b)
    BY <1>1, <2>1 DEF PaperSafe, PaperInv
  <2>2. ASSUME NEW a \in Actors, MayRun(a), \A b \in Actors : b # a /\ Busy(b)' => Busy(b)
        PROVE  PaperInv'
    BY <1>1, <2>2 DEF MayRun, PaperInv
  <2>. QED  BY <2>1, <2>2, BusyStep
<1>3. ASSUME NEW a \in Actors, MayRun(a), MoneyStep(a), adapter = "paper"
      PROVE  overlapped' = {}
  <2>1. overlapped = {} /\ \A b \in Actors \ {a} : orders[b].position = 0
    BY <1>3, Positioned DEF PaperSafe, MayRun, Busy, Waits
  <2>2. ASSUME NEW p \in 1 .. Len(positions), NEW kind, NEW amount,
               BeginSell(a, p, kind, amount)
        PROVE  overlapped' = {}
    BY <2>1, <2>2 DEF BeginSell
  <2>3. ASSUME NEW p \in Ids, SellsFrom(a, p)  PROVE overlapped' = {}
    BY <2>2, <2>3, SellsWell DEF TypeInv
  <2>4. CASE EndTakeProfit(a) \/ EndLiquidation(a)
    <3>1. orders[a].position \in 1 .. Len(positions)
      BY <2>4, SaleEnds, SaleOfWell DEF TypeInv
    <3>. QED  BY <2>1, <2>2, <2>4, <3>1 DEF EndTakeProfit, EndLiquidation
  <2>. QED  BY <1>3, <2>1, <2>3, <2>4 DEF MoneyStep, Entry, BeginBuy, EndBuy, OrderRaises
<1>4. UNCHANGED moneyVars /\ adapter = "paper" => overlapped' = {}
  BY DEF PaperSafe, moneyVars
<1>. QED  BY <1>1, <1>2, <1>3, <1>4, MoneySteps DEF PaperSafe

BookInv == TypeInv /\ BooksOK /\ PaperSafe

LEMMA BookAlways == Spec => []BookInv
<1>1. Init => BookInv
  <2>. SUFFICES ASSUME Init  PROVE BookInv
    OBVIOUS
  <2>1. BooksOK
    BY DEF Init, ExecutorInit, BooksOK
  <2>2. \A a \in Actors : ~Busy(a)
    BY DEF Init, ExecutorInit, Busy, Waits
  <2>. QED  BY <2>1, <2>2, TypeInit
            DEF BookInv, PaperSafe, PaperInv, Init, ExecutorInit
<1>2. BookInv /\ [Next]_vars => BookInv'
  BY TypeStep, BooksStep, PaperStep DEF BookInv
<1>. QED  BY <1>1, <1>2, PTL DEF Spec

(* Tokens are neither lost nor sold twice, however the tick, the stop and  *)
(* the exits of a position interleave, unless two orders were awaited for  *)
(* it at once; in paper mode they never are.                               *)
THEOREM SoldOnceCorrect == Spec => []SoldOnce
<1>1. BookInv => SoldOnce
  <2>. SUFFICES ASSUME BookInv  PROVE SoldOnce
    OBVIOUS
  <2>1. Opened = 1 .. Len(positions)
    BY Book DEF BookInv, TypeInv, TypeOK, ExecutorTypeOK
  <2>. QED  BY <2>1 DEF BookInv, BooksOK, PaperSafe, SoldOnce, Balanced
<1>. QED  BY <1>1, BookAlways, PTL

-----------------------------------------------------------------------------
(* What the poller lists.                                                  *)

(* A trade handled is either seen or was forgotten, and of those listed    *)
(* only a forgotten one was handled.                                       *)
ListSafe ==
    adapter = "paper" =>
        /\ todo \cap (streamed \cup polled) \subseteq forgotten
        /\ (streamed \cup polled) \ forgotten \subseteq seen
        /\ todo \cap seen = {}
        /\ ~started => todo = {}

LEMMA ListStep ==
  ASSUME TypeInv, ListSafe, [Next]_vars
  PROVE  ListSafe'
<1>1. adapter' = adapter
  BY AdapterKept
<1>. SUFFICES ASSUME adapter = "paper"
              PROVE  ListSafe'
  BY <1>1 DEF ListSafe
<1>2. /\ todo \cap (streamed \cup polled) \subseteq forgotten
      /\ (streamed \cup polled) \ forgotten \subseteq seen
      /\ todo \cap seen = {} /\ (~started => todo = {})
  BY DEF ListSafe
<1>3. ASSUME UNCHANGED <<started, seen, polled, streamed, forgotten>>,
             todo' \in {todo, {}}
      PROVE  ListSafe'
  BY <1>2, <1>3 DEF ListSafe
<1>4. ASSUME NEW t \in Txs, StreamTrade(t)  PROVE ListSafe'
  <2>1. todo = {} /\ todo' = {}
    BY <1>4, Actual DEF StreamTrade, MayRun, Busy
  <2>2. /\ streamed' = streamed \cup {t} /\ seen' = seen \cup {t}
        /\ forgotten' = forgotten \ {t} /\ polled' = polled
        /\ started' = started
    BY <1>4 DEF StreamTrade
  <2>. QED  BY <1>2, <2>1, <2>2 DEF ListSafe
<1>5. ASSUME NEW t \in Txs, PollTrade(t)  PROVE ListSafe'
  <2>1. /\ todo' = todo \ {t} /\ streamed' = streamed
        /\ forgotten' = (forgotten \cup seen \cup {t}) \ seen'
        /\ polled' \subseteq polled \cup {t}
        /\ started' = started
    BY <1>5 DEF PollTrade
  <2>2. seen' \subseteq seen \cup {t}
    BY <1>5 DEF PollTrade, Remember, Prune
  <2>. QED  BY <1>2, <2>1, <2>2 DEF ListSafe
<1>6. CASE ListSignatures
  <2>1. /\ todo' \cap seen = {}
        /\ started /\ UNCHANGED <<started, seen, polled, streamed, forgotten>>
    BY <1>6 DEF ListSignatures, NewSignatures
  <2>. QED  BY <1>2, <2>1 DEF ListSafe
<1>7. CASE PruneSeen
  <2>1. /\ seen' \subseteq seen /\ forgotten' = forgotten \cup (seen \ seen')
        /\ UNCHANGED <<started, todo, polled, streamed>>
    BY <1>7 DEF PruneSeen, Prune
  <2>. QED  BY <1>2, <2>1 DEF ListSafe
<1>8. CASE Baseline
  <2>1. /\ ~started /\ todo' = todo /\ seen \subseteq seen'
        /\ UNCHANGED <<polled, streamed, forgotten>>
    BY <1>8 DEF Baseline
  <2>. QED  BY <1>2, <2>1 DEF ListSafe
<1>9. ASSUME NEW kind \in Kinds, Trade(kind)  PROVE ListSafe'
  BY <1>3, <1>9 DEF Trade
<1>10. CASE BeginTick
  BY <1>3, <1>10 DEF BeginTick, feedVars
<1>11. ASSUME NEW a \in Actors, ExecutorStep(a)  PROVE ListSafe'
  BY <1>3, <1>11 DEF ExecutorStep, feedVars
<1>12. ASSUME NEW a \in Actors, Raise(a)  PROVE ListSafe'
  BY <1>3, <1>12 DEF Raise
<1>13. CASE UNCHANGED vars
  BY <1>3, <1>13 DEF vars, feedVars
<1>. QED
  BY <1>4, <1>5, <1>6, <1>7, <1>8, <1>9, <1>10, <1>11, <1>12, <1>13 DEF Next, Poller

(* In paper mode the poller repeats nothing it remembers: between its      *)
(* listing and its last trade no task of the stream runs, and what was     *)
(* handled is skipped unless a pruning of the set took it out.             *)
THEOREM PollerNeverRepeatsCorrect == Spec => []PollerNeverRepeats
<1>1. Init => ListSafe
  BY DEF Init, ListSafe
<1>2. TypeInv /\ ListSafe /\ [Next]_vars => ListSafe'
  BY ListStep
<1>3. ListSafe => PollerNeverRepeats
  BY DEF ListSafe, PollerNeverRepeats
<1>. QED  BY <1>1, <1>2, <1>3, TypeAlways, PTL DEF Spec

(* What the poller has gone past.  A signature that was seen and is newer  *)
(* than the baseline is of a trade some feed has handled; everything up to *)
(* the last signature, and up to any that is still to be gone through, was *)
(* handled, is still listed, or is out of reach.                           *)
Handled == polled \cup streamed \cup dropped
PassInv ==
    /\ \A t \in seen : baseline < t => t \in Handled
    /\ \A t \in Txs : baseline < t /\ t <= last => t \in Handled \/ Missed(t)
    /\ \A s \in todo : \A t \in Txs :
          baseline < t /\ t <= s => t \in Handled \cup todo \/ Missed(t)

(* Steps that handle no fewer trades, list no more and leave the cursor.   *)
LEMMA PassKept ==
  ASSUME TypeInv, PassInv, UNCHANGED <<baseline, last>>,
         Len(trades') >= Len(trades), Len(trades') \in Nat,
         todo' \in {{}, todo}, Handled \subseteq Handled',
         \A t \in seen' \ seen : t \in Handled'
  PROVE  PassInv'
<1>1. Len(trades) \in Nat /\ MaxTrades \in Nat /\ Limit \in Nat
  BY LenProperties, PipelineAssumption DEF TypeInv, TypeOK
<1>2. ASSUME NEW t \in Txs, Missed(t)  PROVE Missed(t)'
  <2>1. Len(trades') - t >= Limit
    BY <1>1, <1>2 DEF Missed, Txs
  <2>. QED  BY <2>1 DEF Missed
<1>. QED  BY <1>2 DEF PassInv

LEMMA PassStep ==
  ASSUME TypeInv, PassInv, [Next]_vars
  PROVE  PassInv'
<1>1. Len(trades) \in Nat /\ MaxTrades \in Nat /\ Limit \in Nat \ {0} /\ Len(trades) <= MaxTrades
  BY LenProperties, PipelineAssumption DEF TypeInv, TypeOK
<1>2. seen \subseteq 1 .. Len(trades) /\ todo \subseteq 1 .. Len(trades)
  BY DEF TypeInv, TypeOK
<1>3. baseline \in Nat /\ last \in Nat
  BY <1>1 DEF TypeInv, TypeOK
<1>4. ASSUME NEW kind \in Kinds, Trade(kind)  PROVE PassInv'
  <2>1. Len(trades') = Len(trades) + 1
    BY <1>4 DEF Trade, TypeInv, TypeOK
  <2>. QED  BY <1>1, <1>4, <2>1, PassKept DEF Trade, Handled
<1>5. ASSUME NEW t \in Txs, StreamTrade(t)  PROVE PassInv'
  BY <1>1, <1>5, PassKept DEF StreamTrade, Handled
<1>6. ASSUME NEW t \in Txs, PollTrade(t)  PROVE PassInv'
  <2>1. /\ t \in todo /\ \A s \in todo : t <= s
        /\ todo' = todo \ {t} /\ last' = t /\ seen' \subseteq seen \cup {t}
        /\ UNCHANGED <<trades, baseline, streamed>>
    BY <1>6 DEF PollTrade, Remember, Prune
  <2>2. Handled' = Handled \cup {t}
    BY <1>6, <2>1 DEF PollTrade, Handled
  <2>3. \A u \in Txs : Missed(u)' <=> Missed(u)
    BY <2>1 DEF Missed
  <2>4. ASSUME NEW u \in Txs, baseline < u, u <= t
        PROVE  u \in Handled' \/ Missed(u)
    <3>1. CASE u = t
      BY <2>2, <3>1
    <3>2. CASE u # t
      <4>1. u \in Nat /\ t \in Nat
        BY DEF Txs
      <4>2. ~(t <= u)
        BY <2>4, <3>2, <4>1
      <4>3. u \notin todo
        BY <2>1, <4>2
      <4>. QED  BY <2>1, <2>2, <2>4, <4>3 DEF PassInv
    <3>. QED  BY <3>1, <3>2
  <2>5. ASSUME NEW s \in todo', NEW u \in Txs, baseline < u, u <= s
        PROVE  u \in Handled' \cup todo' \/ Missed(u)
    BY <2>1, <2>2, <2>5 DEF PassInv
  <2>6. \A u \in seen' : baseline < u => u \in Handled'
    BY <2>1, <2>2 DEF PassInv
  <2>. QED  BY <2>1, <2>3, <2>4, <2>5, <2>6 DEF PassInv
<1>7. CASE Baseline
  <2>1. UNCHANGED <<trades, todo, polled, streamed, dropped>>
    BY <1>7 DEF Baseline
  <2>2. CASE /\ last' = Len(trades) /\ baseline' = Len(trades)
             /\ seen' = seen \cup {Len(trades)}
    <3>1. \A u \in Nat : u <= Len(trades) => ~(baseline' < u)
      BY <1>1, <2>2
    <3>2. \A u \in seen' \cup todo : u \in Nat /\ u <= Len(trades)
      BY <1>1, <1>2, <2>2
    <3>3. \A s \in todo, u \in Txs : u <= s => ~(baseline' < u)
      BY <1>1, <2>2, <3>2 DEF Txs
    <3>4. \A u \in Txs : u <= last' => ~(baseline' < u)
      BY <1>1, <2>2 DEF Txs
    <3>. QED  BY <2>1, <2>2, <3>1, <3>2, <3>3, <3>4 DEF PassInv
  <2>3. CASE UNCHANGED <<last, seen, baseline>>
    BY <1>1, <2>1, <2>3, PassKept DEF Handled
  <2>. QED  BY <1>7, <2>2, <2>3 DEF Baseline
<1>8. CASE ListSignatures
  <2>1. /\ todo' = NewSignatures
        /\ UNCHANGED <<trades, baseline, last, seen, polled, streamed, dropped>>
    BY <1>8 DEF ListSignatures
  <2>2. \A s \in NewSignatures :
           s \in 1 .. Len(trades)
    BY DEF NewSignatures, Page
  <2>3. ASSUME NEW s \in todo', NEW u \in Txs, baseline < u, u <= s
        PROVE  u \in Handled \cup todo' \/ Missed(u)
    <3>1. s \in 1 .. Len(trades)
      BY <2>1, <2>2
    <3>2. u \in 1 .. Len(trades)
      BY <1>1, <2>3, <3>1 DEF Txs
    <3>3. CASE u \in Page \ seen
      <4>1. CASE u \in NewSignatures
        BY <2>1, <4>1
      <4>2. CASE u \notin NewSignatures
        <5>1. u <= last
          BY <3>3, <4>2 DEF NewSignatures
        <5>. QED  BY <2>3, <5>1 DEF PassInv
      <4>. QED  BY <4>1, <4>2
    <3>4. CASE u \in seen
      BY <2>3, <3>4 DEF PassInv
    <3>5. CASE u \notin Page
      <4>1. ~(Len(trades) - u < Limit)
        BY <3>2, <3>5 DEF Page
      <4>. QED  BY <1>1, <3>2, <4>1 DEF Missed
    <3>. QED  BY <3>3, <3>4, <3>5
  <2>4. Handled' = Handled /\ \A u \in Txs : Missed(u)' <=> Missed(u)
    BY <2>1 DEF Handled, Missed
  <2>. QED  BY <2>1, <2>3, <2>4 DEF PassInv
<1>13. CASE PruneSeen
  <2>1. seen' \subseteq seen
    BY <1>13 DEF PruneSeen, Prune
  <2>. QED  BY <1>1, <1>13, <2>1, PassKept DEF PruneSeen, Handled
<1>9. CASE BeginTick
  BY <1>1, <1>9, PassKept DEF BeginTick, feedVars, Handled
<1>10. ASSUME NEW a \in Actors, ExecutorStep(a)  PROVE PassInv'
  BY <1>1, <1>10, PassKept DEF ExecutorStep, feedVars, Handled
<1>11. ASSUME NEW a \in Actors, Raise(a)  PROVE PassInv'
  BY <1>1, <1>11, PassKept DEF Raise, Handled
<1>12. CASE UNCHANGED vars
  BY <1>1, <1>12, PassKept DEF vars, feedVars, Handled
<1>. QED
  BY <1>4, <1>5, <1>6, <1>7, <1>8, <1>9, <1>10, <1>11, <1>12, <1>13 DEF Next, Poller

(* The poller goes past no trade that no feed handled and that was still in*)
(* reach, for any history, page and faults: what its cursor has passed is  *)
(* either seen, and then handled, or was off the page when it was listed.  *)
THEOREM PollerPassesNothingCorrect == Spec => []PollerPassesNothing
<1>1. Init => PassInv
  <2>. SUFFICES ASSUME Init  PROVE PassInv
    OBVIOUS
  <2>1. last = 0 /\ seen = {} /\ todo = {}
    BY DEF Init, None
  <2>. QED  BY <2>1 DEF PassInv, Txs, None
<1>2. TypeInv /\ PassInv /\ [Next]_vars => PassInv'
  BY PassStep
<1>3. PassInv => PollerPassesNothing
  BY DEF PassInv, PollerPassesNothing, Handled
<1>. QED  BY <1>1, <1>2, <1>3, TypeAlways, PTL DEF Spec

-----------------------------------------------------------------------------
(* What the balance covers.                                                *)

LEMMA CashStep ==
  ASSUME BookInv, CashInv, [Next]_vars
  PROVE  CashInv'
<1>1. cash \in Int /\ Size \in Nat \ {0} /\ adapter' = adapter
  BY AdapterKept, ExecutorAssumption DEF BookInv, TypeInv, TypeOK, ExecutorTypeOK
<1>2. \A b \in Actors : Buys(b) => orders[b].amount \in 1 .. Size
  BY DEF BookInv, TypeInv, OrderInv, Buys
<1>3. CASE UNCHANGED moneyVars
  BY <1>3 DEF CashInv, Buys, moneyVars
<1>4. ASSUME NEW a \in Actors, ~Buys(a)', cash' \in Int, cash' >= cash,
             overlapped' = {} => overlapped = {},
             \A b \in Actors : b # a => orders'[b] = orders[b]
      PROVE  CashInv'
  <2>. SUFFICES ASSUME overlapped = {}, overlapped' = {}  PROVE CashInv'
    BY <1>4 DEF CashInv
  <2>1. \A b \in Feeds : Buys(b)' => b # a /\ Buys(b) /\ orders'[b] = orders[b]
    BY <1>4, Actual DEF Buys
  <2>2. /\ adapter = "paper" =>
              cash >= 0 /\ \A b \in Feeds : Buys(b) => cash >= orders[b].amount
        /\ cash >= -Size
    BY DEF CashInv
  <2>3. /\ cash' >= -Size
        /\ adapter' = "paper" =>
              cash' >= 0 /\ \A b \in Feeds : Buys(b)' => cash' >= orders'[b].amount
    BY <1>1, <1>2, <1>4, <2>1, <2>2, Actual
  <2>4. ASSUME NEW b \in Feeds, NEW c \in Feeds, b # c, Buys(b)'
        PROVE  IF Buys(c)' THEN cash' >= orders'[b].amount \/ cash' >= orders'[c].amount
               ELSE cash' >= orders'[b].amount - Size
    <3>1. /\ Buys(b) /\ orders'[b] = orders[b] /\ orders[b].amount \in 1 .. Size
          /\ IF Buys(c) THEN cash >= orders[b].amount \/ cash >= orders[c].amount
             ELSE cash >= orders[b].amount - Size
      BY <1>2, <2>1, <2>4, Actual DEF CashInv
    <3>2. CASE Buys(c)'
      <4>1. Buys(c) /\ orders'[c] = orders[c] /\ orders[c].amount \in 1 .. Size
        BY <1>2, <2>1, <3>2, Actual
      <4>. QED  BY <1>1, <1>4, <3>1, <3>2, <4>1
    <3>3. CASE ~Buys(c)'
      <4>1. Buys(c) => orders[c].amount \in 1 .. Size
        BY <1>2, Actual
      <4>2. cash >= orders[b].amount - Size
        BY <1>1, <3>1, <4>1
      <4>. QED  BY <1>1, <1>4, <3>1, <3>3, <4>2
    <3>. QED  BY <3>2, <3>3
  <2>. QED  BY <2>3, <2>4 DEF CashInv
<1>5. ASSUME NEW a \in Actors, Entry(a)  PROVE CashInv'
  <2>1. /\ orders'[a].amount \in 1 .. Size /\ orders'[a].amount <= cash
        /\ \A b \in Actors : b # a => orders'[b] = orders[b]
    BY <1>5, EntryWell DEF BookInv, TypeInv
  <2>2. UNCHANGED <<cash, overlapped>> /\ a \in Feeds
    BY <1>5 DEF Entry, BeginBuy
  <2>. SUFFICES ASSUME overlapped = {}  PROVE CashInv'
    BY <2>2 DEF CashInv
  <2>3. /\ cash >= -Size
        /\ adapter = "paper" =>
              cash >= 0 /\ \A b \in Feeds : Buys(b) => cash >= orders[b].amount
    BY DEF CashInv
  <2>4. adapter' = "paper" => \A b \in Feeds : Buys(b)' => cash' >= orders'[b].amount
    <3>1. ASSUME NEW b \in Feeds, adapter = "paper", Buys(b)', b # a
          PROVE  cash' >= orders'[b].amount
      BY <2>1, <2>2, <2>3, <3>1, Actual DEF Buys
    <3>2. cash' >= orders'[a].amount
      BY <1>1, <2>1, <2>2
    <3>. QED  BY <1>1, <3>1, <3>2
  <2>5. ASSUME NEW b \in Feeds, NEW c \in Feeds, b # c, Buys(b)'
        PROVE  IF Buys(c)' THEN cash' >= orders'[b].amount \/ cash' >= orders'[c].amount
               ELSE cash' >= orders'[b].amount - Size
    <3>1. CASE b = a
      BY <1>1, <2>1, <2>2, <3>1
    <3>2. CASE c = a /\ Buys(c)'
      BY <1>1, <2>1, <2>2, <3>2
    <3>3. CASE b # a /\ c = a /\ ~Buys(c)'
      <4>1. orders'[b] = orders[b] /\ Buys(b)
        BY <2>1, <2>5, <3>3, Actual DEF Buys
      <4>2. orders[b].amount \in 1 .. Size /\ cash >= 1
        BY <1>1, <1>2, <2>1, <4>1, Actual
      <4>. QED  BY <1>1, <2>2, <3>3, <4>1, <4>2
    <3>. QED  BY <2>2, <2>5, <3>1, <3>2, <3>3, Actual
  <2>. QED  BY <2>2, <2>3, <2>4, <2>5, <1>1 DEF CashInv
<1>6. ASSUME NEW a \in Actors, MayRun(a), EndBuy(a)  PROVE CashInv'
  <2>1. /\ Buys(a) /\ a \in Feeds /\ orders[a].amount \in 1 .. Size
        /\ orders'[a] = NoOrder /\ \A b \in Actors : b # a => orders'[b] = orders[b]
        /\ cash' = cash - orders[a].amount /\ UNCHANGED overlapped
    BY <1>6, EndBuyWell DEF BookInv, TypeInv
  <2>2. ~Buys(a)'
    BY <2>1, NoOrderTyped DEF Buys
  <2>. SUFFICES ASSUME overlapped = {}  PROVE CashInv'
    BY <2>1 DEF CashInv
  <2>3. PICK b \in Feeds : b # a
    BY Actual
  <2>4. Feeds = {a, b}
    BY <2>1, <2>3, Actual
  <2>5. /\ Buys(b)' <=> Buys(b)
        /\ orders'[b] = orders[b]
        /\ Buys(b) => orders[b].amount \in 1 .. Size
    BY <1>2, <2>1, <2>3, Actual DEF Buys
  <2>6. /\ IF Buys(b) THEN cash >= orders[a].amount \/ cash >= orders[b].amount
           ELSE cash >= orders[a].amount - Size
        /\ adapter = "paper" => cash >= orders[a].amount
    BY <2>1, <2>3 DEF CashInv
  <2>7. adapter = "paper" => ~Buys(b)
    <3>1. adapter = "paper" => ~Busy(b)
      BY <1>6, <2>3, Actual DEF MayRun
    <3>. QED  BY <3>1, NoOrderTyped DEF Busy, Waits, Buys
  <2>8. /\ cash' >= -Size
        /\ Buys(b) => cash' >= orders[b].amount - Size
        /\ adapter = "paper" => cash' >= 0
    BY <1>1, <2>1, <2>5, <2>6
  <2>. QED  BY <1>1, <2>2, <2>4, <2>5, <2>7, <2>8 DEF CashInv
<1>7. ASSUME NEW a \in Actors, NEW p \in Ids, SellsFrom(a, p)  PROVE CashInv'
  <2>1. PICK kind \in SellKinds, amount \in Int : BeginSell(a, p, kind, amount)
    BY <1>7, SellsWell DEF BookInv, TypeInv
  <2>2. p \in 1 .. Len(positions) /\ UNCHANGED cash
    BY <1>7, SellsWell DEF BookInv, TypeInv
  <2>3. /\ orders'[a] = [kind |-> kind, position |-> p, amount |-> amount,
                         wallet |-> NoWallet]
        /\ \A b \in Actors : b # a => orders'[b] = orders[b]
        /\ overlapped \subseteq overlapped'
    BY <2>1, <2>2, SellBegins DEF BookInv, TypeInv
  <2>4. ~Buys(a)'
    BY <2>3 DEF Buys, SellKinds
  <2>. QED  BY <1>1, <1>4, <2>2, <2>3, <2>4
<1>8. ASSUME NEW a \in Actors, EndTakeProfit(a) \/ EndLiquidation(a)  PROVE CashInv'
  <2>1. PICK amount \in Int, closes \in BOOLEAN : SaleOf(a, amount, closes)
    BY <1>8, SaleEnds DEF BookInv, TypeInv
  <2>2. /\ orders[a].position \in 1 .. Len(positions)
        /\ \A b \in Actors : b # a => orders'[b] = orders[b]
        /\ ~Buys(a)'
    BY <2>1, SaleOfWell DEF BookInv, TypeInv
  <2>3. overlapped \subseteq overlapped'
    BY <2>1 DEF SaleOf, BeginSell
  <2>4. overlapped = {} => amount >= 0
    <3>1. orders[a].kind = "profit" => orders[a].amount \in Nat
      BY DEF BookInv, TypeInv, OrderInv
    <3>2. overlapped = {} => positions[orders[a].position].remaining >= 0
      BY <2>2 DEF BookInv, BooksOK, Balanced
    <3>. QED  BY <2>1, <3>1, <3>2 DEF SaleOf
  <2>5. cash' = cash + amount
    BY <2>1 DEF SaleOf
  <2>6. CASE overlapped = {}
    <3>1. cash' \in Int /\ cash' >= cash
      BY <1>1, <2>4, <2>5, <2>6
    <3>. QED  BY <1>4, <2>2, <2>6, <3>1
  <2>7. CASE overlapped # {}
    BY <2>3, <2>7 DEF CashInv
  <2>. QED  BY <2>6, <2>7
<1>9. ASSUME NEW a \in Actors, OrderRaises(a)  PROVE CashInv'
  <2>1. /\ orders'[a] = NoOrder /\ \A b \in Actors : b # a => orders'[b] = orders[b]
        /\ UNCHANGED <<cash, overlapped>>
    BY <1>9, RaiseWell DEF BookInv, TypeInv
  <2>2. ~Buys(a)'
    BY <2>1, NoOrderTyped DEF Buys
  <2>. QED  BY <1>1, <1>4, <2>1, <2>2
<1>. QED  BY <1>3, <1>5, <1>6, <1>7, <1>8, <1>9, MoneySteps DEF MoneyStep, BookInv

(* The balance of a paper session never goes below zero; where orders do   *)
(* suspend, two feeds that buy at once overdraw it by one entry at most.   *)
THEOREM BalanceCoversEntriesCorrect == Spec => []BalanceCoversEntries
<1>1. Init => CashInv
  <2>. SUFFICES ASSUME Init  PROVE CashInv
    OBVIOUS
  <2>1. cash \in Nat /\ \A a \in Feeds : ~Buys(a)
    BY Actual, NoOrderTyped, ExecutorAssumption DEF Init, ExecutorInit, Buys
  <2>. QED  BY <2>1, ExecutorAssumption DEF CashInv
<1>2. BookInv /\ CashInv /\ [Next]_vars => CashInv'
  BY CashStep
<1>3. CashInv => BalanceCoversEntries
  BY DEF CashInv, BalanceCoversEntries
<1>. QED  BY <1>1, <1>2, <1>3, BookAlways, PTL DEF Spec

-----------------------------------------------------------------------------
(* The counts of the pool.                                                 *)

ActiveOf(w) == {p \in Active : positions[p].wallet = w}
BuysOf(w) == {a \in Actors : orders[a].kind = "buy" /\ orders[a].wallet = w}

(* Two orders at once may have released w once too often.                  *)
Doubtful(w) == \E p \in overlapped \cap Opened : positions[p].wallet = w

LeaseOf(w) ==
    /\ leases[w] <= InUse(w) + leaked[w]
    /\ ~Doubtful(w) => leases[w] = InUse(w) + leaked[w]

LEMMA Leases == LeasesMatchPositions <=> \A w \in Wallets : LeaseOf(w)
BY DEF LeasesMatchPositions, LeaseOf, Doubtful

LEMMA Counted ==
  ASSUME TypeInv, NEW w \in Wallets
  PROVE  /\ IsFiniteSet(ActiveOf(w)) /\ Cardinality(ActiveOf(w)) \in Nat
         /\ IsFiniteSet(BuysOf(w)) /\ Cardinality(BuysOf(w)) \in Nat
         /\ InUse(w) = Cardinality(ActiveOf(w)) + Cardinality(BuysOf(w))
         /\ leases[w] \in Nat /\ leaked[w] \in Nat
<1>1. ActiveOf(w) \subseteq 1 .. Len(positions) /\ Len(positions) \in Nat
  BY Book DEF TypeInv, TypeOK, ExecutorTypeOK, ActiveOf, Active
<1>2. IsFiniteSet(1 .. Len(positions))
  BY <1>1, FS_Interval
<1>3. IsFiniteSet(ActiveOf(w)) /\ IsFiniteSet(BuysOf(w))
  BY <1>1, <1>2, FS_Subset, Actual DEF BuysOf
<1>4. Cardinality(ActiveOf(w)) \in Nat /\ Cardinality(BuysOf(w)) \in Nat
  BY <1>3, FS_CardinalityType
<1>5. leases[w] \in Nat /\ leaked[w] \in Nat
  BY DEF TypeInv, TypeOK, ExecutorTypeOK
<1>. QED  BY <1>3, <1>4, <1>5 DEF InUse, ActiveOf, BuysOf

(* A position opened or closed, an order of a changed: the sets change by  *)
(* one element.                                                            *)
LEMMA SetsChange ==
  ASSUME TypeInv, TypeInv', NEW w \in Wallets, NEW x
  PROVE  /\ ActiveOf(w)' = ActiveOf(w) \cup {x} /\ x \notin ActiveOf(w)
               => Cardinality(ActiveOf(w)') = Cardinality(ActiveOf(w)) + 1
         /\ ActiveOf(w)' = ActiveOf(w) \ {x} /\ x \in ActiveOf(w)
               => Cardinality(ActiveOf(w)') = Cardinality(ActiveOf(w)) - 1
         /\ BuysOf(w)' = BuysOf(w) \cup {x} /\ x \notin BuysOf(w)
               => Cardinality(BuysOf(w)') = Cardinality(BuysOf(w)) + 1
         /\ BuysOf(w)' = BuysOf(w) \ {x} /\ x \in BuysOf(w)
               => Cardinality(BuysOf(w)') = Cardinality(BuysOf(w)) - 1
<1>1. IsFiniteSet(ActiveOf(w)) /\ IsFiniteSet(BuysOf(w))
  BY Counted
<1>. QED  BY <1>1, FS_AddElement, FS_RemoveElement

CountsOf(w) ==
    /\ Cardinality(ActiveOf(w)) \in Nat /\ Cardinality(BuysOf(w)) \in Nat
    /\ InUse(w) = Cardinality(ActiveOf(w)) + Cardinality(BuysOf(w))
    /\ leases[w] \in Nat /\ leaked[w] \in Nat

AllCounted == \A w \in Wallets : CountsOf(w)

LEMMA CountsNow == TypeInv => AllCounted
BY Counted DEF AllCounted, CountsOf

LEMMA CountsNext == TypeInv' => AllCounted'
BY CountsNow, PTL

LEMMA SamePositions ==
  ASSUME UNCHANGED positions, overlapped \subseteq overlapped', NEW w \in Wallets
  PROVE  ActiveOf(w)' = ActiveOf(w) /\ (Doubtful(w) => Doubtful(w)')
BY DEF ActiveOf, Active, Opened, Doubtful

LeasesOK == \A w \in Wallets : LeaseOf(w)

LEMMA LeasesStep ==
  ASSUME BookInv, LeasesOK, [Next]_vars
  PROVE  LeasesOK'
<1>1. TypeInv /\ TypeInv'
  BY TypeStep DEF BookInv
<1>2. AllCounted /\ AllCounted'
  BY <1>1, CountsNow, CountsNext
<1>3. Opened = 1 .. Len(positions) /\ Opened' = 1 .. Len(positions') /\ Len(positions) \in Nat
  BY <1>1, LenProperties DEF TypeInv, TypeOK, ExecutorTypeOK, Opened
<1>4. CASE UNCHANGED moneyVars
  <2>1. UNCHANGED <<Active, Opened>>
    BY <1>4 DEF Active, Opened, moneyVars
  <2>2. \A w \in Wallets : UNCHANGED InUse(w) /\ (Doubtful(w)' <=> Doubtful(w))
    BY <1>4, <2>1 DEF InUse, Doubtful, moneyVars
  <2>. QED  BY <1>4, <2>2 DEF LeasesOK, LeaseOf, moneyVars
<1>5. ASSUME NEW a \in Actors, Entry(a)  PROVE LeasesOK'
  <2>1. PICK v \in Wallets :
           /\ orders'[a].kind = "buy" /\ orders'[a].wallet = v
           /\ leases'[v] = leases[v] + 1
           /\ \A w \in Wallets : w # v => leases'[w] = leases[w]
    BY <1>1, <1>5, EntryWell DEF TypeInv
  <2>2. orders[a] = NoOrder /\ \A b \in Actors : b # a => orders'[b] = orders[b]
    BY <1>1, <1>5, EntryWell DEF TypeInv
  <2>3. UNCHANGED <<positions, overlapped, leaked>>
    BY <1>5 DEF Entry, BeginBuy
  <2>4. ASSUME NEW w \in Wallets  PROVE LeaseOf(w)'
    <3>1. CountsOf(w) /\ CountsOf(w)' /\ LeaseOf(w)
      BY <1>2 DEF AllCounted, LeasesOK
    <3>2. ActiveOf(w)' = ActiveOf(w) /\ (Doubtful(w) => Doubtful(w)')
      BY <2>3, SamePositions
    <3>3. CASE w = v
      <4>1. BuysOf(w)' = BuysOf(w) \cup {a} /\ a \notin BuysOf(w)
        BY <2>1, <2>2, <3>3, NoOrderTyped DEF BuysOf
      <4>2. Cardinality(BuysOf(w)') = Cardinality(BuysOf(w)) + 1
        BY <1>1, <4>1, SetsChange
      <4>. QED  BY <2>1, <2>3, <3>1, <3>2, <3>3, <4>2 DEF LeaseOf, CountsOf
    <3>4. CASE w # v
      <4>1. BuysOf(w)' = BuysOf(w)
        BY <2>1, <2>2, <3>4, NoOrderTyped DEF BuysOf
      <4>. QED  BY <2>1, <2>3, <3>1, <3>2, <3>4, <4>1 DEF LeaseOf, CountsOf
    <3>. QED  BY <3>3, <3>4
  <2>. QED  BY <2>4 DEF LeasesOK
<1>6. ASSUME NEW a \in Actors, NEW p \in Ids, SellsFrom(a, p)  PROVE LeasesOK'
  <2>1. PICK kind \in SellKinds, amount \in Int : BeginSell(a, p, kind, amount)
    BY <1>1, <1>6, SellsWell DEF TypeInv
  <2>2. /\ p \in 1 .. Len(positions) /\ orders[a] = NoOrder
        /\ UNCHANGED <<leases, leaked>> /\ Len(positions') = Len(positions)
        /\ \A q \in 1 .. Len(positions) : q # p => positions'[q] = positions[q]
        /\ positions'[p] \in {positions[p], Triggered(p)}
    BY <1>1, <1>6, SellsWell DEF TypeInv
  <2>3. /\ orders'[a] = [kind |-> kind, position |-> p, amount |-> amount,
                         wallet |-> NoWallet]
        /\ \A b \in Actors : b # a => orders'[b] = orders[b]
        /\ overlapped \subseteq overlapped'
    BY <1>1, <2>1, <2>2, SellBegins DEF TypeInv
  <2>4. \A q \in 1 .. Len(positions) :
           /\ positions'[q].wallet = positions[q].wallet
           /\ positions'[q].closed = positions[q].closed
    BY <2>2 DEF Triggered
  <2>5. ASSUME NEW w \in Wallets  PROVE LeaseOf(w)'
    <3>1. CountsOf(w) /\ CountsOf(w)' /\ LeaseOf(w)
      BY <1>2 DEF AllCounted, LeasesOK
    <3>2. ActiveOf(w)' = ActiveOf(w)
      BY <1>3, <2>2, <2>4 DEF ActiveOf, Active
    <3>3. BuysOf(w)' = BuysOf(w)
      BY <2>2, <2>3, NoOrderTyped DEF BuysOf, SellKinds
    <3>4. Doubtful(w) => Doubtful(w)'
      BY <1>3, <2>2, <2>3, <2>4 DEF Doubtful
    <3>. QED  BY <2>2, <3>1, <3>2, <3>3, <3>4 DEF LeaseOf, CountsOf
  <2>. QED  BY <2>5 DEF LeasesOK
<1>7. ASSUME NEW a \in Actors, EndBuy(a)  PROVE LeasesOK'
  <2>. DEFINE n == Len(positions) + 1
  <2>1. /\ Buys(a) /\ orders'[a] = NoOrder
        /\ \A b \in Actors : b # a => orders'[b] = orders[b]
        /\ Len(positions') = n
        /\ \A p \in 1 .. Len(positions) : positions'[p] = positions[p]
        /\ UNCHANGED <<leases, leaked, overlapped>>
    BY <1>1, <1>7, EndBuyWell DEF TypeInv
  <2>2. positions'[n].wallet = orders[a].wallet /\ ~positions'[n].closed
    <3>1. positions'[n] =
             [wallet |-> orders[a].wallet, bought |-> orders[a].amount,
              remaining |-> orders[a].amount, sold |-> 0, tiers |-> 0, closed |-> FALSE]
      BY <1>1, <1>7, EndBuyWell DEF TypeInv
    <3>. QED  BY <3>1
  <2>3. 1 .. n = (1 .. Len(positions)) \cup {n} /\ n \notin 1 .. Len(positions)
    BY <1>3
  <2>. HIDE DEF n
  <2>4. ASSUME NEW w \in Wallets  PROVE LeaseOf(w)'
    <3>1. CountsOf(w) /\ CountsOf(w)' /\ LeaseOf(w)
      BY <1>2 DEF AllCounted, LeasesOK
    <3>2. Doubtful(w) => Doubtful(w)'
      BY <1>3, <2>1, <2>3 DEF Doubtful
    <3>3. CASE orders[a].wallet = w
      <4>1. ActiveOf(w)' = ActiveOf(w) \cup {n} /\ n \notin ActiveOf(w)
        BY <1>3, <2>1, <2>2, <2>3, <3>3 DEF ActiveOf, Active
      <4>2. BuysOf(w)' = BuysOf(w) \ {a} /\ a \in BuysOf(w)
        BY <2>1, <3>3, NoOrderTyped DEF BuysOf, Buys
      <4>3. /\ Cardinality(ActiveOf(w)') = Cardinality(ActiveOf(w)) + 1
            /\ Cardinality(BuysOf(w)') = Cardinality(BuysOf(w)) - 1
        BY <1>1, <4>1, <4>2, SetsChange
      <4>. QED  BY <2>1, <3>1, <3>2, <4>3 DEF LeaseOf, CountsOf
    <3>4. CASE orders[a].wallet # w
      <4>1. ActiveOf(w)' = ActiveOf(w)
        BY <1>3, <2>1, <2>2, <2>3, <3>4 DEF ActiveOf, Active
      <4>2. BuysOf(w)' = BuysOf(w)
        BY <2>1, <3>4, NoOrderTyped DEF BuysOf
      <4>. QED  BY <2>1, <3>1, <3>2, <4>1, <4>2 DEF LeaseOf, CountsOf
    <3>. QED  BY <3>3, <3>4
  <2>. QED  BY <2>4 DEF LeasesOK
<1>8. ASSUME NEW a \in Actors, EndTakeProfit(a) \/ EndLiquidation(a)  PROVE LeasesOK'
  <2>1. PICK amount \in Int, closes \in BOOLEAN : SaleOf(a, amount, closes)
    BY <1>1, <1>8, SaleEnds DEF TypeInv
  <2>2. PICK p \in 1 .. Len(positions) : p = orders[a].position
    BY <1>1, <2>1, SaleOfWell DEF TypeInv
  <2>3. /\ Len(positions') = Len(positions)
        /\ \A q \in 1 .. Len(positions) :
              positions'[q] = IF q = p THEN Sold(p, amount, closes) ELSE positions[q]
        /\ \A b \in Actors : b # a => orders'[b] = orders[b]
        /\ ~Buys(a) /\ ~Buys(a)'
    BY <1>1, <2>1, <2>2, SaleOfWell DEF TypeInv
  <2>4. /\ \A q \in 1 .. Len(positions) : positions'[q].wallet = positions[q].wallet
        /\ \A q \in 1 .. Len(positions) : q # p => positions'[q].closed = positions[q].closed
        /\ positions'[p].closed = (positions[p].closed \/ closes)
    BY <2>3 DEF Sold
  <2>5. /\ overlapped \subseteq overlapped' /\ UNCHANGED leaked
        /\ IF closes THEN Release(positions[p].wallet) ELSE UNCHANGED leases
    BY <2>1, <2>2 DEF SaleOf, BeginSell
  <2>6. positions[p].closed => p \in overlapped
    BY <2>2 DEF BookInv, BooksOK, Alone
  <2>7. positions[p].wallet \in Wallets /\ positions[p].closed \in BOOLEAN
    BY <1>1, Numbers
  <2>8. ASSUME NEW w \in Wallets  PROVE LeaseOf(w)'
    <3>1. CountsOf(w) /\ CountsOf(w)' /\ LeaseOf(w)
      BY <1>2 DEF AllCounted, LeasesOK
    <3>2. Doubtful(w) => Doubtful(w)'
      BY <1>3, <2>3, <2>4, <2>5 DEF Doubtful
    <3>3. BuysOf(w)' = BuysOf(w)
      BY <2>3 DEF BuysOf, Buys
    <3>4. CASE ~closes \/ positions[p].wallet # w
      <4>1. ActiveOf(w)' = ActiveOf(w)
        BY <1>3, <2>3, <2>4, <3>4 DEF ActiveOf, Active
      <4>2. leases'[w] = leases[w]
        BY <1>1, <2>5, <2>7, <3>4, ReleaseTypes DEF TypeInv
      <4>. QED  BY <2>5, <3>1, <3>2, <3>3, <4>1, <4>2 DEF LeaseOf, CountsOf
    <3>5. CASE closes /\ positions[p].wallet = w
      <4>1. leases'[w] = IF leases[w] > 0 THEN leases[w] - 1 ELSE 0
        BY <1>1, <2>5, <3>5, ReleaseTypes DEF TypeInv
      <4>2. CASE positions[p].closed
        <5>1. ActiveOf(w)' = ActiveOf(w)
          BY <1>3, <2>3, <2>4, <4>2 DEF ActiveOf, Active
        <5>2. Doubtful(w)'
          BY <1>3, <2>3, <2>4, <2>5, <2>6, <3>5, <4>2 DEF Doubtful
        <5>3. leases'[w] <= leases[w] /\ UNCHANGED <<leaked, InUse(w)>>
          BY <2>5, <3>1, <3>3, <4>1, <5>1 DEF CountsOf
        <5>. QED  BY <3>1, <5>2, <5>3 DEF LeaseOf, CountsOf
      <4>3. CASE ~positions[p].closed
        <5>1. ActiveOf(w)' = ActiveOf(w) \ {p} /\ p \in ActiveOf(w)
          BY <1>3, <2>3, <2>4, <3>5, <4>3 DEF ActiveOf, Active
        <5>2. Cardinality(ActiveOf(w)') = Cardinality(ActiveOf(w)) - 1
          BY <1>1, <5>1, SetsChange
        <5>3. InUse(w)' = InUse(w) - 1 /\ InUse(w) \in Nat /\ InUse(w)' \in Nat
              /\ leaked'[w] = leaked[w] /\ leaked[w] \in Nat /\ leases[w] \in Nat
          BY <2>5, <3>1, <3>3, <5>2 DEF CountsOf
        <5>. QED  BY <3>1, <3>2, <4>1, <5>3 DEF LeaseOf
      <4>. QED  BY <2>7, <4>2, <4>3
    <3>. QED  BY <3>4, <3>5
  <2>. QED  BY <2>8 DEF LeasesOK
<1>9. ASSUME NEW a \in Actors, OrderRaises(a)  PROVE LeasesOK'
  <2>1. /\ orders'[a] = NoOrder /\ \A b \in Actors : b # a => orders'[b] = orders[b]
        /\ UNCHANGED <<leases, positions, overlapped>>
    BY <1>1, <1>9, RaiseWell DEF TypeInv
  <2>2. leaked' = IF Buys(a) THEN [leaked EXCEPT ![orders[a].wallet] = @ + 1] ELSE leaked
    BY <1>9 DEF OrderRaises, Buys
  <2>3. ASSUME NEW w \in Wallets  PROVE LeaseOf(w)'
    <3>1. CountsOf(w) /\ CountsOf(w)' /\ LeaseOf(w)
      BY <1>2 DEF AllCounted, LeasesOK
    <3>2. ActiveOf(w)' = ActiveOf(w) /\ (Doubtful(w) => Doubtful(w)')
      BY <2>1, SamePositions
    <3>3. CASE Buys(a) /\ orders[a].wallet = w
      <4>1. BuysOf(w)' = BuysOf(w) \ {a} /\ a \in BuysOf(w)
        BY <2>1, <3>3, NoOrderTyped DEF BuysOf, Buys
      <4>2. Cardinality(BuysOf(w)') = Cardinality(BuysOf(w)) - 1
        BY <1>1, <4>1, SetsChange
      <4>3. leaked'[w] = leaked[w] + 1
        BY <1>1, <2>2, <3>3 DEF TypeInv, TypeOK, ExecutorTypeOK
      <4>. QED  BY <2>1, <3>1, <3>2, <4>2, <4>3 DEF LeaseOf, CountsOf
    <3>4. CASE ~(Buys(a) /\ orders[a].wallet = w)
      <4>1. BuysOf(w)' = BuysOf(w)
        BY <2>1, <3>4, NoOrderTyped DEF BuysOf, Buys
      <4>2. leaked'[w] = leaked[w]
        BY <1>1, <2>2, <3>4 DEF TypeInv, TypeOK, ExecutorTypeOK
      <4>. QED  BY <2>1, <3>1, <3>2, <4>1, <4>2 DEF LeaseOf, CountsOf
    <3>. QED  BY <3>3, <3>4
  <2>. QED  BY <2>3 DEF LeasesOK
<1>. QED  BY <1>4, <1>5, <1>6, <1>7, <1>8, <1>9, MoneySteps DEF MoneyStep

(* The count of every wallet is its open positions and its BUYs on their   *)
(* way, and its BUYs that raised, whatever the feeds and the ticker        *)
(* interleave; only two orders at once for a position release it too often.*)
THEOREM LeasesMatchPositionsCorrect == Spec => []LeasesMatchPositions
<1>1. Init => LeasesOK
  <2>. SUFFICES ASSUME Init, NEW w \in Wallets  PROVE LeaseOf(w)
    BY DEF LeasesOK
  <2>1. ActiveOf(w) = {} /\ BuysOf(w) = {}
    BY NoOrderTyped DEF Init, ExecutorInit, ActiveOf, Active, Opened, BuysOf
  <2>2. InUse(w) = 0
    <3>1. InUse(w) = Cardinality(ActiveOf(w)) + Cardinality(BuysOf(w))
      BY DEF InUse, ActiveOf, BuysOf
    <3>. QED  BY <2>1, <3>1, FS_EmptySet
  <2>. QED  BY <2>2 DEF Init, ExecutorInit, LeaseOf
<1>2. BookInv /\ LeasesOK /\ [Next]_vars => LeasesOK'
  BY LeasesStep
<1>3. LeasesOK => LeasesMatchPositions
  BY Leases DEF LeasesOK
<1>. QED  BY <1>1, <1>2, <1>3, BookAlways, PTL DEF Spec
=============================================================================
