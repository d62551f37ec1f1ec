-------------------------- MODULE SniperDaemonProofs --------------------------
(***************************************************************************)
(* Proofs about SniperDaemon for any finite set of markets, any number of   *)
(* deliveries, manual sells and crashes, and any position size.             *)
(***************************************************************************)
EXTENDS SniperDaemon, FiniteSetTheorems, TLAPS

USE DEF Sellers, Amount, BuyState, IdleTask, IdleSeller, IdleExit,
        chainVars, storeVars, startVars

(***************************************************************************)
(* The inductive invariant.                                                 *)
(***************************************************************************)

\* A delivery in progress belongs to the running daemon.
TaskFact(d) ==
  task[d].pc # "idle" => stage = "running" /\ task[d].market \in Markets

\* Recovery works on BUYs that are open, and restores those it reconciled.
RecoverInv ==
  /\ stage # "recovering" => rtodo = {} /\ rdone = {}
  /\ \A m \in rtodo : buy[m] = "open"
  /\ \A m \in rdone : buy[m] = "reconciled" /\ bought[m]

\* What a row of the position store says of the journal and the wallet.
MarketFact(m) ==
  /\ pos[m] > 0 => opened[m]
  /\ opened[m] => bought[m] /\ buy[m] = "reconciled" /\ held[m] <= pos[m]

\* A sell in flight will save no less than the wallet then holds.
SellerFact(x) ==
  seller[x].pc # "idle" =>
    /\ seller[x].market \in Markets /\ opened[seller[x].market]
    /\ seller[x].amount > 0
    /\ held[seller[x].market] <=
         IF seller[x].pc = "landed" THEN seller[x].left
         ELSE seller[x].amount + seller[x].left

\* What the worker read covers what the wallet holds.
ExitInv ==
  \A m \in exit.todo : opened[m] /\ held[m] <= exit.read[m]

TaskInv   == \A d \in Deliveries : TaskFact(d)
MarketInv == \A m \in Markets : MarketFact(m)
SellerInv == \A x \in Sellers : SellerFact(x)

IInv == TypeOK /\ TaskInv /\ RecoverInv /\ MarketInv /\ SellerInv /\ ExitInv

(***************************************************************************)
(* Types.                                                                   *)
(***************************************************************************)

LEMMA OpenCounts ==
  ASSUME TypeOK
  PROVE  Cardinality(Open) \in Nat
  <1>1. Open \subseteq Markets
    BY DEF Open
  <1>2. IsFiniteSet(Open)
    BY <1>1, MarketAssumption, FS_Subset
  <1> QED
    BY <1>2, FS_CardinalityType

LEMMA HalfOfPosition ==
  ASSUME NEW n \in Nat, n > 0,
         NEW amount \in {n, IF n = 1 THEN 1 ELSE n \div 2}
  PROVE  amount \in 1..n /\ n - amount \in 0..n
  BY SMT

LEMMA SaveType ==
  ASSUME TypeOK, NEW m, NEW amount \in Amount, Save(m, amount)
  PROVE  /\ pos' \in [Markets -> Amount]
         /\ opened' \in [Markets -> BOOLEAN] /\ closed' \in [Markets -> BOOLEAN]
  <1>1. (amount = 0) \in BOOLEAN
    OBVIOUS
  <1> QED
    BY <1>1 DEF TypeOK, Save

LEMMA SellIntentType ==
  ASSUME TypeOK, NEW x, NEW m \in Markets, NEW amount \in Amount, NEW left \in Amount,
         SellIntent(x, m, amount, left)
  PROVE  seller' \in [Sellers -> [pc : {"idle", "risk", "submitted", "landed"},
                                  market : Markets \cup {NoMarket},
                                  amount : Amount, left : Amount]]
  BY DEF TypeOK, SellIntent

LEMMA TypeLaunch ==
  ASSUME IInv, LaunchStep
  PROVE  TypeOK'
  <1>t. TypeOK /\ TaskInv
    BY DEF IInv
  <1>1. ASSUME NEW d \in Deliveries, NEW m \in Markets, Deliver(d, m)
        PROVE  TypeOK'
    BY <1>1, <1>t, OpenCounts DEF TypeOK, Deliver
  <1>2. ASSUME NEW d \in Deliveries, SubmitBuy(d)
        PROVE  TypeOK'
    <2>1. buy' \in [Markets -> BuyState]
      BY <1>2, <1>t DEF TypeOK, SubmitBuy
    <2>2. task' \in [Deliveries -> [pc : {"idle", "risk", "submitted"},
                                    market : Markets \cup {NoMarket}, seen : Nat]]
      BY <1>2, <1>t DEF TypeOK, SubmitBuy
    <2> QED
      BY <1>2, <1>t, <2>1, <2>2 DEF TypeOK, SubmitBuy
  <1>3. ASSUME NEW d \in Deliveries, BuyDenied(d)
        PROVE  TypeOK'
    BY <1>3, <1>t DEF TypeOK, BuyDenied, LaunchEnds
  <1>4. ASSUME NEW d \in Deliveries, BuyAccepted(d)
        PROVE  TypeOK'
    <2>1. Tokens \in Amount
      BY AmountAssumption
    <2>2. Save(task[d].market, Tokens)
      BY <1>4 DEF BuyAccepted
    <2>3. /\ pos' \in [Markets -> Amount]
          /\ opened' \in [Markets -> BOOLEAN] /\ closed' \in [Markets -> BOOLEAN]
      BY <1>t, <2>1, <2>2, SaveType
    <2> QED
      BY <1>4, <1>t, <2>3 DEF TypeOK, BuyAccepted, LaunchEnds
  <1>5. ASSUME NEW d \in Deliveries, BuyNotAccepted(d)
        PROVE  TypeOK'
    BY <1>5, <1>t DEF TypeOK, BuyNotAccepted, LaunchEnds
  <1> QED
    BY <1>1, <1>2, <1>3, <1>4, <1>5 DEF LaunchStep

LEMMA TypeSell ==
  ASSUME IInv, SellStep
  PROVE  TypeOK'
  <1>t. TypeOK /\ SellerInv
    BY DEF IInv
  <1>1. ASSUME NEW x \in Sellers, NEW m \in Markets, ManualExit(x, m)
        PROVE  TypeOK'
    <2>1. PICK amount \in {pos[m], IF pos[m] = 1 THEN 1 ELSE pos[m] \div 2} :
            SellIntent(x, m, amount, pos[m] - amount)
      BY <1>1 DEF ManualExit
    <2>2. pos[m] \in Nat /\ pos[m] > 0 /\ pos[m] <= Tokens
      BY <1>1, <1>t, AmountAssumption DEF TypeOK, ManualExit
    <2>3. amount \in 1..pos[m] /\ pos[m] - amount \in 0..pos[m]
      BY <2>1, <2>2, HalfOfPosition
    <2>4. amount \in Amount /\ pos[m] - amount \in Amount
      BY <2>2, <2>3, AmountAssumption
    <2>5. seller' \in [Sellers -> [pc : {"idle", "risk", "submitted", "landed"},
                                   market : Markets \cup {NoMarket},
                                   amount : Amount, left : Amount]]
      BY <1>t, <2>1, <2>4, SellIntentType
    <2> QED
      BY <1>1, <1>t, <2>5 DEF TypeOK, ManualExit
  <1>2. ASSUME NEW x \in Sellers, SubmitSell(x)
        PROVE  TypeOK'
    BY <1>2, <1>t DEF TypeOK, SubmitSell
  <1>3. ASSUME NEW x \in Sellers, SellDenied(x)
        PROVE  TypeOK'
    BY <1>3, <1>t, AmountAssumption DEF TypeOK, SellDenied, SellEnds
  <1>4. ASSUME NEW x \in Sellers, SellLands(x)
        PROVE  TypeOK'
    <2>1. seller[x].market \in Markets /\ seller[x].amount \in Amount
      BY <1>4, <1>t DEF SellerInv, SellerFact, TypeOK, SellLands
    <2>2. held' \in [Markets -> Amount]
      BY <1>4, <1>t, <2>1, AmountAssumption DEF TypeOK, SellLands
    <2> QED
      BY <1>4, <1>t, <2>2 DEF TypeOK, SellLands
  <1>5. ASSUME NEW x \in Sellers, SellAccepted(x)
        PROVE  TypeOK'
    <2>1. seller[x].left \in Amount
      BY <1>t DEF TypeOK
    <2>2. /\ pos' \in [Markets -> Amount]
          /\ opened' \in [Markets -> BOOLEAN] /\ closed' \in [Markets -> BOOLEAN]
      BY <1>5, <1>t, <2>1, SaveType DEF SellAccepted
    <2> QED
      BY <1>5, <1>t, <2>2, AmountAssumption DEF TypeOK, SellAccepted, SellEnds
  <1>6. ASSUME NEW x \in Sellers, SellNotAccepted(x)
        PROVE  TypeOK'
    <2>1. seller[x].amount \in 1..Tokens
      BY <1>6, <1>t, AmountAssumption
      DEF SellerInv, SellerFact, TypeOK, SellNotAccepted
    <2>2. late' \in [Markets -> SUBSET (1..Tokens)]
      BY <1>6, <1>t, <2>1 DEF TypeOK, SellNotAccepted
    <2> QED
      BY <1>6, <1>t, <2>2, AmountAssumption DEF TypeOK, SellNotAccepted, SellEnds
  <1> QED
    BY <1>1, <1>2, <1>3, <1>4, <1>5, <1>6 DEF SellStep

LEMMA TypeWorker ==
  ASSUME IInv, WorkerStep
  PROVE  TypeOK'
  <1>t. TypeOK
    BY DEF IInv
  <1>1. CASE ReadPositions
    BY <1>1, <1>t DEF TypeOK, ReadPositions, Open
  <1>2. CASE SlotFails
    BY <1>2, <1>t, AmountAssumption DEF TypeOK, SlotFails
  <1>3. CASE CycleEnds
    BY <1>3, <1>t, AmountAssumption DEF TypeOK, CycleEnds
  <1>4. ASSUME NEW m \in Markets, SkipPosition(m)
        PROVE  TypeOK'
    BY <1>4, <1>t DEF TypeOK, SkipPosition, Visit
  <1>5. ASSUME NEW m \in Markets, HoldPosition(m)
        PROVE  TypeOK'
    <2>1. exit.read[m] \in Amount
      BY <1>t DEF TypeOK
    <2>2. /\ pos' \in [Markets -> Amount]
          /\ opened' \in [Markets -> BOOLEAN] /\ closed' \in [Markets -> BOOLEAN]
      BY <1>5, <1>t, <2>1, SaveType DEF HoldPosition
    <2> QED
      BY <1>5, <1>t, <2>2 DEF TypeOK, HoldPosition, Visit
  <1>6. ASSUME NEW m \in Markets, SellPosition(m)
        PROVE  TypeOK'
    <2>1. PICK amount \in 1..exit.read[m] :
            SellIntent(Worker, m, amount, exit.read[m] - amount)
      BY <1>6 DEF SellPosition
    <2>2. exit.read[m] \in Amount
      BY <1>t DEF TypeOK
    <2>3. amount \in Amount /\ exit.read[m] - amount \in Amount
      BY <2>1, <2>2, AmountAssumption
    <2>4. seller' \in [Sellers -> [pc : {"idle", "risk", "submitted", "landed"},
                                   market : Markets \cup {NoMarket},
                                   amount : Amount, left : Amount]]
      BY <1>t, <2>1, <2>3, SellIntentType
    <2> QED
      BY <1>6, <1>t, <2>4 DEF TypeOK, SellPosition, Visit
  <1> QED
    BY <1>1, <1>2, <1>3, <1>4, <1>5, <1>6 DEF WorkerStep

LEMMA TypeStart ==
  ASSUME IInv, StartStep
  PROVE  TypeOK'
  <1>t. TypeOK
    BY DEF IInv
  <1>1. CASE Start
    BY <1>1, <1>t DEF TypeOK, Start
  <1>2. CASE StartFails
    BY <1>2, <1>t DEF TypeOK, StartFails
  <1>3. CASE Started
    BY <1>3, <1>t DEF TypeOK, Started
  <1>4. ASSUME NEW m \in Markets, Recover(m)
        PROVE  TypeOK'
    BY <1>4, <1>t DEF TypeOK, Recover
  <1>5. ASSUME NEW m \in Markets, Restore(m)
        PROVE  TypeOK'
    <2>1. Tokens \in Amount
      BY AmountAssumption
    <2>2. /\ pos' \in [Markets -> Amount]
          /\ opened' \in [Markets -> BOOLEAN] /\ closed' \in [Markets -> BOOLEAN]
      <3>1. CASE Save(m, Tokens)
        BY <3>1, <1>t, <2>1, SaveType
      <3>2. CASE UNCHANGED <<pos, opened, closed>>
        BY <3>2, <1>t DEF TypeOK
      <3> QED
        BY <1>5, <3>1, <3>2 DEF Restore
    <2> QED
      BY <1>5, <1>t, <2>2 DEF TypeOK, Restore
  <1> QED
    BY <1>1, <1>2, <1>3, <1>4, <1>5 DEF StartStep

LEMMA TypeWorld ==
  ASSUME IInv, ChainStep \/ ToggleKillSwitch
  PROVE  TypeOK'
  <1>t. TypeOK
    BY DEF IInv
  <1>1. ASSUME NEW m \in Markets, BuyLands(m)
        PROVE  TypeOK'
    BY <1>1, <1>t, AmountAssumption DEF TypeOK, BuyLands
  <1>2. ASSUME NEW m \in Markets, NEW amount \in 1..Tokens, LateSellLands(m, amount)
        PROVE  TypeOK'
    <2>1. held' \in [Markets -> Amount]
      BY <1>2, <1>t, AmountAssumption DEF TypeOK, LateSellLands
    <2>2. late' \in [Markets -> SUBSET (1..Tokens)]
      BY <1>2, <1>t DEF TypeOK, LateSellLands
    <2> QED
      BY <1>2, <1>t, <2>1, <2>2 DEF TypeOK, LateSellLands
  <1>3. CASE ToggleKillSwitch
    BY <1>3, <1>t DEF TypeOK, ToggleKillSwitch
  <1> QED
    BY <1>1, <1>2, <1>3 DEF ChainStep

\* A death leaves tasks, sellers and the cycle idle, and late sells of at
\* least one token.
LEMMA TypeDies ==
  ASSUME IInv, ProcessDies,
         buy' \in [Markets -> BuyState],
         UNCHANGED <<held, bought, pos, opened, closed>>
  PROVE  TypeOK'
  <1>t. TypeOK /\ SellerInv
    BY DEF IInv
  <1>1. ASSUME NEW x \in Sellers, seller[x].pc = "submitted"
        PROVE  seller[x].amount \in 1..Tokens
    BY <1>1, <1>t, AmountAssumption DEF SellerInv, SellerFact, TypeOK
  <1>2. late' \in [Markets -> SUBSET (1..Tokens)]
    BY <1>1, <1>t DEF TypeOK, ProcessDies
  <1>3. crashes' \in 0..MaxCrashes
    BY <1>t, AmountAssumption DEF TypeOK, ProcessDies
  <1>4. /\ task' \in [Deliveries -> [pc : {"idle", "risk", "submitted"},
                                     market : Markets \cup {NoMarket}, seen : Nat]]
        /\ seller' \in [Sellers -> [pc : {"idle", "risk", "submitted", "landed"},
                                    market : Markets \cup {NoMarket},
                                    amount : Amount, left : Amount]]
        /\ exit' \in [pc : {"idle", "cycle", "dead"}, read : [Markets -> Amount],
                      todo : SUBSET Markets]
    BY AmountAssumption DEF ProcessDies
  <1> QED
    BY <1>t, <1>2, <1>3, <1>4 DEF TypeOK, ProcessDies

LEMMA TypeNext ==
  ASSUME IInv, [Next]_vars
  PROVE  TypeOK'
  <1>t. TypeOK
    BY DEF IInv
  <1>1. CASE LaunchStep \/ SellStep \/ WorkerStep \/ StartStep
    BY <1>1, TypeLaunch, TypeSell, TypeWorker, TypeStart
  <1>2. CASE ChainStep \/ ToggleKillSwitch
    BY <1>2, TypeWorld
  <1>3. CASE Crash
    BY <1>3, <1>t, TypeDies DEF Crash, TypeOK
  <1>4. ASSUME NEW d \in Deliveries, CrashBeforeSave(d)
        PROVE  TypeOK'
    BY <1>4, <1>t, TypeDies DEF CrashBeforeSave, TypeOK
  <1>5. CASE UNCHANGED vars
    BY <1>5, <1>t DEF TypeOK, vars
  <1> QED
    BY <1>1, <1>2, <1>3, <1>4, <1>5 DEF Next

(***************************************************************************)
(* A market that has had a position.                                        *)
(***************************************************************************)

\* It stays bought and reconciled, and its tokens only leave the wallet: a BUY
\* lands only while its record is open, and nothing reopens a record.
LEMMA OpenedStep ==
  ASSUME IInv, [Next]_vars, NEW m \in Markets, opened[m]
  PROVE  opened'[m] /\ bought'[m] /\ buy'[m] = "reconciled" /\ held'[m] <= held[m]
  <1>t. /\ TypeOK /\ RecoverInv /\ SellerInv /\ TaskInv
        /\ bought[m] /\ buy[m] = "reconciled" /\ held[m] \in Nat
    BY AmountAssumption DEF IInv, MarketInv, MarketFact, TypeOK
  <1>s. ASSUME NEW n, NEW amount, Save(n, amount)
        PROVE  opened'[m]
    BY <1>s, <1>t DEF Save, TypeOK
  <1>1. ASSUME NEW d \in Deliveries, NEW n \in Markets, Deliver(d, n)
        PROVE  UNCHANGED <<opened, bought, buy, held>>
    BY <1>1 DEF Deliver
  <1>2. ASSUME NEW d \in Deliveries,
               SubmitBuy(d) \/ BuyDenied(d) \/ BuyAccepted(d) \/ BuyNotAccepted(d)
        PROVE  opened'[m] /\ buy'[m] = "reconciled" /\ UNCHANGED <<bought, held>>
    <2>1. CASE SubmitBuy(d)
      BY <2>1, <1>t DEF SubmitBuy, TypeOK
    <2>2. CASE BuyDenied(d)
      BY <2>2, <1>t DEF BuyDenied
    <2>3. CASE BuyAccepted(d)
      BY <2>3, <1>t, <1>s DEF BuyAccepted, TypeOK
    <2>4. CASE BuyNotAccepted(d)
      BY <2>4, <1>t DEF BuyNotAccepted, TypeOK
    <2> QED
      BY <1>2, <2>1, <2>2, <2>3, <2>4
  <1>3. ASSUME NEW x \in Sellers, NEW n \in Markets, ManualExit(x, n)
        PROVE  UNCHANGED <<opened, bought, buy, held>>
    BY <1>3 DEF ManualExit
  <1>4. ASSUME NEW x \in Sellers, SubmitSell(x) \/ SellDenied(x) \/ SellNotAccepted(x)
        PROVE  UNCHANGED <<opened, bought, buy, held>>
    BY <1>4 DEF SubmitSell, SellDenied, SellNotAccepted
  <1>5. ASSUME NEW x \in Sellers, SellLands(x)
        PROVE  held'[m] <= held[m] /\ UNCHANGED <<opened, bought, buy>>
    <2>1. seller[x].amount \in Nat
      BY <1>t, AmountAssumption DEF TypeOK
    <2> QED
      BY <1>5, <1>t, <2>1 DEF SellLands, TypeOK
  <1>6. ASSUME NEW x \in Sellers, SellAccepted(x)
        PROVE  opened'[m] /\ UNCHANGED <<bought, buy, held>>
    BY <1>6, <1>s DEF SellAccepted
  <1>7. CASE WorkerStep
    <2>1. CASE ReadPositions \/ SlotFails \/ CycleEnds
      BY <2>1, <1>t DEF ReadPositions, SlotFails, CycleEnds
    <2>2. ASSUME NEW n \in Markets, SkipPosition(n) \/ SellPosition(n)
          PROVE  UNCHANGED <<opened, bought, buy, held>>
      BY <2>2 DEF SkipPosition, SellPosition
    <2>3. ASSUME NEW n \in Markets, HoldPosition(n)
          PROVE  opened'[m] /\ UNCHANGED <<bought, buy, held>>
      BY <2>3, <1>s DEF HoldPosition
    <2> QED
      BY <1>7, <1>t, <2>1, <2>2, <2>3 DEF WorkerStep
  <1>8. CASE StartStep
    <2>1. CASE Start \/ StartFails \/ Started
      BY <2>1, <1>t DEF Start, StartFails, Started
    <2>2. ASSUME NEW n \in Markets, Recover(n)
          PROVE  buy'[m] = "reconciled" /\ UNCHANGED <<opened, bought, held>>
      <3>1. n # m
        BY <2>2, <1>t DEF Recover, RecoverInv
      <3> QED
        BY <2>2, <3>1, <1>t DEF Recover, TypeOK
    <2>3. ASSUME NEW n \in Markets, Restore(n)
          PROVE  opened'[m] /\ UNCHANGED <<bought, buy, held>>
      BY <2>3, <1>s DEF Restore
    <2> QED
      BY <1>8, <1>t, <2>1, <2>2, <2>3 DEF StartStep
  <1>9. CASE ChainStep
    <2>1. ASSUME NEW n \in Markets, BuyLands(n)
          PROVE  bought'[m] /\ held'[m] = held[m] /\ UNCHANGED <<opened, buy>>
      BY <2>1, <1>t DEF BuyLands, TypeOK
    <2>2. ASSUME NEW n \in Markets, NEW amount \in 1..Tokens, LateSellLands(n, amount)
          PROVE  held'[m] <= held[m] /\ UNCHANGED <<opened, bought, buy>>
      BY <2>2, <1>t, AmountAssumption DEF LateSellLands, TypeOK
    <2> QED
      BY <1>9, <1>t, <2>1, <2>2 DEF ChainStep
  <1>10. CASE ToggleKillSwitch \/ Crash
    BY <1>10, <1>t DEF ToggleKillSwitch, Crash
  <1>11. ASSUME NEW d \in Deliveries, CrashBeforeSave(d)
         PROVE  buy'[m] = "reconciled" /\ UNCHANGED <<opened, bought, held>>
    BY <1>11, <1>t DEF CrashBeforeSave, TypeOK
  <1>12. CASE UNCHANGED vars
    BY <1>12, <1>t DEF vars
  <1>13. CASE LaunchStep
    BY <1>13, <1>t, <1>1, <1>2 DEF LaunchStep
  <1>14. CASE SellStep
    BY <1>14, <1>t, <1>3, <1>4, <1>5, <1>6 DEF SellStep
  <1> QED
    BY <1>t, <1>7, <1>8, <1>9, <1>10, <1>11, <1>12, <1>13, <1>14 DEF Next

\* A row is written with at least what the wallet holds of a bought market.
LEMMA SaveCases ==
  ASSUME IInv, [Next]_vars
  PROVE  \/ UNCHANGED <<pos, opened>>
         \/ \E m \in Markets, amount \in Amount :
              Save(m, amount) /\ bought'[m] /\ buy'[m] = "reconciled" /\ held'[m] <= amount
  <1> DEFINE Written ==
        \E m \in Markets, amount \in Amount :
          Save(m, amount) /\ bought'[m] /\ buy'[m] = "reconciled" /\ held'[m] <= amount
  <1>t. /\ TypeOK /\ TaskInv /\ SellerInv /\ ExitInv /\ RecoverInv
        /\ Tokens \in Amount
        /\ \A m \in Markets : held[m] \in Nat /\ held[m] <= Tokens
    BY AmountAssumption DEF IInv, TypeOK
  <1>1. CASE LaunchStep
    <2>1. ASSUME NEW d \in Deliveries, BuyAccepted(d)
          PROVE  Written
      <3>1. task[d].market \in Markets
        BY <2>1, <1>t DEF TaskInv, TaskFact, BuyAccepted
      <3>2. /\ Save(task[d].market, Tokens)
            /\ bought'[task[d].market] /\ buy'[task[d].market] = "reconciled"
            /\ held'[task[d].market] <= Tokens
        BY <2>1, <3>1, <1>t DEF BuyAccepted, TypeOK
      <3> QED
        BY <3>1, <3>2, <1>t
    <2>2. ASSUME NEW d \in Deliveries,
                 \/ \E m \in Markets : Deliver(d, m)
                 \/ SubmitBuy(d) \/ BuyDenied(d) \/ BuyNotAccepted(d)
          PROVE  UNCHANGED <<pos, opened>>
      BY <2>2 DEF Deliver, SubmitBuy, BuyDenied, BuyNotAccepted
    <2> QED
      BY <1>1, <2>1, <2>2 DEF LaunchStep
  <1>2. CASE SellStep
    <2>1. ASSUME NEW x \in Sellers, SellAccepted(x)
          PROVE  Written
      <3>1. /\ seller[x].market \in Markets /\ opened[seller[x].market]
            /\ held[seller[x].market] <= seller[x].left /\ seller[x].left \in Amount
        BY <2>1, <1>t DEF SellerInv, SellerFact, SellAccepted, TypeOK
      <3>2. bought'[seller[x].market] /\ buy'[seller[x].market] = "reconciled"
        BY <3>1, OpenedStep
      <3>3. Save(seller[x].market, seller[x].left) /\ held' = held
        BY <2>1 DEF SellAccepted
      <3> QED
        BY <3>1, <3>2, <3>3
    <2>2. ASSUME NEW x \in Sellers,
                 \/ \E m \in Markets : ManualExit(x, m)
                 \/ SubmitSell(x) \/ SellDenied(x) \/ SellLands(x) \/ SellNotAccepted(x)
          PROVE  UNCHANGED <<pos, opened>>
      BY <2>2 DEF ManualExit, SubmitSell, SellDenied, SellLands, SellNotAccepted
    <2> QED
      BY <1>2, <2>1, <2>2 DEF SellStep
  <1>3. CASE WorkerStep
    <2>1. ASSUME NEW m \in Markets, HoldPosition(m)
          PROVE  Written
      <3>1. opened[m] /\ held[m] <= exit.read[m] /\ exit.read[m] \in Amount
        BY <2>1, <1>t DEF ExitInv, HoldPosition, Visit, TypeOK
      <3>2. bought'[m] /\ buy'[m] = "reconciled"
        BY <3>1, OpenedStep
      <3>3. Save(m, exit.read[m]) /\ held' = held
        BY <2>1 DEF HoldPosition
      <3> QED
        BY <3>1, <3>2, <3>3
    <2>2. ASSUME \/ ReadPositions \/ SlotFails \/ CycleEnds
                 \/ \E m \in Markets : SkipPosition(m) \/ SellPosition(m)
          PROVE  UNCHANGED <<pos, opened>>
      BY <2>2 DEF ReadPositions, SlotFails, CycleEnds, SkipPosition, SellPosition
    <2> QED
      BY <1>3, <2>1, <2>2 DEF WorkerStep
  <1>4. CASE StartStep
    <2>1. ASSUME NEW m \in Markets, Restore(m), pos[m] = 0
          PROVE  Written
      <3>1. Save(m, Tokens) /\ UNCHANGED <<held, bought, buy>>
        BY <2>1 DEF Restore
      <3>2. bought[m] /\ buy[m] = "reconciled"
        BY <2>1, <1>t DEF Restore, RecoverInv
      <3> QED
        BY <3>1, <3>2, <1>t
    <2>2. ASSUME \/ Start \/ StartFails \/ Started
                 \/ \E m \in Markets : Recover(m) \/ (Restore(m) /\ pos[m] # 0)
          PROVE  UNCHANGED <<pos, opened>>
      BY <2>2 DEF Start, StartFails, Started, Recover, Restore
    <2> QED
      BY <1>4, <2>1, <2>2 DEF StartStep
  <1>5. CASE ChainStep
    BY <1>5 DEF ChainStep, BuyLands, LateSellLands
  <1>6. CASE ToggleKillSwitch \/ Crash \/ \E d \in Deliveries : CrashBeforeSave(d)
    BY <1>6 DEF ToggleKillSwitch, Crash, CrashBeforeSave
  <1>7. CASE UNCHANGED vars
    BY <1>7 DEF vars
  <1> QED
    BY <1>1, <1>2, <1>3, <1>4, <1>5, <1>6, <1>7 DEF Next

LEMMA MarketStep ==
  ASSUME IInv, [Next]_vars
  PROVE  MarketInv'
  <1> SUFFICES ASSUME NEW m \in Markets
               PROVE  MarketFact(m)'
    BY DEF MarketInv
  <1>t. /\ TypeOK /\ TypeOK' /\ MarketFact(m)
        /\ held[m] \in Nat /\ pos[m] \in Nat /\ held'[m] \in Nat
    BY TypeNext, AmountAssumption DEF IInv, MarketInv, TypeOK
  <1>1. CASE UNCHANGED <<pos, opened>>
    <2>1. pos'[m] = pos[m] /\ opened'[m] = opened[m]
      BY <1>1
    <2>2. CASE opened[m]
      BY <2>1, <2>2, <1>t, OpenedStep DEF MarketFact
    <2>3. CASE ~opened[m]
      BY <2>1, <2>3, <1>t DEF MarketFact
    <2> QED
      BY <2>2, <2>3
  <1>2. ASSUME NEW n \in Markets, NEW amount \in Amount,
               Save(n, amount), bought'[n], buy'[n] = "reconciled", held'[n] <= amount
        PROVE  MarketFact(m)'
    <2>1. CASE n = m
      <3>1. pos'[m] = amount /\ opened'[m]
        BY <1>2, <2>1, <1>t DEF Save, TypeOK
      <3> QED
        BY <3>1, <1>2, <2>1 DEF MarketFact
    <2>2. CASE n # m
      <3>1. pos'[m] = pos[m] /\ opened'[m] = opened[m]
        BY <1>2, <2>2, <1>t DEF Save, TypeOK
      <3>2. CASE opened[m]
        BY <3>1, <3>2, <1>t, OpenedStep DEF MarketFact
      <3>3. CASE ~opened[m]
        BY <3>1, <3>3, <1>t DEF MarketFact
      <3> QED
        BY <3>2, <3>3
    <2> QED
      BY <2>1, <2>2
  <1> QED
    BY <1>1, <1>2, SaveCases

(***************************************************************************)
(* Sells in flight.                                                         *)
(***************************************************************************)

\* A sell that begins covers what the wallet holds.
Begins(x) ==
  /\ seller'[x].market \in Markets /\ opened[seller'[x].market]
  /\ seller'[x].amount \in Nat /\ seller'[x].left \in Nat
  /\ seller'[x].amount > 0
  /\ held[seller'[x].market] <= seller'[x].amount + seller'[x].left
  /\ seller'[x].pc = "risk"

\* A sell that executes takes its amount out of the wallet.
Executes(x) ==
  /\ seller[x].pc = "submitted" /\ seller'[x].pc = "landed"
  /\ seller'[x].market = seller[x].market
  /\ seller'[x].amount = seller[x].amount /\ seller'[x].left = seller[x].left
  /\ seller[x].market \in Markets =>
       held'[seller[x].market] = held[seller[x].market] - seller[x].amount

Submits(x) ==
  /\ seller[x].pc = "risk" /\ seller'[x].pc = "submitted"
  /\ seller'[x].market = seller[x].market
  /\ seller'[x].amount = seller[x].amount /\ seller'[x].left = seller[x].left

LEMMA BeginsCovered ==
  ASSUME TypeOK, NEW y \in Sellers, NEW m \in Markets,
         NEW amount \in Nat, NEW left \in Nat,
         SellIntent(y, m, amount, left),
         opened[m], amount > 0, held[m] <= amount + left,
         NEW x \in Sellers
  PROVE  seller'[x] = seller[x] \/ Begins(x)
  <1>1. CASE x = y
    <2>1. seller'[x] = [pc |-> "risk", market |-> m, amount |-> amount, left |-> left]
      BY <1>1 DEF SellIntent, TypeOK
    <2> QED
      BY <2>1 DEF Begins
  <1>2. CASE x # y
    BY <1>2 DEF SellIntent, TypeOK
  <1> QED
    BY <1>1, <1>2

LEMMA SellerMoves ==
  ASSUME IInv, [Next]_vars, NEW x \in Sellers
  PROVE  \/ seller'[x] = seller[x]
         \/ seller'[x].pc = "idle"
         \/ Begins(x) \/ Submits(x) \/ Executes(x)
  <1>t. TypeOK /\ MarketInv /\ ExitInv
    BY DEF IInv
  <1>1. ASSUME NEW y \in Sellers, NEW m \in Markets, ManualExit(y, m)
        PROVE  seller'[x] = seller[x] \/ Begins(x)
    <2>1. PICK amount \in {pos[m], IF pos[m] = 1 THEN 1 ELSE pos[m] \div 2} :
            SellIntent(y, m, amount, pos[m] - amount)
      BY <1>1 DEF ManualExit
    <2>2. pos[m] \in Nat /\ pos[m] > 0 /\ held[m] \in Nat
      BY <1>1, <1>t, AmountAssumption DEF TypeOK, ManualExit
    <2>3. amount \in 1..pos[m] /\ pos[m] - amount \in 0..pos[m]
      BY <2>1, <2>2, HalfOfPosition
    <2>4. opened[m] /\ held[m] <= pos[m]
      BY <1>t, <2>2 DEF MarketInv, MarketFact
    <2>5. /\ amount \in Nat /\ pos[m] - amount \in Nat /\ amount > 0
          /\ held[m] <= amount + (pos[m] - amount)
      BY <2>2, <2>3, <2>4
    <2> QED
      BY <1>t, <2>1, <2>4, <2>5, BeginsCovered
  <1>2. ASSUME NEW m \in Markets, SellPosition(m)
        PROVE  seller'[x] = seller[x] \/ Begins(x)
    <2>1. PICK amount \in 1..exit.read[m] :
            SellIntent(Worker, m, amount, exit.read[m] - amount)
      BY <1>2 DEF SellPosition
    <2>2. exit.read[m] \in Nat /\ held[m] \in Nat
      BY <1>t, AmountAssumption DEF TypeOK
    <2>3. opened[m] /\ held[m] <= exit.read[m]
      BY <1>2, <1>t DEF SellPosition, Visit, ExitInv
    <2>4. /\ amount \in Nat /\ exit.read[m] - amount \in Nat /\ amount > 0
          /\ held[m] <= amount + (exit.read[m] - amount)
      BY <2>1, <2>2, <2>3
    <2> QED
      BY <1>t, <2>1, <2>3, <2>4, BeginsCovered
  <1>3. ASSUME NEW y \in Sellers, SubmitSell(y)
        PROVE  seller'[x] = seller[x] \/ Submits(x)
    BY <1>3, <1>t DEF SubmitSell, Submits, TypeOK
  <1>4. ASSUME NEW y \in Sellers, SellLands(y)
        PROVE  seller'[x] = seller[x] \/ Executes(x)
    BY <1>4, <1>t DEF SellLands, Executes, TypeOK
  <1>5. ASSUME NEW y \in Sellers, SellEnds(y)
        PROVE  seller'[x] = seller[x] \/ seller'[x].pc = "idle"
    BY <1>5, <1>t DEF SellEnds, TypeOK
  <1>6. CASE SellStep
    BY <1>6, <1>1, <1>3, <1>4, <1>5
    DEF SellStep, SellDenied, SellAccepted, SellNotAccepted
  <1>7. CASE LaunchStep
    BY <1>7 DEF LaunchStep, Deliver, SubmitBuy, BuyDenied, BuyAccepted, BuyNotAccepted
  <1>8. CASE WorkerStep
    BY <1>8, <1>2
    DEF WorkerStep, ReadPositions, SlotFails, CycleEnds, SkipPosition, HoldPosition
  <1>9. CASE StartStep \/ ChainStep \/ ToggleKillSwitch
    BY <1>9 DEF StartStep, Start, StartFails, Started, Recover, Restore,
                ChainStep, BuyLands, LateSellLands, ToggleKillSwitch
  <1>10. CASE ProcessDies
    BY <1>10 DEF ProcessDies
  <1>11. CASE UNCHANGED vars
    BY <1>11 DEF vars
  <1> QED
    BY <1>6, <1>7, <1>8, <1>9, <1>10, <1>11 DEF Next, Crash, CrashBeforeSave

LEMMA SellerStep ==
  ASSUME IInv, [Next]_vars
  PROVE  SellerInv'
  <1> SUFFICES ASSUME NEW x \in Sellers, seller'[x].pc # "idle"
               PROVE  SellerFact(x)'
    BY DEF SellerInv, SellerFact
  <1>t. /\ TypeOK /\ TypeOK' /\ SellerFact(x)
        /\ \A m \in Markets : held[m] \in Nat /\ held'[m] \in Nat
        /\ seller[x].amount \in Nat /\ seller[x].left \in Nat
    BY TypeNext, AmountAssumption DEF IInv, SellerInv, TypeOK
  <1>1. CASE seller'[x] = seller[x]
    <2>1. seller[x].market \in Markets /\ opened[seller[x].market]
      BY <1>1, <1>t DEF SellerFact
    <2>2. opened'[seller[x].market] /\ held'[seller[x].market] <= held[seller[x].market]
      BY <2>1, OpenedStep
    <2> QED
      BY <1>1, <1>t, <2>1, <2>2 DEF SellerFact
  <1>2. CASE Begins(x)
    <2>1. /\ opened'[seller'[x].market]
          /\ held'[seller'[x].market] <= held[seller'[x].market]
      BY <1>2, OpenedStep DEF Begins
    <2> QED
      BY <1>2, <1>t, <2>1 DEF Begins, SellerFact
  <1>3. CASE Submits(x)
    <2>1. seller[x].market \in Markets /\ opened[seller[x].market]
      BY <1>3, <1>t DEF Submits, SellerFact
    <2>2. opened'[seller[x].market] /\ held'[seller[x].market] <= held[seller[x].market]
      BY <2>1, OpenedStep
    <2> QED
      BY <1>3, <1>t, <2>1, <2>2 DEF Submits, SellerFact
  <1>4. CASE Executes(x)
    <2>1. seller[x].market \in Markets /\ opened[seller[x].market]
      BY <1>4, <1>t DEF Executes, SellerFact
    <2>2. opened'[seller[x].market]
      BY <2>1, OpenedStep
    <2> QED
      BY <1>4, <1>t, <2>1, <2>2 DEF Executes, SellerFact
  <1> QED
    BY <1>1, <1>2, <1>3, <1>4, SellerMoves

(***************************************************************************)
(* The cycle, recovery and deliveries.                                      *)
(***************************************************************************)

LEMMA ExitStep ==
  ASSUME IInv, [Next]_vars
  PROVE  ExitInv'
  <1>t. TypeOK /\ TypeOK' /\ ExitInv /\ MarketInv
    BY TypeNext DEF IInv
  <1>n. \A m \in Markets :
          /\ held[m] \in Nat /\ held'[m] \in Nat /\ exit.read[m] \in Nat
          /\ opened[m] => opened'[m] /\ held'[m] <= held[m]
    BY <1>t, OpenedStep, AmountAssumption DEF TypeOK
  <1>1. ASSUME exit'.read = exit.read, exit'.todo \subseteq exit.todo
        PROVE  ExitInv'
    BY <1>1, <1>t, <1>n DEF ExitInv, TypeOK
  <1>2. ASSUME exit'.todo = {}
        PROVE  ExitInv'
    BY <1>2 DEF ExitInv
  <1>3. CASE ReadPositions
    <2>1. exit'.read = pos /\ exit'.todo = Open /\ held' = held
      BY <1>3 DEF ReadPositions
    <2>2. \A m \in Open : m \in Markets /\ opened[m] /\ held[m] <= pos[m]
      BY <1>t DEF Open, MarketInv, MarketFact
    <2> QED
      BY <2>1, <2>2, <1>n DEF ExitInv
  <1>4. CASE WorkerStep /\ ~ReadPositions
    <2>1. ASSUME NEW m \in Markets, Visit(m)
          PROVE  exit'.read = exit.read /\ exit'.todo \subseteq exit.todo
      BY <2>1, <1>t DEF Visit, TypeOK
    <2>2. CASE SlotFails \/ CycleEnds
      BY <2>2, <1>2 DEF SlotFails, CycleEnds
    <2> QED
      BY <1>4, <1>1, <2>1, <2>2
      DEF WorkerStep, SkipPosition, HoldPosition, SellPosition
  <1>5. CASE LaunchStep \/ SellStep
    <2>1. exit' = exit
      BY <1>5 DEF LaunchStep, Deliver, SubmitBuy, BuyDenied, BuyAccepted, BuyNotAccepted,
                  SellStep, ManualExit, SubmitSell, SellDenied, SellLands, SellAccepted,
                  SellNotAccepted
    <2> QED
      BY <1>1, <2>1
  <1>6. CASE StartStep \/ ChainStep \/ ToggleKillSwitch \/ UNCHANGED vars
    <2>1. exit' = exit
      BY <1>6 DEF StartStep, Start, StartFails, Started, Recover, Restore,
                  ChainStep, BuyLands, LateSellLands, ToggleKillSwitch, vars
    <2> QED
      BY <1>1, <2>1
  <1>7. CASE ProcessDies
    BY <1>7, <1>2 DEF ProcessDies
  <1> QED
    BY <1>3, <1>4, <1>5, <1>6, <1>7 DEF Next, Crash, CrashBeforeSave

\* Deliveries run only in a running daemon, recovery only before it runs.
LEMMA StageStep ==
  ASSUME IInv, [Next]_vars
  PROVE  TaskInv' /\ RecoverInv'
  <1>t. TypeOK /\ TaskInv /\ RecoverInv
    BY DEF IInv
  <1>1. CASE LaunchStep
    <2>1. stage = "running" /\ UNCHANGED startVars
      BY <1>1, <1>t DEF LaunchStep, TaskInv, TaskFact, Deliver, SubmitBuy, BuyDenied,
                        BuyAccepted, BuyNotAccepted
    <2>2. RecoverInv'
      BY <2>1, <1>t DEF RecoverInv
    <2>3. ASSUME NEW d \in Deliveries, NEW m \in Markets, Deliver(d, m)
          PROVE  TaskInv'
      BY <2>1, <2>3, <1>t DEF Deliver, TaskInv, TaskFact, TypeOK
    <2>4. ASSUME NEW d \in Deliveries, SubmitBuy(d)
          PROVE  TaskInv'
      BY <2>1, <2>4, <1>t DEF SubmitBuy, TaskInv, TaskFact, TypeOK
    <2>5. ASSUME NEW d \in Deliveries, LaunchEnds(d)
          PROVE  TaskInv'
      BY <2>1, <2>5, <1>t DEF LaunchEnds, TaskInv, TaskFact, TypeOK
    <2> QED
      BY <1>1, <2>2, <2>3, <2>4, <2>5
      DEF LaunchStep, BuyDenied, BuyAccepted, BuyNotAccepted
  <1>2. CASE SellStep \/ WorkerStep \/ ToggleKillSwitch \/ UNCHANGED vars
    <2>1. UNCHANGED <<task, stage, rtodo, rdone, buy, bought>>
      BY <1>2 DEF SellStep, ManualExit, SubmitSell, SellDenied, SellLands, SellAccepted,
                  SellNotAccepted, WorkerStep, ReadPositions, SlotFails, CycleEnds,
                  SkipPosition, HoldPosition, SellPosition, ToggleKillSwitch, vars
    <2> QED
      BY <2>1, <1>t DEF TaskInv, TaskFact, RecoverInv
  <1>3. CASE StartStep
    <2>0. stage # "running" /\ UNCHANGED task
      BY <1>3 DEF StartStep, Start, StartFails, Started, Recover, Restore
    <2>1. TaskInv'
      BY <2>0, <1>t DEF TaskInv, TaskFact
    <2>2. CASE Start
      BY <2>1, <2>2 DEF Start, RecoverInv
    <2>3. CASE StartFails \/ Started
      BY <2>1, <2>3 DEF StartFails, Started, RecoverInv
    <2>4. ASSUME NEW m \in Markets, Recover(m)
          PROVE  RecoverInv'
      <3>1. stage' = "recovering" /\ rtodo' = rtodo \ {m} /\ bought' = bought
        BY <2>4 DEF Recover
      <3>a. buy[m] = "open" /\ \A n \in Markets \ {m} : buy'[n] = buy[n]
        BY <2>4, <1>t DEF Recover, RecoverInv, TypeOK
      <3>b. rtodo \subseteq Markets /\ rdone \subseteq Markets /\ m \notin rdone
        BY <3>a, <1>t DEF RecoverInv, TypeOK
      <3>2. \A n \in rtodo \ {m} : buy'[n] = "open"
        BY <3>a, <3>b, <1>t DEF RecoverInv
      <3>3. \A n \in rdone : buy'[n] = "reconciled" /\ bought[n]
        BY <3>a, <3>b, <1>t DEF RecoverInv
      <3>4. \/ rdone' = rdone
            \/ rdone' = rdone \cup {m} /\ bought[m] /\ buy'[m] = "reconciled"
        BY <2>4, <1>t DEF Recover, TypeOK
      <3> QED
        BY <3>1, <3>2, <3>3, <3>4 DEF RecoverInv
    <2>5. ASSUME NEW m \in Markets, Restore(m)
          PROVE  RecoverInv'
      BY <2>5, <1>t DEF Restore, RecoverInv
    <2> QED
      BY <1>3, <2>1, <2>2, <2>3, <2>4, <2>5 DEF StartStep
  <1>4. CASE ChainStep
    <2>1. UNCHANGED <<task, stage, rtodo, rdone, buy>>
      BY <1>4 DEF ChainStep, BuyLands, LateSellLands
    <2>2. \A m \in Markets : bought[m] => bought'[m]
      BY <1>4, <1>t DEF ChainStep, BuyLands, LateSellLands, TypeOK
    <2>3. rdone \subseteq Markets
      BY <1>t DEF TypeOK
    <2> QED
      BY <2>1, <2>2, <2>3, <1>t DEF TaskInv, TaskFact, RecoverInv
  <1>5. CASE ProcessDies
    BY <1>5 DEF ProcessDies, TaskInv, TaskFact, RecoverInv
  <1> QED
    BY <1>1, <1>2, <1>3, <1>4, <1>5 DEF Next, Crash, CrashBeforeSave

(***************************************************************************)
(* The theorems.                                                            *)
(***************************************************************************)

LEMMA IInvInit == Init => IInv
  <1> SUFFICES ASSUME Init
               PROVE  IInv
    OBVIOUS
  <1>0. 0 \in Amount /\ 0 \in 0..MaxCrashes
    BY AmountAssumption
  <1>a. /\ task \in [Deliveries -> [pc : {"idle", "risk", "submitted"},
                                    market : Markets \cup {NoMarket}, seen : Nat]]
        /\ seller \in [Sellers -> [pc : {"idle", "risk", "submitted", "landed"},
                                   market : Markets \cup {NoMarket},
                                   amount : Amount, left : Amount]]
    BY <1>0 DEF Init
  <1>b. exit \in [pc : {"idle", "cycle", "dead"}, read : [Markets -> Amount],
                 todo : SUBSET Markets]
    BY <1>0 DEF Init
  <1>c. /\ held \in [Markets -> Amount] /\ pos \in [Markets -> Amount]
        /\ late \in [Markets -> SUBSET (1..Tokens)]
        /\ buy \in [Markets -> BuyState]
    BY <1>0 DEF Init
  <1>1. TypeOK
    BY <1>0, <1>a, <1>b, <1>c DEF Init, TypeOK
  <1>2. TaskInv /\ RecoverInv /\ SellerInv /\ ExitInv
    BY DEF Init, TaskInv, TaskFact, RecoverInv, SellerInv, SellerFact, ExitInv
  <1>3. MarketInv
    BY DEF Init, MarketInv, MarketFact
  <1> QED
    BY <1>1, <1>2, <1>3 DEF IInv

LEMMA IInvNext == IInv /\ [Next]_vars => IInv'
  BY TypeNext, MarketStep, SellerStep, ExitStep, StageStep DEF IInv

LEMMA Inductive == Spec => []IInv
  BY IInvInit, IInvNext, PTL DEF Spec

\* Every variable of the daemon keeps its type; amounts never leave
\* 0..Tokens, whichever halves and parts of a position are sold together
\* (position_exit_worker.py execute_manual_exit, _advance).
THEOREM TypeCorrect == Spec => []TypeOK
  <1>1. IInv => TypeOK
    BY DEF IInv
  <1> QED
    BY <1>1, Inductive, PTL

\* The store shows the exit worker only positions whose BUY executed and was
\* reconciled (sniper_daemon.py _handle_locked_launch, restore).
THEOREM PositionIsBoughtCorrect == Spec => []PositionIsBought
  <1>1. IInv => PositionIsBought
    BY DEF IInv, MarketInv, MarketFact, PositionIsBought
  <1> QED
    BY <1>1, Inductive, PTL

\* Any number of manual and automatic sells of a position, each saving what it
\* computed before it awaited, never hide tokens that the wallet holds
\* (position_exit_worker.py _submit_and_persist).
THEOREM NoTokensForgottenCorrect == Spec => []NoTokensForgotten
  <1>1. IInv => NoTokensForgotten
    BY DEF IInv, MarketInv, MarketFact, NoTokensForgotten
  <1> QED
    BY <1>1, Inductive, PTL

\* No delivery or restart buys again into a market that has had a position
\* (sniper_daemon.py _buy_intent).
THEOREM EntriesAreNotRepeatedCorrect == Spec => EntriesAreNotRepeated
  <1>1. IInv /\ [Next]_vars =>
          [\A m \in Markets : opened[m] => held'[m] <= held[m]]_vars
    BY OpenedStep
  <1> QED
    BY <1>1, Inductive, PTL DEF Spec, EntriesAreNotRepeated

(***************************************************************************)
(* Exposure: the positions the gate holds back, and the deliveries that     *)
(* passed it or will.                                                       *)
(***************************************************************************)

\* Deliveries whose count of open positions lets them pass the gate.
Admitted == {d \in Deliveries : task[d].pc # "idle" /\ task[d].seen < MaxOpen}

\* A position that was never closed has its row.
RowInv == \A m \in NeverClosed : pos[m] > 0

\* Before the first restart recovery finds nothing, and what was reconciled has
\* been given its position.
FirstRunInv ==
  crashes = 0 =>
    /\ stage \in {"down", "recovering"} => \A m \in Markets : buy[m] = "new"
    /\ rtodo = {} /\ rdone = {}
    /\ \A m \in Markets : buy[m] = "reconciled" => opened[m]

\* Only admitted deliveries are submitted, and each one that is on its way may
\* add one position.
ExposureInv ==
  crashes = 0 =>
    /\ \A d \in Deliveries : task[d].pc = "submitted" => d \in Admitted
    /\ NeverClosed # {} \/ Admitted # {} =>
         Cardinality(NeverClosed) + Cardinality(Admitted)
           < MaxOpen + Cardinality(Deliveries)

\* Only a crash counts as one.
LEMMA FirstRunStays ==
  ASSUME IInv, [Next]_vars, crashes' = 0
  PROVE  crashes = 0 /\ ~ProcessDies
  <1>1. ~ProcessDies
    BY AmountAssumption DEF ProcessDies, IInv, TypeOK
  <1> QED
    BY <1>1
    DEF Next, LaunchStep, Deliver, SubmitBuy, BuyDenied, BuyAccepted, BuyNotAccepted,
        SellStep, ManualExit, SubmitSell, SellDenied, SellLands, SellAccepted,
        SellNotAccepted, WorkerStep, ReadPositions, SlotFails, CycleEnds, SkipPosition,
        HoldPosition, SellPosition, StartStep, Start, StartFails, Started, Recover,
        Restore, ChainStep, BuyLands, LateSellLands, ToggleKillSwitch, Crash,
        CrashBeforeSave, vars

LEMMA FirstRunStep ==
  ASSUME IInv, FirstRunInv, [Next]_vars
  PROVE  FirstRunInv'
  <1> SUFFICES ASSUME crashes' = 0
               PROVE  FirstRunInv'
    BY DEF FirstRunInv
  <1>t. TypeOK /\ TaskInv
    BY DEF IInv
  <1>0. crashes = 0 /\ ~ProcessDies
    BY FirstRunStays
  <1>i. /\ stage \in {"down", "recovering"} => \A m \in Markets : buy[m] = "new"
        /\ rtodo = {} /\ rdone = {}
        /\ \A m \in Markets : buy[m] = "reconciled" => opened[m]
    BY <1>0 DEF FirstRunInv
  <1>1. /\ stage' \in {"down", "recovering"} => \A m \in Markets : buy'[m] = "new"
        /\ rtodo' = {} /\ rdone' = {}
    <2>1. CASE LaunchStep
      <3>1. stage = "running" /\ UNCHANGED startVars
        BY <2>1, <1>t DEF LaunchStep, TaskInv, TaskFact, Deliver, SubmitBuy, BuyDenied,
                          BuyAccepted, BuyNotAccepted
      <3> QED
        BY <3>1, <1>i
    <2>2. CASE StartStep
      <3>1. CASE Start
        BY <3>1, <1>i DEF Start
      <3>2. CASE Started
        BY <3>2, <1>i DEF Started
      <3>3. ~StartFails /\ \A m \in Markets : ~Recover(m) /\ ~Restore(m)
        BY <1>i DEF StartFails, Recover, Restore
      <3> QED
        BY <2>2, <3>1, <3>2, <3>3 DEF StartStep
    <2>3. CASE SellStep \/ WorkerStep \/ ChainStep \/ ToggleKillSwitch \/ UNCHANGED vars
      <3>1. UNCHANGED <<stage, rtodo, rdone, buy>>
        BY <2>3
        DEF SellStep, ManualExit, SubmitSell, SellDenied, SellLands, SellAccepted,
            SellNotAccepted, WorkerStep, ReadPositions, SlotFails, CycleEnds, SkipPosition,
            HoldPosition, SellPosition, ChainStep, BuyLands, LateSellLands,
            ToggleKillSwitch, vars
      <3> QED
        BY <3>1, <1>i
    <2> QED
      BY <1>0, <2>1, <2>2, <2>3 DEF Next, Crash, CrashBeforeSave
  <1>2. ASSUME NEW m \in Markets, buy'[m] = "reconciled"
        PROVE  opened'[m]
    <2>1. CASE opened[m]
      BY <2>1, OpenedStep
    <2>2. CASE ~opened[m]
      <3>0. buy[m] # "reconciled"
        BY <2>2, <1>i
      <3>1. ASSUME NEW d \in Deliveries, BuyAccepted(d)
            PROVE  opened'[m]
        <4>1. task[d].market = m
          BY <3>0, <3>1, <1>2, <1>t DEF BuyAccepted, TypeOK
        <4> QED
          BY <4>1, <3>1, <1>t DEF BuyAccepted, Save, TypeOK
      <3>2. ASSUME NEW d \in Deliveries, SubmitBuy(d) \/ BuyNotAccepted(d)
            PROVE  FALSE
        BY <3>0, <3>2, <1>2, <1>t DEF SubmitBuy, BuyNotAccepted, TypeOK
      <3>3. \A n \in Markets : ~Recover(n)
        BY <1>i DEF Recover
      <3>4. CASE LaunchStep
        BY <3>0, <3>1, <3>2, <3>4, <1>2 DEF LaunchStep, Deliver, BuyDenied
      <3>5. CASE \/ SellStep \/ WorkerStep \/ StartStep \/ ChainStep \/ ToggleKillSwitch
                 \/ UNCHANGED vars
        BY <3>0, <3>3, <3>5, <1>2
        DEF SellStep, ManualExit, SubmitSell, SellDenied, SellLands, SellAccepted,
            SellNotAccepted, WorkerStep, ReadPositions, SlotFails, CycleEnds, SkipPosition,
            HoldPosition, SellPosition, StartStep, Start, StartFails, Started,
            Restore, ChainStep, BuyLands, LateSellLands, ToggleKillSwitch, vars
      <3> QED
        BY <1>0, <3>4, <3>5 DEF Next, Crash, CrashBeforeSave
    <2> QED
      BY <2>1, <2>2
  <1> QED
    BY <1>1, <1>2 DEF FirstRunInv

LEMMA FirstRunInductive == Spec => []FirstRunInv
  <1>1. Init => FirstRunInv
    BY DEF Init, FirstRunInv
  <1>2. IInv /\ FirstRunInv /\ [Next]_vars => FirstRunInv'
    BY FirstRunStep
  <1> QED
    BY <1>1, <1>2, Inductive, PTL DEF Spec

LEMMA SaveRows ==
  ASSUME TypeOK, RowInv, NEW m \in Markets, NEW amount \in Amount, Save(m, amount)
  PROVE  /\ RowInv'
         /\ NeverClosed' \subseteq NeverClosed \cup {m}
         /\ opened[m] => NeverClosed' \subseteq NeverClosed
  <1>1. /\ pos' = [pos EXCEPT ![m] = amount] /\ opened' = [opened EXCEPT ![m] = TRUE]
        /\ closed' = [closed EXCEPT ![m] = closed[m] \/ amount = 0]
    BY DEF Save
  <1>2. \A n \in Markets \ {m} :
          pos'[n] = pos[n] /\ opened'[n] = opened[n] /\ closed'[n] = closed[n]
    BY <1>1 DEF TypeOK
  <1>3. pos'[m] = amount /\ opened'[m] /\ (closed'[m] <=> closed[m] \/ amount = 0)
    BY <1>1 DEF TypeOK
  <1>4. ASSUME m \in NeverClosed'
        PROVE  amount > 0 /\ (opened[m] => m \in NeverClosed)
    <2>1. ~(closed[m] \/ amount = 0)
      BY <1>3, <1>4 DEF NeverClosed
    <2>2. amount > 0
      BY <2>1, AmountAssumption
    <2> QED
      BY <2>1, <2>2 DEF NeverClosed
  <1>5. \A n \in Markets \ {m} : n \in NeverClosed' => n \in NeverClosed
    BY <1>2 DEF NeverClosed
  <1>6. RowInv'
    BY <1>2, <1>3, <1>4, <1>5 DEF RowInv, NeverClosed
  <1> QED
    BY <1>4, <1>5, <1>6 DEF NeverClosed

\* A step adds no position and admits nobody, or admits one delivery that saw
\* room, or turns one admitted delivery into one position.
LEMMA ExposureCases ==
  ASSUME IInv, RowInv, FirstRunInv, ExposureInv, [Next]_vars, crashes' = 0
  PROVE  \/ NeverClosed' \subseteq NeverClosed /\ Admitted' \subseteq Admitted
         \/ NeverClosed' = NeverClosed /\ Cardinality(NeverClosed) < MaxOpen
         \/ \E d \in Admitted, m \in Markets :
              NeverClosed' \subseteq NeverClosed \cup {m} /\ Admitted' \subseteq Admitted \ {d}
  <1> DEFINE Quiet == NeverClosed' \subseteq NeverClosed /\ Admitted' \subseteq Admitted
             Admits == NeverClosed' = NeverClosed /\ Cardinality(NeverClosed) < MaxOpen
             Opens == \E d \in Admitted, m \in Markets :
                        /\ NeverClosed' \subseteq NeverClosed \cup {m}
                        /\ Admitted' \subseteq Admitted \ {d}
  <1>t. TypeOK /\ TaskInv /\ SellerInv /\ ExitInv
    BY DEF IInv
  <1>0. crashes = 0 /\ ~ProcessDies
    BY FirstRunStays
  <1>b. ASSUME UNCHANGED <<opened, closed, task>>
        PROVE  Quiet
    BY <1>b DEF NeverClosed, Admitted
  <1>1. ASSUME NEW d \in Deliveries, NEW m \in Markets, Deliver(d, m)
        PROVE  Quiet \/ Admits
    <2>1. NeverClosed' = NeverClosed
      BY <1>1 DEF Deliver, NeverClosed
    <2>2. CASE Cardinality(Open) < MaxOpen
      <3>1. NeverClosed \subseteq Open /\ Open \subseteq Markets
        BY DEF RowInv, NeverClosed, Open
      <3>2. IsFiniteSet(Open)
        BY <3>1, MarketAssumption, FS_Subset
      <3>3. /\ Cardinality(NeverClosed) \in Nat /\ Cardinality(Open) \in Nat
            /\ Cardinality(NeverClosed) <= Cardinality(Open)
        BY <3>1, <3>2, FS_Subset, FS_CardinalityType
      <3> QED
        BY <2>1, <2>2, <3>3, AmountAssumption
    <2>3. CASE ~(Cardinality(Open) < MaxOpen)
      <3>1. task'[d].seen = Cardinality(Open)
            /\ \A e \in Deliveries \ {d} : task'[e] = task[e]
        BY <1>1, <1>t DEF Deliver, TypeOK
      <3> QED
        BY <2>1, <2>3, <3>1 DEF Admitted
    <2> QED
      BY <2>2, <2>3
  <1>2. ASSUME NEW d \in Deliveries, SubmitBuy(d)
        PROVE  Quiet
    <2>1. /\ task[d].pc # "idle" /\ task'[d].seen = task[d].seen
          /\ \A e \in Deliveries \ {d} : task'[e] = task[e]
      BY <1>2, <1>t DEF SubmitBuy, TypeOK
    <2> QED
      BY <2>1, <1>2 DEF SubmitBuy, NeverClosed, Admitted
  <1>3. ASSUME NEW d \in Deliveries, BuyDenied(d) \/ BuyNotAccepted(d)
        PROVE  Quiet
    <2>1. task'[d].pc = "idle" /\ \A e \in Deliveries \ {d} : task'[e] = task[e]
      BY <1>3, <1>t DEF BuyDenied, BuyNotAccepted, LaunchEnds, TypeOK
    <2> QED
      BY <2>1, <1>3 DEF BuyDenied, BuyNotAccepted, NeverClosed, Admitted
  <1>4. ASSUME NEW d \in Deliveries, BuyAccepted(d)
        PROVE  Opens
    <2>1. task[d].market \in Markets /\ d \in Admitted
      BY <1>4, <1>0, <1>t DEF BuyAccepted, TaskInv, TaskFact, ExposureInv
    <2>2. task'[d].pc = "idle" /\ \A e \in Deliveries \ {d} : task'[e] = task[e]
      BY <1>4, <1>t DEF BuyAccepted, LaunchEnds, TypeOK
    <2>3. Admitted' \subseteq Admitted \ {d}
      BY <2>2 DEF Admitted
    <2>4. NeverClosed' \subseteq NeverClosed \cup {task[d].market}
      BY <1>4, <1>t, <2>1, SaveRows, AmountAssumption DEF BuyAccepted
    <2> QED
      BY <2>1, <2>3, <2>4
  <1>5. CASE SellStep
    <2>1. ASSUME NEW x \in Sellers, SellAccepted(x)
          PROVE  Quiet
      <3>1. /\ seller[x].market \in Markets /\ opened[seller[x].market]
            /\ seller[x].left \in Amount /\ Save(seller[x].market, seller[x].left)
        BY <2>1, <1>t DEF SellAccepted, SellerInv, SellerFact, TypeOK
      <3> QED
        BY <3>1, <2>1, <1>t, SaveRows DEF SellAccepted, Admitted
    <2>2. ASSUME NEW x \in Sellers,
                 \/ \E m \in Markets : ManualExit(x, m)
                 \/ SubmitSell(x) \/ SellDenied(x) \/ SellLands(x) \/ SellNotAccepted(x)
          PROVE  Quiet
      BY <2>2, <1>b DEF ManualExit, SubmitSell, SellDenied, SellLands, SellNotAccepted
    <2> QED
      BY <1>5, <2>1, <2>2 DEF SellStep
  <1>6. CASE WorkerStep
    <2>1. ASSUME NEW m \in Markets, HoldPosition(m)
          PROVE  Quiet
      <3>1. opened[m] /\ exit.read[m] \in Amount /\ Save(m, exit.read[m])
        BY <2>1, <1>t DEF HoldPosition, Visit, ExitInv, TypeOK
      <3> QED
        BY <3>1, <2>1, <1>t, SaveRows DEF HoldPosition, Admitted
    <2>2. ASSUME \/ ReadPositions \/ SlotFails \/ CycleEnds
                 \/ \E m \in Markets : SkipPosition(m) \/ SellPosition(m)
          PROVE  Quiet
      BY <2>2, <1>b DEF ReadPositions, SlotFails, CycleEnds, SkipPosition, SellPosition
    <2> QED
      BY <1>6, <2>1, <2>2 DEF WorkerStep
  <1>7. CASE StartStep
    <2>1. ASSUME NEW m \in Markets
          PROVE  ~Restore(m)
      BY <1>0 DEF Restore, FirstRunInv
    <2>2. ASSUME \/ Start \/ StartFails \/ Started
                 \/ \E m \in Markets : Recover(m)
          PROVE  Quiet
      BY <2>2, <1>b DEF Start, StartFails, Started, Recover
    <2> QED
      BY <1>7, <2>1, <2>2 DEF StartStep
  <1>8. CASE ChainStep \/ ToggleKillSwitch \/ UNCHANGED vars
    BY <1>8, <1>b DEF ChainStep, BuyLands, LateSellLands, ToggleKillSwitch, vars
  <1>9. CASE LaunchStep
    BY <1>9, <1>1, <1>2, <1>3, <1>4 DEF LaunchStep
  <1> QED
    BY <1>0, <1>5, <1>6, <1>7, <1>8, <1>9 DEF Next, Crash, CrashBeforeSave

LEMMA RowStep ==
  ASSUME IInv, RowInv, [Next]_vars
  PROVE  RowInv'
  <1>t. TypeOK /\ TaskInv /\ SellerInv /\ ExitInv
    BY DEF IInv
  <1>1. ASSUME UNCHANGED <<pos, opened, closed>>
        PROVE  RowInv'
    BY <1>1 DEF RowInv, NeverClosed
  <1>2. ASSUME NEW m \in Markets, NEW amount \in Amount, Save(m, amount)
        PROVE  RowInv'
    BY <1>2, <1>t, SaveRows
  <1>3. ASSUME NEW d \in Deliveries, BuyAccepted(d)
        PROVE  RowInv'
    BY <1>3, <1>2, <1>t, AmountAssumption DEF BuyAccepted, TaskInv, TaskFact
  <1>4. ASSUME NEW x \in Sellers, SellAccepted(x)
        PROVE  RowInv'
    BY <1>4, <1>2, <1>t DEF SellAccepted, SellerInv, SellerFact, TypeOK
  <1>5. ASSUME NEW m \in Markets, HoldPosition(m)
        PROVE  RowInv'
    BY <1>5, <1>2, <1>t DEF HoldPosition, TypeOK
  <1>6. ASSUME NEW m \in Markets, Restore(m)
        PROVE  RowInv'
    BY <1>6, <1>1, <1>2, AmountAssumption DEF Restore
  <1>7. CASE LaunchStep \/ SellStep
    BY <1>7, <1>1, <1>3, <1>4
    DEF LaunchStep, Deliver, SubmitBuy, BuyDenied, BuyNotAccepted, SellStep, ManualExit,
        SubmitSell, SellDenied, SellLands, SellNotAccepted
  <1>8. CASE WorkerStep \/ StartStep
    BY <1>8, <1>1, <1>5, <1>6
    DEF WorkerStep, ReadPositions, SlotFails, CycleEnds, SkipPosition, SellPosition,
        StartStep, Start, StartFails, Started, Recover
  <1>9. CASE \/ ChainStep \/ ToggleKillSwitch \/ Crash \/ UNCHANGED vars
             \/ \E d \in Deliveries : CrashBeforeSave(d)
    BY <1>9, <1>1
    DEF ChainStep, BuyLands, LateSellLands, ToggleKillSwitch, Crash, CrashBeforeSave, vars
  <1> QED
    BY <1>7, <1>8, <1>9 DEF Next

\* Counting the three cases: a position that opens takes the place of a delivery
\* that was admitted, and an admission finds room for all deliveries there are.
LEMMA ExposureCount ==
  ASSUME IInv, RowInv, FirstRunInv, ExposureInv, [Next]_vars, crashes = 0, crashes' = 0,
         IsFiniteSet(Deliveries), NeverClosed' # {} \/ Admitted' # {}
  PROVE  Cardinality(NeverClosed') + Cardinality(Admitted')
           < MaxOpen + Cardinality(Deliveries)
  <1>f. /\ IsFiniteSet(NeverClosed) /\ IsFiniteSet(NeverClosed')
        /\ IsFiniteSet(Admitted) /\ IsFiniteSet(Admitted')
        /\ Cardinality(Admitted') <= Cardinality(Deliveries)
    <2>1. /\ NeverClosed \subseteq Markets /\ NeverClosed' \subseteq Markets
          /\ Admitted \subseteq Deliveries /\ Admitted' \subseteq Deliveries
      BY DEF NeverClosed, Admitted
    <2> QED
      BY <2>1, MarketAssumption, FS_Subset
  <1>c. /\ Cardinality(NeverClosed) \in Nat /\ Cardinality(NeverClosed') \in Nat
        /\ Cardinality(Admitted) \in Nat /\ Cardinality(Admitted') \in Nat
        /\ Cardinality(Deliveries) \in Nat /\ MaxOpen \in Nat
    BY <1>f, FS_CardinalityType, AmountAssumption
  <1>1. CASE NeverClosed' \subseteq NeverClosed /\ Admitted' \subseteq Admitted
    <2>1. /\ Cardinality(NeverClosed') <= Cardinality(NeverClosed)
          /\ Cardinality(Admitted') <= Cardinality(Admitted)
      BY <1>1, <1>f, FS_Subset
    <2>2. NeverClosed # {} \/ Admitted # {}
      BY <1>1
    <2> QED
      BY <2>1, <2>2, <1>c DEF ExposureInv
  <1>2. CASE NeverClosed' = NeverClosed /\ Cardinality(NeverClosed) < MaxOpen
    <2>1. Cardinality(NeverClosed') < MaxOpen
      BY <1>2
    <2> QED
      BY <2>1, <1>f, <1>c
  <1>3. ASSUME NEW d \in Admitted, NEW m \in Markets,
               NeverClosed' \subseteq NeverClosed \cup {m},
               Admitted' \subseteq Admitted \ {d}
        PROVE  Cardinality(NeverClosed') + Cardinality(Admitted')
                 < MaxOpen + Cardinality(Deliveries)
    <2>a. /\ IsFiniteSet(NeverClosed \cup {m})
          /\ \/ Cardinality(NeverClosed \cup {m}) = Cardinality(NeverClosed)
             \/ Cardinality(NeverClosed \cup {m}) = Cardinality(NeverClosed) + 1
      BY <1>f, FS_AddElement
    <2>1. /\ IsFiniteSet(NeverClosed \cup {m})
          /\ Cardinality(NeverClosed \cup {m}) <= Cardinality(NeverClosed) + 1
      BY <2>a, <1>c
    <2>2. /\ IsFiniteSet(Admitted \ {d})
          /\ Cardinality(Admitted \ {d}) = Cardinality(Admitted) - 1
      BY <1>f, FS_RemoveElement
    <2>3. /\ Cardinality(NeverClosed') <= Cardinality(NeverClosed \cup {m})
          /\ Cardinality(NeverClosed \cup {m}) \in Nat
      BY <1>3, <2>1, FS_Subset, FS_CardinalityType
    <2>4. Cardinality(Admitted') <= Cardinality(Admitted) - 1
      BY <1>3, <2>2, FS_Subset
    <2>5. Cardinality(NeverClosed) + Cardinality(Admitted)
            < MaxOpen + Cardinality(Deliveries)
      BY DEF ExposureInv
    <2> QED
      BY <2>1, <2>3, <2>4, <2>5, <1>c
  <1> QED
    BY <1>1, <1>2, <1>3, ExposureCases

LEMMA ExposureStep ==
  ASSUME IInv, RowInv, FirstRunInv, ExposureInv, [Next]_vars,
         IsFiniteSet(Deliveries)
  PROVE  ExposureInv'
  <1> SUFFICES ASSUME crashes' = 0
               PROVE  ExposureInv'
    BY DEF ExposureInv
  <1>t. TypeOK /\ TaskInv
    BY DEF IInv
  <1>0. crashes = 0 /\ ~ProcessDies
    BY FirstRunStays
  <1>i. \A d \in Deliveries : task[d].pc = "submitted" => d \in Admitted
    BY <1>0 DEF ExposureInv
  <1>1. NeverClosed' # {} \/ Admitted' # {} =>
          Cardinality(NeverClosed') + Cardinality(Admitted')
            < MaxOpen + Cardinality(Deliveries)
    BY <1>0, ExposureCount
  <1>2. ASSUME NEW d \in Deliveries, task'[d].pc = "submitted"
        PROVE  d \in Admitted'
    <2>1. \/ task'[d] = task[d]
          \/ task'[d].seen = task[d].seen /\ task[d].seen < MaxOpen
      <3>1. ASSUME NEW e \in Deliveries, NEW m \in Markets, Deliver(e, m)
            PROVE  task'[d] = task[d]
        BY <3>1, <1>2, <1>t DEF Deliver, TypeOK
      <3>2. ASSUME NEW e \in Deliveries, SubmitBuy(e)
            PROVE  \/ task'[d] = task[d]
                   \/ task'[d].seen = task[d].seen /\ task[d].seen < MaxOpen
        BY <3>2, <1>t DEF SubmitBuy, TypeOK
      <3>3. ASSUME NEW e \in Deliveries, LaunchEnds(e)
            PROVE  task'[d] = task[d]
        BY <3>3, <1>2, <1>t DEF LaunchEnds, TypeOK
      <3>4. CASE LaunchStep
        BY <3>4, <3>1, <3>2, <3>3 DEF LaunchStep, BuyDenied, BuyAccepted, BuyNotAccepted
      <3>5. CASE SellStep \/ WorkerStep \/ StartStep \/ ChainStep \/ ToggleKillSwitch
                 \/ UNCHANGED vars
        BY <3>5
        DEF SellStep, ManualExit, SubmitSell, SellDenied, SellLands, SellAccepted,
            SellNotAccepted, WorkerStep, ReadPositions, SlotFails, CycleEnds, SkipPosition,
            HoldPosition, SellPosition, StartStep, Start, StartFails, Started, Recover,
            Restore, ChainStep, BuyLands, LateSellLands, ToggleKillSwitch, vars
      <3> QED
        BY <1>0, <3>4, <3>5 DEF Next, Crash, CrashBeforeSave
    <2>2. task'[d].seen < MaxOpen
      BY <2>1, <1>2, <1>i DEF Admitted
    <2> QED
      BY <1>2, <2>2 DEF Admitted
  <1> QED
    BY <1>1, <1>2 DEF ExposureInv

\* However launches, sells, holds and the chain interleave, max_open_positions
\* is exceeded by no more than the launches that were on their way at once
\* (risk_gatekeeper.py evaluate).
THEOREM ExposureBoundedCorrect ==
  ASSUME IsFiniteSet(Deliveries)
  PROVE  Spec => []ExposureBounded
  <1>1. Init => RowInv /\ ExposureInv
    <2> SUFFICES ASSUME Init
                 PROVE  RowInv /\ ExposureInv
      OBVIOUS
    <2>1. NeverClosed = {} /\ Admitted = {}
      BY DEF Init, NeverClosed, Admitted
    <2> QED
      BY <2>1 DEF Init, RowInv, ExposureInv
  <1>2. IInv /\ RowInv /\ FirstRunInv /\ ExposureInv /\ [Next]_vars =>
          RowInv' /\ ExposureInv'
    BY RowStep, ExposureStep
  <1>3. RowInv /\ ExposureInv => ExposureBounded
    <2> SUFFICES ASSUME ExposureInv, crashes = 0, NeverClosed # {}
                 PROVE  Cardinality(NeverClosed) < MaxOpen + Cardinality(Deliveries)
      BY DEF ExposureBounded
    <2>1. NeverClosed \subseteq Markets /\ Admitted \subseteq Deliveries
      BY DEF NeverClosed, Admitted
    <2>2. IsFiniteSet(NeverClosed) /\ IsFiniteSet(Admitted)
      BY <2>1, MarketAssumption, FS_Subset
    <2>3. Cardinality(NeverClosed) \in Nat /\ Cardinality(Admitted) \in Nat
          /\ Cardinality(Deliveries) \in Nat
      BY <2>2, FS_CardinalityType
    <2> QED
      BY <2>3, AmountAssumption DEF ExposureInv
  <1> QED
    BY <1>1, <1>2, <1>3, Inductive, FirstRunInductive, PTL DEF Spec

\* Without a restart every reconciled BUY whose tokens the wallet still holds has
\* its position (sniper_daemon.py _handle_locked_launch).
THEOREM NothingLostWithoutCrashCorrect == Spec => []NothingLostWithoutCrash
  <1>1. IInv /\ FirstRunInv => NothingLostWithoutCrash
    <2> SUFFICES ASSUME IInv, FirstRunInv, crashes = 0,
                        NEW m \in Markets, buy[m] = "reconciled", held[m] > 0
                 PROVE  pos[m] > 0
      BY DEF NothingLostWithoutCrash
    <2>1. opened[m] /\ held[m] <= pos[m]
      BY DEF FirstRunInv, IInv, MarketInv, MarketFact
    <2>2. held[m] \in Nat /\ pos[m] \in Nat
      BY AmountAssumption DEF IInv, TypeOK
    <2> QED
      BY <2>1, <2>2
  <1> QED
    BY <1>1, Inductive, FirstRunInductive, PTL

(***************************************************************************)
(* The exit worker's cycle.                                                 *)
(***************************************************************************)

\* What is left to do of a sell, and of a cycle with a sell in it.
SellWork(pc) == CASE pc = "risk" -> 3 [] pc = "submitted" -> 2 [] pc = "landed" -> 1
                  [] OTHER -> 0

CycleWork ==
  IF exit.pc = "cycle" THEN 4 * Cardinality(exit.todo) + SellWork(seller[Worker].pc) + 1
  ELSE 0

\* Every step of the worker and of its SELL brings the cycle nearer to its end,
\* and no launch, manual sell, answer of the port or execution takes it back: a
\* cycle over n positions ends after at most 4n + 1 steps of its own
\* (position_exit_worker.py run_once).
CycleMovesOn ==
  [][exit.pc = "cycle" =>
       /\ CycleWork' <= CycleWork
       /\ WorkerStep \/ WorkerSell => CycleWork' < CycleWork]_vars

LEMMA CycleFinite ==
  ASSUME TypeOK
  PROVE  /\ IsFiniteSet(exit.todo)
         /\ \A S \in SUBSET exit.todo : Cardinality(S) \in Nat
         /\ \A pc : SellWork(pc) \in 0..3
  <1>1. IsFiniteSet(exit.todo)
    BY MarketAssumption, FS_Subset DEF TypeOK
  <1>2. \A S \in SUBSET exit.todo : IsFiniteSet(S) /\ Cardinality(S) \in Nat
    BY <1>1, FS_Subset, FS_CardinalityType
  <1>3. \A pc : SellWork(pc) \in 0..3
    BY DEF SellWork
  <1> QED
    BY <1>1, <1>2, <1>3

LEMMA VisitWorks ==
  ASSUME TypeOK, NEW m \in Markets, Visit(m),
         seller'[Worker].pc \in {"idle", "risk"}
  PROVE  CycleWork' < CycleWork
  <1>1. /\ exit.pc = "cycle" /\ exit'.pc = "cycle" /\ seller[Worker].pc = "idle"
        /\ m \in exit.todo /\ exit'.todo = exit.todo \ {m}
    BY DEF Visit, TypeOK
  <1>2. Cardinality(exit.todo \ {m}) = Cardinality(exit.todo) - 1
    BY <1>1, CycleFinite, FS_RemoveElement
  <1>3. SellWork(seller[Worker].pc) = 0 /\ SellWork(seller'[Worker].pc) \in 0..3
    BY <1>1 DEF SellWork
  <1>4. Cardinality(exit.todo) \in Nat
    BY CycleFinite
  <1>5. CycleWork = 4 * Cardinality(exit.todo) + 0 + 1
    BY <1>1, <1>3 DEF CycleWork
  <1>6. CycleWork' = 4 * (Cardinality(exit.todo) - 1) + SellWork(seller'[Worker].pc) + 1
    BY <1>1, <1>2 DEF CycleWork
  <1> QED
    BY <1>3, <1>4, <1>5, <1>6

\* A step that leaves the cycle alone, and the worker's SELL no further back.
LEMMA SellWorks ==
  ASSUME TypeOK, exit' = exit, exit.pc = "cycle"
  PROVE  /\ SellWork(seller'[Worker].pc) <= SellWork(seller[Worker].pc) =>
              CycleWork' <= CycleWork
         /\ SellWork(seller'[Worker].pc) < SellWork(seller[Worker].pc) =>
              CycleWork' < CycleWork
  <1>1. /\ Cardinality(exit.todo) \in Nat
        /\ SellWork(seller[Worker].pc) \in 0..3 /\ SellWork(seller'[Worker].pc) \in 0..3
    BY CycleFinite
  <1>2. /\ CycleWork = 4 * Cardinality(exit.todo) + SellWork(seller[Worker].pc) + 1
        /\ CycleWork' = 4 * Cardinality(exit.todo) + SellWork(seller'[Worker].pc) + 1
    BY DEF CycleWork
  <1> QED
    BY <1>1, <1>2

LEMMA CycleStep ==
  ASSUME TypeOK, [Next]_vars, exit.pc = "cycle"
  PROVE  /\ CycleWork' <= CycleWork
         /\ WorkerStep \/ WorkerSell => CycleWork' < CycleWork
  <1>n. CycleWork \in Nat /\ (exit' = exit \/ exit'.pc # "cycle" => CycleWork' \in Nat)
    <2>1. Cardinality(exit.todo) \in Nat /\ \A pc : SellWork(pc) \in 0..3
      BY CycleFinite
    <2> QED
      BY <2>1 DEF CycleWork
  <1>w. Worker \in Sellers /\ Worker \notin Manuals
    BY WorkerAssumption
  <1>s. ASSUME NEW x \in Sellers,
               SubmitSell(x) \/ SellDenied(x) \/ SellLands(x) \/ SellAccepted(x)
                 \/ SellNotAccepted(x)
        PROVE  /\ exit' = exit
               /\ x # Worker => seller'[Worker] = seller[Worker]
               /\ x = Worker =>
                    SellWork(seller'[Worker].pc) < SellWork(seller[Worker].pc)
    <2>1. ASSUME SubmitSell(x)
          PROVE  seller[x].pc = "risk" /\ seller'[x].pc = "submitted" /\ exit' = exit
                 /\ \A y \in Sellers \ {x} : seller'[y] = seller[y]
      BY <2>1 DEF SubmitSell, TypeOK
    <2>2. ASSUME SellLands(x)
          PROVE  seller[x].pc = "submitted" /\ seller'[x].pc = "landed" /\ exit' = exit
                 /\ \A y \in Sellers \ {x} : seller'[y] = seller[y]
      BY <2>2 DEF SellLands, TypeOK
    <2>3. ASSUME SellDenied(x) \/ SellAccepted(x) \/ SellNotAccepted(x)
          PROVE  seller[x].pc \in {"risk", "submitted", "landed"} /\ seller'[x].pc = "idle"
                 /\ exit' = exit /\ \A y \in Sellers \ {x} : seller'[y] = seller[y]
      BY <2>3 DEF SellDenied, SellAccepted, SellNotAccepted, SellEnds, TypeOK
    <2> QED
      BY <1>s, <1>w, <2>1, <2>2, <2>3 DEF SellWork
  <1>1. ASSUME NEW x \in Manuals, NEW m \in Markets, ManualExit(x, m)
        PROVE  exit' = exit /\ seller'[Worker] = seller[Worker]
    <2>1. PICK amount \in {pos[m], IF pos[m] = 1 THEN 1 ELSE pos[m] \div 2} :
            SellIntent(x, m, amount, pos[m] - amount)
      BY <1>1 DEF ManualExit
    <2> QED
      BY <1>1, <1>w, <2>1 DEF ManualExit, SellIntent, TypeOK
  <1>2. CASE SellStep
    <2>1. \/ exit' = exit /\ seller'[Worker] = seller[Worker]
          \/ exit' = exit /\ SellWork(seller'[Worker].pc) < SellWork(seller[Worker].pc)
      BY <1>2, <1>1, <1>s DEF SellStep, ManualExit
    <2>2. ~WorkerStep
      <3>1. exit' = exit
        BY <2>1
      <3> QED
        BY <3>1 DEF WorkerStep, ReadPositions, SlotFails, CycleEnds, SkipPosition,
                    HoldPosition, SellPosition, Visit, TypeOK
    <2>3. WorkerSell => SellWork(seller'[Worker].pc) < SellWork(seller[Worker].pc)
      BY <1>s, <1>w DEF WorkerSell
    <2>4. SellWork(seller[Worker].pc) \in 0..3 /\ SellWork(seller'[Worker].pc) \in 0..3
      BY CycleFinite
    <2> QED
      BY <2>1, <2>2, <2>3, <2>4, <1>n, SellWorks
  <1>3. CASE WorkerStep
    <2>1. CASE CycleEnds
      BY <2>1, <1>n, CycleFinite DEF CycleEnds, CycleWork
    <2>2. ASSUME NEW m \in Markets, SkipPosition(m) \/ HoldPosition(m)
          PROVE  CycleWork' < CycleWork
      BY <2>2, VisitWorks DEF SkipPosition, HoldPosition, Visit
    <2>3. ASSUME NEW m \in Markets, SellPosition(m)
          PROVE  CycleWork' < CycleWork
      <3>1. PICK amount \in 1..exit.read[m] :
              SellIntent(Worker, m, amount, exit.read[m] - amount)
        BY <2>3 DEF SellPosition
      <3>2. seller'[Worker].pc = "risk"
        BY <3>1, <1>w DEF SellIntent, TypeOK
      <3> QED
        BY <2>3, <3>2, VisitWorks DEF SellPosition
    <2>4. CycleWork' < CycleWork
      BY <1>3, <2>1, <2>2, <2>3 DEF WorkerStep, ReadPositions, SlotFails
    <2>5. CycleWork' <= CycleWork
      <3>1. CASE exit'.pc # "cycle"
        BY <3>1, <2>4, <1>n
      <3>2. CASE exit'.pc = "cycle"
        <4>1. PICK m \in Markets : Visit(m)
          BY <1>3, <3>2 DEF WorkerStep, CycleEnds, ReadPositions, SlotFails,
                            SkipPosition, HoldPosition, SellPosition
        <4>2. Cardinality(exit'.todo) \in Nat /\ SellWork(seller'[Worker].pc) \in 0..3
          BY <4>1, CycleFinite DEF Visit, TypeOK
        <4>3. CycleWork' \in Nat
          BY <4>2 DEF CycleWork
        <4> QED
          BY <4>3, <2>4, <1>n
      <3> QED
        BY <3>1, <3>2
    <2> QED
      BY <2>4, <2>5
  <1>4. CASE LaunchStep \/ StartStep \/ ChainStep \/ ToggleKillSwitch \/ UNCHANGED vars
    <2>1. exit' = exit /\ seller' = seller
      BY <1>4
      DEF LaunchStep, Deliver, SubmitBuy, BuyDenied, BuyAccepted, BuyNotAccepted,
          StartStep, Start, StartFails, Started, Recover, Restore, ChainStep, BuyLands,
          LateSellLands, ToggleKillSwitch, vars
    <2>2. ~WorkerStep /\ ~WorkerSell
      <3>1. ~WorkerSell
        BY <2>1, <1>s, <1>w, CycleFinite DEF WorkerSell
      <3>2. ~WorkerStep
        BY <2>1 DEF WorkerStep, ReadPositions, SlotFails, CycleEnds, SkipPosition,
                    HoldPosition, SellPosition, Visit, TypeOK
      <3> QED
        BY <3>1, <3>2
    <2> QED
      BY <2>1, <2>2, <1>n, CycleFinite, SellWorks
  <1>5. CASE ProcessDies
    <2>1. exit'.pc = "idle"
      BY <1>5 DEF ProcessDies
    <2>2. CycleWork' = 0 /\ CycleWork > 0
      BY <2>1, CycleFinite DEF CycleWork
    <2> QED
      BY <2>2, <1>n
  <1> QED
    BY <1>2, <1>3, <1>4, <1>5 DEF Next, Crash, CrashBeforeSave

\* A cycle of the exit worker has a bounded number of steps, whatever happens in
\* between: with the fairness of the event loop it ends.
THEOREM CycleMovesOnCorrect == Spec => CycleMovesOn
  <1>1. TypeOK /\ [Next]_vars =>
          [exit.pc = "cycle" =>
             /\ CycleWork' <= CycleWork
             /\ WorkerStep \/ WorkerSell => CycleWork' < CycleWork]_vars
    BY CycleStep
  <1> QED
    BY <1>1, TypeCorrect, PTL DEF Spec, CycleMovesOn

(***************************************************************************)
(* The port that the daemon is written against is the one LiveExecution     *)
(* implements: both keep the promise of AtMostOnceExecution.                *)
(***************************************************************************)

BuyPhases  == [m \in Markets |-> BuyPhase(m)]
BuyEffects == [m \in Markets |-> {n \in {m} : bought[m]}]

\* The market lock: one delivery per market, whose BUY nobody else resolves.
LockInv ==
  \A d \in Deliveries :
    /\ task[d].pc = "submitted" => buy[task[d].market] = "open"
    /\ \A e \in Deliveries \ {d} :
         task[d].pc # "idle" /\ task[e].pc # "idle" => task[d].market # task[e].market

\* Everything else leaves BUYs and deliveries alone.
LEMMA BuyFrame ==
  ASSUME [Next]_vars, ~LaunchStep, ~Crash,
         ~(\E m \in Markets : Recover(m) \/ BuyLands(m)),
         ~(\E d \in Deliveries : CrashBeforeSave(d))
  PROVE  UNCHANGED <<task, buy, bought>>
  <1>1. CASE SellStep
    BY <1>1 DEF SellStep, ManualExit, SubmitSell, SellDenied, SellLands, SellAccepted,
                SellNotAccepted, Save
  <1>2. CASE WorkerStep
    BY <1>2 DEF WorkerStep, ReadPositions, SlotFails, CycleEnds, SkipPosition,
                HoldPosition, SellPosition, Save
  <1>3. CASE StartStep
    BY <1>3 DEF StartStep, Start, StartFails, Started, Restore, Save
  <1>4. CASE ChainStep \/ ToggleKillSwitch \/ UNCHANGED vars
    BY <1>4 DEF ChainStep, LateSellLands, ToggleKillSwitch, vars
  <1> QED
    BY <1>1, <1>2, <1>3, <1>4 DEF Next

LEMMA LockStep ==
  ASSUME IInv, LockInv, [Next]_vars
  PROVE  LockInv'
  <1>t. /\ TypeOK
        /\ \A d \in Deliveries :
             task[d].pc # "idle" => stage = "running" /\ task[d].market \in Markets
    BY DEF IInv, TaskInv, TaskFact
  <1>1. ASSUME NEW d \in Deliveries, NEW m \in Markets, Deliver(d, m)
        PROVE  LockInv'
    <2>1. /\ task'[d].pc = "risk" /\ task'[d].market = m /\ buy' = buy
          /\ \A e \in Deliveries \ {d} :
               task'[e] = task[e] /\ (task[e].pc # "idle" => task[e].market # m)
      BY <1>t, <1>1 DEF Deliver, TypeOK
    <2> QED
      BY <2>1 DEF LockInv
  <1>2. ASSUME NEW d \in Deliveries, SubmitBuy(d)
        PROVE  LockInv'
    <2>1. /\ task[d].pc = "risk" /\ task'[d].market = task[d].market
          /\ task[d].market \in Markets
          /\ \A e \in Deliveries \ {d} : task'[e] = task[e]
          /\ buy' = [buy EXCEPT ![task[d].market] = "open"]
      BY <1>t, <1>2 DEF SubmitBuy, TypeOK
    <2>2. buy'[task[d].market] = "open"
          /\ \A m \in Markets : buy[m] = "open" => buy'[m] = "open"
      BY <2>1, <1>t DEF TypeOK
    <2> QED
      BY <2>1, <2>2, <1>t DEF LockInv
  <1>3. ASSUME NEW d \in Deliveries, BuyDenied(d) \/ BuyAccepted(d) \/ BuyNotAccepted(d)
        PROVE  LockInv'
    <2>1. /\ task[d].pc # "idle" /\ task'[d].pc = "idle"
          /\ \A e \in Deliveries \ {d} : task'[e] = task[e]
          /\ \A m \in Markets \ {task[d].market} : buy'[m] = buy[m]
      BY <1>t, <1>3 DEF BuyDenied, BuyAccepted, BuyNotAccepted, LaunchEnds, TypeOK
    <2>2. ASSUME NEW e \in Deliveries \ {d}, task[e].pc = "submitted"
          PROVE  buy'[task[e].market] = "open"
      BY <2>1, <2>2, <1>t DEF LockInv
    <2> QED
      BY <2>1, <2>2 DEF LockInv
  <1>4. ASSUME NEW m \in Markets, Recover(m)
        PROVE  LockInv'
    BY <1>t, <1>4 DEF Recover, LockInv
  <1>5. CASE Crash \/ \E d \in Deliveries : CrashBeforeSave(d)
    <2>1. \A d \in Deliveries : task'[d].pc = "idle"
      BY <1>5 DEF Crash, CrashBeforeSave, ProcessDies
    <2> QED
      BY <2>1 DEF LockInv
  <1>6. ASSUME NEW m \in Markets, BuyLands(m)
        PROVE  LockInv'
    BY <1>6 DEF BuyLands, LockInv
  <1> QED
    BY <1>1, <1>2, <1>3, <1>4, <1>5, <1>6, BuyFrame DEF LaunchStep, LockInv

\* One BUY moves, and nothing executes.
LEMMA BuyMoves ==
  ASSUME TypeOK, NEW m \in Markets, bought' = bought, NEW to \in BuyState,
         buy' = [buy EXCEPT ![m] = to],
         \/ buy[m] = "new" /\ to = "open"
         \/ buy[m] = "open" /\ bought[m] /\ to = "reconciled"
         \/ buy[m] = "open" /\ to = "void"
  PROVE  BuyPort!Next
  <1>1. buy'[m] = to /\ \A n \in Markets \ {m} : buy'[n] = buy[n]
    BY DEF TypeOK
  <1>2. BuyEffects' = BuyEffects
    BY DEF BuyEffects
  <1>3. BuyPhases' = [BuyPhases EXCEPT ![m] = BuyPhase(m)']
    <2>1. ASSUME NEW n \in Markets \ {m}
          PROVE  BuyPhase(n)' = BuyPhase(n)
      BY <1>1, <2>1 DEF BuyPhase
    <2> QED
      BY <2>1 DEF BuyPhases
  <1>4. BuyPhases[m] = BuyPhase(m) /\ BuyEffects[m] = {n \in {m} : bought[m]}
    BY DEF BuyPhases, BuyEffects
  <1>5. CASE buy[m] = "new" /\ to = "open"
    <2>1. BuyPhase(m) = "new" /\ BuyPhase(m)' = "handedOver"
      BY <1>1, <1>5 DEF BuyPhase
    <2>2. BuyPort!HandOver(m)
      BY <1>2, <1>3, <1>4, <2>1 DEF BuyPort!HandOver, BuyPort!Become, BuyPhases, BuyEffects
    <2> QED
      BY <2>2 DEF BuyPort!Next
  <1>6. CASE buy[m] = "open" /\ bought[m] /\ to = "reconciled"
    <2>1. BuyPhase(m) = "handedOver" /\ BuyPhase(m)' = "done" /\ BuyEffects[m] # {}
      BY <1>1, <1>4, <1>6 DEF BuyPhase
    <2>2. BuyPort!Done(m)
      BY <1>2, <1>3, <1>4, <2>1 DEF BuyPort!Done, BuyPort!Become, BuyPhases, BuyEffects
    <2> QED
      BY <2>2 DEF BuyPort!Next
  <1>7. CASE buy[m] = "open" /\ bought[m] /\ to = "void"
    <2>1. BuyPhase(m) = "handedOver" /\ BuyPhase(m)' = "givenUp"
      BY <1>1, <1>7 DEF BuyPhase
    <2>2. BuyPort!GiveUp(m)
      BY <1>2, <1>3, <1>4, <2>1 DEF BuyPort!GiveUp, BuyPort!Become, BuyPhases, BuyEffects
    <2> QED
      BY <2>2 DEF BuyPort!Next
  <1>8. CASE buy[m] = "open" /\ ~bought[m] /\ to = "void"
    <2>1. BuyPhase(m) = "handedOver" /\ BuyPhase(m)' = "void" /\ BuyEffects[m] = {}
      BY <1>1, <1>4, <1>8 DEF BuyPhase
    <2>2. BuyPort!Void(m)
      BY <1>2, <1>3, <1>4, <2>1 DEF BuyPort!Void, BuyPort!Become, BuyPhases, BuyEffects
    <2> QED
      BY <2>2 DEF BuyPort!Next
  <1> QED
    BY <1>5, <1>6, <1>7, <1>8

\* A BUY executes.
LEMMA BuyExecutes ==
  ASSUME TypeOK, NEW m \in Markets, BuyLands(m)
  PROVE  BuyPort!Next
  <1>1. /\ buy[m] = "open" /\ buy' = buy /\ ~bought[m] /\ bought'[m]
        /\ \A n \in Markets \ {m} : bought'[n] = bought[n]
    BY DEF BuyLands, TypeOK
  <1>2. BuyPhases' = BuyPhases /\ BuyPhases[m] = "handedOver"
    BY <1>1 DEF BuyPhases, BuyPhase
  <1>3. BuyEffects[m] = {} /\ BuyEffects' = [BuyEffects EXCEPT ![m] = {m}]
    BY <1>1 DEF BuyEffects
  <1>4. BuyPort!TakeEffect(m)
    BY <1>2, <1>3 DEF BuyPort!TakeEffect, BuyPhases, BuyEffects
  <1> QED
    BY <1>4 DEF BuyPort!Next

LEMMA BuyStep ==
  ASSUME IInv, LockInv, [Next]_vars
  PROVE  BuyPort!Next \/ UNCHANGED <<BuyPhases, BuyEffects>>
  <1>t. /\ TypeOK /\ RecoverInv
        /\ \A d \in Deliveries : task[d].pc # "idle" => task[d].market \in Markets
        /\ \A d \in Deliveries : task[d].pc = "submitted" => buy[task[d].market] = "open"
    BY DEF IInv, TaskInv, TaskFact, LockInv
  <1>u. UNCHANGED <<buy, bought>> => UNCHANGED <<BuyPhases, BuyEffects>>
    BY DEF BuyPhases, BuyPhase, BuyEffects
  <1>1. ASSUME NEW d \in Deliveries, SubmitBuy(d)
        PROVE  BuyPort!Next
    <2>1. /\ task[d].market \in Markets /\ buy[task[d].market] = "new" /\ bought' = bought
          /\ buy' = [buy EXCEPT ![task[d].market] = "open"]
      BY <1>1, <1>t DEF SubmitBuy
    <2> QED
      BY <1>t, <2>1, BuyMoves
  <1>2. ASSUME NEW d \in Deliveries, BuyAccepted(d) \/ CrashBeforeSave(d)
        PROVE  BuyPort!Next
    <2>1. /\ task[d].market \in Markets /\ buy[task[d].market] = "open" /\ bought' = bought
          /\ bought[task[d].market]
          /\ buy' = [buy EXCEPT ![task[d].market] = "reconciled"]
      BY <1>2, <1>t DEF BuyAccepted, CrashBeforeSave
    <2> QED
      BY <1>t, <2>1, BuyMoves
  <1>3. ASSUME NEW d \in Deliveries, BuyNotAccepted(d)
        PROVE  BuyPort!Next \/ UNCHANGED <<BuyPhases, BuyEffects>>
    <2>1. /\ task[d].market \in Markets /\ buy[task[d].market] = "open" /\ bought' = bought
          /\ \/ buy' = [buy EXCEPT ![task[d].market] = "void"]
             \/ buy' = buy
      BY <1>3, <1>t DEF BuyNotAccepted
    <2> QED
      BY <1>t, <1>u, <2>1, BuyMoves
  <1>4. ASSUME NEW m \in Markets, Recover(m)
        PROVE  BuyPort!Next \/ UNCHANGED <<BuyPhases, BuyEffects>>
    <2>1. /\ buy[m] = "open" /\ bought' = bought
          /\ \/ bought[m] /\ buy' = [buy EXCEPT ![m] = "reconciled"]
             \/ buy' = [buy EXCEPT ![m] = "void"]
             \/ buy' = buy
      BY <1>4, <1>t DEF Recover, RecoverInv
    <2> QED
      BY <1>t, <1>u, <2>1, BuyMoves
  <1>5. ASSUME NEW m \in Markets, BuyLands(m)
        PROVE  BuyPort!Next
    BY <1>t, <1>5, BuyExecutes
  <1>6. ASSUME \/ Crash
               \/ \E d \in Deliveries : BuyDenied(d) \/ \E m \in Markets : Deliver(d, m)
        PROVE  UNCHANGED <<buy, bought>>
    BY <1>6 DEF Crash, BuyDenied, Deliver
  <1> QED
    BY <1>u, <1>1, <1>2, <1>3, <1>4, <1>5, <1>6, BuyFrame DEF LaunchStep

\* For any markets, deliveries and crashes the BUYs of the daemon are decisions
\* of AtMostOnceExecution, which LiveExecution implements as well.
THEOREM BuysKeepPromiseCorrect == Spec => BuysKeepPromise
  <1>1. Init => BuyPort!Init
    BY DEF Init, BuyPort!Init, BuyPhase
  <1>2. Init => LockInv
    BY DEF Init, LockInv
  <1>3. IInv /\ LockInv /\ [Next]_vars => [BuyPort!Next]_<<BuyPhases, BuyEffects>>
    BY BuyStep
  <1>4. IInv /\ LockInv /\ [Next]_vars => LockInv'
    BY LockStep
  <1> QED
    BY <1>1, <1>2, <1>3, <1>4, Inductive, PTL
    DEF Spec, BuysKeepPromise, BuyPort!Spec, BuyPhases, BuyEffects
=============================================================================
