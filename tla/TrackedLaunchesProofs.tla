--------------------- MODULE TrackedLaunchesProofs ---------------------
(***************************************************************************)
(* TrackedLaunches for any wallets, callers of refresh(), bounds of a read,*)
(* tasks and faults.                                                       *)
(***************************************************************************)
EXTENDS TrackedLaunches, FiniteSetTheorems, WellFoundedInduction, TLAPS

(* A task that is not alive holds nothing.                                 *)
RestInv == \A p \in Tasks \ running : cursor[p] = NoCursor /\ staged[p] = {}

(* Tasks read what is finalized, and a batch leaves out no create between  *)
(* the cursor and its end.                                                 *)
FinalInv == \A w \in Wallets : final[w] <= Len(history[w])
Reaches(p, i) == \E j \in staged[p] : i <= j
ReadInv ==
    \A p \in Tasks :
        /\ cursor[p] <= final[Of(p)]
        /\ \A i \in staged[p] : i <= final[Of(p)]
        /\ \A i \in Places :
              /\ IsCreate(<<Of(p), i>>)
              /\ firstRead[p] <= i /\ cursor[p] < i
              /\ Reaches(p, i)
              => i \in staged[p]

(* What handle_launch publishes, and what the PumpPortal task publishes on *)
(* its own: a create it has announced is not in the feed any more, and one *)
(* still to come has a place above the history there is.                   *)
DurableAlerts == \A m \in Creates : alerts[m] <= 1 /\ (alerts[m] = 1 => m \in launches)
EarlyInv ==
    \A m \in Creates :
        /\ early[m] <= 1
        /\ m \in feed => early[m] = 0
        /\ m \in feed \/ early[m] = 1 => m[2] <= Len(history[m[1]])

SocketStep ==
    \/ \E m \in Creates :
          (\E broadcast \in BOOLEAN : ReceiveGlobal(m, broadcast)) \/ ReceiveNative(m)
    \/ NoRefreshNeeded \/ ReceiveOther \/ DeliverGlobal \/ DeliverNative \/ GiveUpGlobal \/ LoseFeed
ChainStep ==
    \E w \in Wallets :
        \/ \E kind \in Kinds, announced \in BOOLEAN : Process(w, kind, announced)
        \/ Finalize(w) \/ Track(w) \/ Untrack(w)
PollStep == \E p \in Tasks : ReadHistory(p) \/ DeliverBatch(p) \/ DeliveryRaises(p)
RefreshStep ==
    \E r \in Refreshers :
        \/ CloseFeed(r) \/ \E active \in SUBSET Wallets : BeginRefresh(r, active)
        \/ ResolveSlot(r) \/ ResolveFails(r) \/ ActivateStream(r) \/ StartAddresses(r)

LEMMA Steps == Next <=> SocketStep \/ ChainStep \/ PollStep \/ RefreshStep \/ Crash
BY DEF Next, Producer, Environment, SocketStep, ChainStep, PollStep, RefreshStep

-----------------------------------------------------------------------------
(* Finite sets of numbers.                                                 *)

LEMMA HasLargest ==
  ASSUME NEW S, IsFiniteSet(S), S \subseteq Int, S # {}
  PROVE  \E i \in S : \A j \in S : j <= i
<1>. DEFINE Above(i) == {j \in S : i < j}
            T == {Above(i) : i \in S}
<1>1. IsWellFoundedOn(StrictSubsetOrdering(S), FiniteSubsetsOf(S))
  BY FS_StrictSubsetOrderingWellFounded
<1>2. T \subseteq SUBSET S /\ T # {}
  OBVIOUS
<1>3. FiniteSubsetsOf(S) = SUBSET S
  BY FS_FiniteSubsetsOfFinite
<1>4. PICK x \in T : \A y \in T : ~ (<<y, x>> \in StrictSubsetOrdering(S))
  <2>. HIDE DEF T
  <2>1. \A T0 : T0 \subseteq FiniteSubsetsOf(S) /\ T0 # {} =>
          \E x \in T0 : \A y \in T0 : ~ (<<y, x>> \in StrictSubsetOrdering(S))
    BY <1>1, WFMin
  <2>2. T \subseteq FiniteSubsetsOf(S)
    BY <1>2, <1>3
  <2>. QED  BY <1>2, <2>1, <2>2
<1>5. PICK i \in S : x = Above(i)
  BY <1>4
<1>6. ASSUME NEW j \in S, i < j  PROVE FALSE
  <2>0. \A k \in S : i < j /\ j < k => i < k
    OBVIOUS
  <2>1. Above(j) \in T /\ Above(j) \subseteq Above(i)
    <3>1. Above(j) \in T
      OBVIOUS
    <3>. HIDE DEF T
    <3>2. Above(j) \subseteq Above(i)
      BY <1>6, <2>0
    <3>. QED  BY <3>1, <3>2
  <2>2. j \in Above(i) /\ j \notin Above(j)
    <3>1. j \in Int
      OBVIOUS
    <3>. QED  BY <1>6, <3>1
  <2>3. <<Above(j), x>> \in StrictSubsetOrdering(S)
    BY <1>5, <2>1, <2>2 DEF StrictSubsetOrdering
  <2>. QED  BY <1>4, <2>1, <2>3
<1>. QED  BY <1>6

LEMMA HasSmallest ==
  ASSUME NEW S, IsFiniteSet(S), S \subseteq Int, S # {}
  PROVE  \E i \in S : \A j \in S : i <= j
<1>. DEFINE N == {-i : i \in S}
<1>1. IsFiniteSet(N)
  <2>. DEFINE f == [i \in S |-> -i]
  <2>1. f \in Surjection(S, N)
    BY DEF Surjection
  <2>. QED  BY <2>1, FS_Surjection
<1>2. N \subseteq Int /\ N # {}
  OBVIOUS
<1>3. PICK k \in N : \A j \in N : j <= k
  <2>. HIDE DEF N
  <2>. QED  BY <1>1, <1>2, HasLargest
<1>4. PICK i \in S : k = -i
  OBVIOUS
<1>5. \A j \in S : i <= j
  BY <1>3, <1>4
<1>. QED  BY <1>5

(* The two ends a task takes of its batch.                                 *)
LEMMA BatchEnds ==
  ASSUME NEW batch \in SUBSET Places, batch # {}
  PROVE  /\ \E i \in batch : i = (CHOOSE k \in batch : \A j \in batch : j <= k)
                             /\ \A j \in batch : j <= i
         /\ \E i \in batch : i = (CHOOSE k \in batch : \A j \in batch : k <= j)
                             /\ \A j \in batch : i <= j
<1>1. IsFiniteSet(Places)
  BY LaunchesAssumption, FS_Interval DEF Places
<1>2. IsFiniteSet(batch)
  BY <1>1, FS_Subset
<1>3. batch \subseteq Int
  BY LaunchesAssumption DEF Places
<1>4. \E i \in batch : \A j \in batch : j <= i
  BY <1>2, <1>3, HasLargest
<1>5. \E i \in batch : \A j \in batch : i <= j
  BY <1>2, <1>3, HasSmallest
<1>. QED  BY <1>4, <1>5

-----------------------------------------------------------------------------
(* A delivery.                                                             *)

LEMMA FreshCreates ==
  ASSUME TypeOK, NEW p \in Tasks
  PROVE  /\ Decoded(FreshItems(p)) \subseteq {<<Of(p), i>> : i \in staged[p]}
         /\ \A i \in staged[p] : \/ <<Of(p), i>> \in Decoded(FreshItems(p))
                                \/ <<Of(p), i>> \in OldCreates(p)
         /\ OldCreates(p) \subseteq Creates
<1>1. \A i \in staged[p] : Observation(<<Of(p), i>>).observation
                        /\ Observation(<<Of(p), i>>).create = <<Of(p), i>>
  BY DEF Observation
<1>2. Of(p) \in Wallets /\ activation[Of(p)] \in Int
  BY DEF Tasks, Of, TypeOK, NotActivated
<1>3. \A i \in staged[p] : i \in Int
  BY LaunchesAssumption DEF TypeOK, Places
<1>4. \A i \in staged[p] : activation[Of(p)] < i =>
          Observation(<<Of(p), i>>) \in FreshItems(p)
  BY <1>2, <1>3 DEF FreshItems
<1>5. \A i \in staged[p] : activation[Of(p)] < i =>
          <<Of(p), i>> \in Decoded(FreshItems(p))
  BY <1>1, <1>4 DEF Decoded
<1>6. \A x \in FreshItems(p) : \E i \in staged[p] : x = Observation(<<Of(p), i>>)
  BY DEF FreshItems
<1>7. Decoded(FreshItems(p)) \subseteq {<<Of(p), i>> : i \in staged[p]}
  BY <1>1, <1>6 DEF Decoded
<1>8. \A i \in staged[p] : ~(activation[Of(p)] < i) => <<Of(p), i>> \in OldCreates(p)
  BY <1>2, <1>3 DEF OldCreates
<1>9. OldCreates(p) \subseteq Creates
  BY <1>2 DEF OldCreates, Creates, TypeOK
<1>. QED  BY <1>5, <1>7, <1>8, <1>9

(* What a delivery does to the store.                                      *)
LEMMA Delivery ==
  ASSUME TypeOK, DurableAlerts, NEW items, Deliver(items)
  PROVE  /\ launches \subseteq launches' /\ launches' \subseteq Creates
         /\ \A m \in launches' : IsCreate(m)
         /\ declined \subseteq declined' /\ declined' \subseteq Creates
         /\ alerts' \in [Creates -> Nat]
         /\ \A m \in Creates : alerts'[m] <= 1 /\ (alerts'[m] = 1 => m \in launches')
         /\ \A m \in Decoded(items) : IsCreate(m) => m \in launches' \cup declined'
         /\ tracked' = tracked /\ activation' = activation /\ early' = early
<1>. DEFINE creates == {m \in Decoded(items) : IsCreate(m)}
            new == {m \in creates : Eligible(m)}
<1>1. creates \subseteq Creates /\ \A m \in creates : IsCreate(m)
  BY DEF IsCreate
<1>2. HandleLaunches(creates)
  BY DEF Deliver
<1>. HIDE DEF creates
<1>3. /\ launches' = launches \cup new
      /\ alerts' = [m \in Creates |-> alerts[m] + IF m \in new THEN 1 ELSE 0]
      /\ declined' = declined \cup {m \in creates : m[1] \notin tracked}
      /\ tracked' = tracked /\ activation' = activation /\ early' = early
  BY <1>2 DEF HandleLaunches
<1>4. \A m \in creates : m \in launches' \cup declined'
  BY <1>3 DEF Eligible
<1>5. \A m \in Creates : m \in new => alerts[m] = 0
  BY DEF DurableAlerts, TypeOK, Eligible
<1>6. \A m \in Creates : alerts'[m] \in Nat /\ alerts'[m] <= 1
                        /\ (alerts'[m] = 1 => m \in launches')
  BY <1>3, <1>5 DEF DurableAlerts, TypeOK
<1>7. alerts' \in [Creates -> Nat]
  BY <1>3, <1>6
<1>8. /\ launches \subseteq launches' /\ launches' \subseteq Creates
      /\ declined \subseteq declined' /\ declined' \subseteq Creates
      /\ \A m \in launches' : IsCreate(m)
  BY <1>1, <1>3 DEF TypeOK
<1>9. \A m \in Decoded(items) : IsCreate(m) => m \in creates
  BY DEF creates
<1>. QED  BY <1>3, <1>4, <1>6, <1>7, <1>8, <1>9

-----------------------------------------------------------------------------
(* Types, and one alert per launch, which the types of a delivery rest on. *)

Base == TypeOK /\ DurableAlerts

LEMMA BaseInit == Init => Base
<1>. SUFFICES ASSUME Init  PROVE Base
  OBVIOUS
<1>1. refresh \in [Refreshers ->
          [pc : {"idle", "closing", "resolving", "resolved", "subscribing"},
           new : SUBSET Wallets, newStream : SUBSET Wallets,
           active : SUBSET Wallets, slot : [Wallets -> Nat]]]
  BY DEF Init, NoRefresh
<1>2. TypeOK
  BY <1>1, HistoryAssumption, LaunchesAssumption
  DEF Init, TypeOK, NotActivated, None, NoCursor, NoCreate
<1>3. DurableAlerts
  BY DEF Init, DurableAlerts
<1>. QED  BY <1>2, <1>3 DEF Base

(* A step that leaves the store alone, and one that delivers.              *)
LEMMA SameStore ==
  ASSUME Base, UNCHANGED <<history, launches, alerts>>
  PROVE  DurableAlerts' /\ \A m \in launches' : IsCreate(m)'
BY DEF Base, TypeOK, DurableAlerts, IsCreate

LEMMA DeliveryBase ==
  ASSUME Base, NEW items, Deliver(items), history' = history
  PROVE  /\ launches' \subseteq Creates /\ \A m \in launches' : IsCreate(m)'
         /\ declined' \subseteq Creates /\ alerts' \in [Creates -> Nat]
         /\ tracked' = tracked /\ activation' = activation /\ early' = early
         /\ DurableAlerts'
BY Delivery DEF Base, DurableAlerts, IsCreate

LEMMA FaultTypes == ASSUME TypeOK, Fault  PROVE faults' \in 0 .. MaxFaults
BY LaunchesAssumption DEF TypeOK, Fault

LEMMA BaseChain == ASSUME Base, ChainStep  PROVE Base'
<1>. USE DEF Base
<1>. SUFFICES ASSUME NEW w \in Wallets,
                     \/ \E kind \in Kinds, announced \in BOOLEAN :
                           Process(w, kind, announced)
                     \/ Finalize(w) \/ Track(w) \/ Untrack(w)
              PROVE  Base'
  BY DEF ChainStep
<1>1. ASSUME NEW kind \in Kinds, NEW announced \in BOOLEAN, Process(w, kind, announced)
      PROVE  Base'
  <2>1. history' = [history EXCEPT ![w] = Append(@, kind)]
    BY <1>1 DEF Process
  <2>2. history' \in [Wallets -> Seq(Kinds)]
    BY <2>1 DEF TypeOK
  <2>8. \A v \in Wallets : Len(history'[v]) <= MaxHistory
    BY <1>1, <2>1, LaunchesAssumption DEF Process, TypeOK
  <2>3. \A v \in Wallets : /\ Len(history'[v]) >= Len(history[v])
                           /\ \A i \in 1 .. Len(history[v]) : history'[v][i] = history[v][i]
    BY <2>1 DEF TypeOK
  <2>4. \A m \in Creates : m[1] \in Wallets /\ m[2] \in Nat /\ m[2] >= 1
    BY LaunchesAssumption DEF Creates, Places
  <2>5. \A m \in Creates : IsCreate(m) => IsCreate(m)'
    <3>. SUFFICES ASSUME NEW m \in Creates, IsCreate(m)  PROVE IsCreate(m)'
      OBVIOUS
    <3>1. m[2] \in 1 .. Len(history[m[1]]) /\ Len(history'[m[1]]) \in Nat
      BY <2>2, <2>4 DEF IsCreate, TypeOK
    <3>. QED  BY <2>3, <2>4, <3>1 DEF IsCreate
  <2>6. feed' \subseteq Creates
    <3>1. Len(history[w]) \in Nat
      BY DEF TypeOK
    <3>2. <<w, Len(history[w]) + 1>> \in Creates
      BY <1>1, <3>1, LaunchesAssumption DEF Process, Creates, Places
    <3>. QED  BY <1>1, <3>2 DEF Process, TypeOK
  <2>. QED  BY <1>1, <2>2, <2>5, <2>6, <2>8
            DEF Process, TypeOK, DurableAlerts, store, polling
<1>2. CASE Finalize(w)
  <2>1. final' \in [Wallets -> 0 .. MaxHistory]
    <3>1. final[w] + 1 \in 0 .. MaxHistory
      BY <1>2, LaunchesAssumption DEF Finalize, TypeOK
    <3>. QED  BY <1>2, <3>1 DEF Finalize, TypeOK
  <2>. QED  BY <1>2, <2>1, SameStore DEF Finalize, TypeOK, store, polling, sockets
<1>3. CASE Track(w) \/ Untrack(w)
  <2>1. tracked' \subseteq Wallets
    BY <1>3 DEF Track, Untrack, TypeOK
  <2>2. faults' \in 0 .. MaxFaults
    BY <1>3, FaultTypes DEF Track, Untrack
  <2>3. UNCHANGED <<chain, launches, activation, alerts, early, declined, historical,
                    polling, subscribed, refresh, sockets>>
    BY <1>3 DEF Track, Untrack
  <2>. QED  BY <2>1, <2>2, <2>3, SameStore DEF TypeOK, chain, polling, sockets
<1>. QED  BY <1>1, <1>2, <1>3

LEMMA ReadTypes ==
  ASSUME TypeOK, NEW p \in Tasks
  PROVE  LET result == SignatureHistory(final[Of(p)], cursor[p])
             batch == Observed(history[Of(p)], result.sigs)
         IN  batch \in SUBSET Places /\ \A i \in batch : i <= final[Of(p)]
<1>. DEFINE result == SignatureHistory(final[Of(p)], cursor[p])
<1>1. final[Of(p)] \in 0 .. MaxHistory /\ cursor[p] \in 0 .. MaxHistory
  BY DEF TypeOK, Of, Tasks
<1>2. result.sigs \subseteq 1 .. final[Of(p)]
  BY <1>1, LaunchesAssumption
  DEF SignatureHistory, Returned, Abstain, HeadOfHistory, Newer, NoCursor
<1>3. Observed(history[Of(p)], result.sigs) \subseteq result.sigs
  BY DEF Observed
<1>. HIDE DEF result
<1>4. Observed(history[Of(p)], result.sigs) \subseteq 1 .. final[Of(p)]
  BY <1>2, <1>3
<1>5. \A i \in 1 .. final[Of(p)] : i \in Places /\ i <= final[Of(p)]
  BY <1>1, LaunchesAssumption DEF Places
<1>. QED  BY <1>4, <1>5 DEF result

LEMMA BasePoll == ASSUME Base, PollStep  PROVE Base'
<1>. USE DEF Base
<1>. SUFFICES ASSUME NEW p \in Tasks,
                     ReadHistory(p) \/ DeliverBatch(p) \/ DeliveryRaises(p)
              PROVE  Base'
  BY DEF PollStep
<1>1. CASE ReadHistory(p)
  <2>. DEFINE batch == Observed(history[Of(p)],
                                SignatureHistory(final[Of(p)], cursor[p]).sigs)
  <2>1. batch \in SUBSET Places /\ batch # {}
    BY <1>1, ReadTypes DEF ReadHistory
  <2>2. staged' = [staged EXCEPT ![p] = batch]
    BY <1>1 DEF ReadHistory
  <2>3. firstRead' = [firstRead EXCEPT ![p] =
              IF cursor[p] = NoCursor THEN CHOOSE i \in batch : \A j \in batch : i <= j
              ELSE @]
    BY <1>1 DEF ReadHistory
  <2>. HIDE DEF batch
  <2>4. (CHOOSE i \in batch : \A j \in batch : i <= j) \in Nat
    <3>. DEFINE first == CHOOSE i \in batch : \A j \in batch : i <= j
    <3>1. first \in batch
      BY <2>1, BatchEnds
    <3>. HIDE DEF first
    <3>2. first \in Nat
      BY <2>1, <3>1, LaunchesAssumption DEF Places
    <3>. QED  BY <3>2 DEF first
  <2>5. staged' \in [Tasks -> SUBSET Places] /\ firstRead' \in [Tasks -> Nat]
    BY <2>1, <2>2, <2>3, <2>4 DEF TypeOK
  <2>. QED  BY <1>1, <2>5, SameStore DEF ReadHistory, TypeOK, chain, store, sockets
<1>2. CASE DeliverBatch(p)
  <2>. DEFINE last == CHOOSE i \in staged[p] : \A j \in staged[p] : j <= i
  <2>1. staged[p] \in SUBSET Places /\ staged[p] # {}
    BY <1>2 DEF DeliverBatch, TypeOK
  <2>2. last \in Places
    BY <2>1, BatchEnds
  <2>3. cursor' \in [Tasks -> 0 .. MaxHistory] /\ staged' \in [Tasks -> SUBSET Places]
    <3>1. cursor' = [cursor EXCEPT ![p] = last] /\ staged' = [staged EXCEPT ![p] = {}]
      BY <1>2 DEF DeliverBatch
    <3>2. last \in 0 .. MaxHistory
      BY <2>2, LaunchesAssumption DEF Places
    <3>. HIDE DEF last
    <3>. QED  BY <3>1, <3>2 DEF TypeOK
  <2>4. Deliver(FreshItems(p)) /\ history' = history
    BY <1>2 DEF DeliverBatch, chain
  <2>5. historical' \subseteq Creates
    BY <1>2, FreshCreates DEF DeliverBatch, TypeOK
  <2>. QED  BY <1>2, <2>3, <2>4, <2>5, DeliveryBase DEF DeliverBatch, TypeOK, chain, sockets
<1>3. CASE DeliveryRaises(p)
  <2>1. PICK i \in staged[p] : Deliver({item \in FreshItems(p) : item.create[2] < i})
    BY <1>3 DEF DeliveryRaises
  <2>2. history' = history
    BY <1>3 DEF DeliveryRaises, chain
  <2>. QED  BY <1>3, <2>1, <2>2, DeliveryBase
            DEF DeliveryRaises, TypeOK, chain, polling, sockets
<1>. QED  BY <1>1, <1>2, <1>3

LEMMA BaseSockets == ASSUME Base, SocketStep  PROVE Base'
<1>. USE DEF Base
<1>1. ASSUME NEW m \in Creates,
             (\E broadcast \in BOOLEAN : ReceiveGlobal(m, broadcast)) \/ ReceiveNative(m)
      PROVE  Base'
  <2>1. /\ hydrating' \in [{"pumpportal", "wss"} -> Creates \cup {NoCreate}]
        /\ feedTask' \in {"starting", "refreshing", "receiving", "hydrating"}
        /\ feed' \subseteq Creates
    BY <1>1 DEF ReceiveGlobal, ReceiveNative, TypeOK
  <2>2. /\ UNCHANGED <<chain, tracked, launches, activation, alerts, declined, historical,
                       polling, subscribed, refresh, faults>>
    BY <1>1 DEF ReceiveGlobal, ReceiveNative, store
  <2>3. early' \in [Creates -> Nat]
    <3>1. ASSUME NEW broadcast \in BOOLEAN, ReceiveGlobal(m, broadcast)
          PROVE  early' \in [Creates -> Nat]
      <4>1. early[m] + (IF broadcast THEN 1 ELSE 0) \in Nat
        BY DEF TypeOK
      <4>2. early' = [early EXCEPT ![m] = early[m] + (IF broadcast THEN 1 ELSE 0)]
        BY <3>1 DEF ReceiveGlobal
      <4>. QED  BY <4>1, <4>2 DEF TypeOK
    <3>2. CASE ReceiveNative(m)
      BY <3>2 DEF ReceiveNative, store, TypeOK
    <3>. QED  BY <1>1, <3>1, <3>2
  <2>. QED  BY <2>1, <2>2, <2>3, SameStore DEF TypeOK, chain, polling
<1>2. CASE ReceiveOther \/ NoRefreshNeeded
  BY <1>2, SameStore DEF ReceiveOther, NoRefreshNeeded, TypeOK, chain, store, polling
<1>3. CASE DeliverGlobal
  <2>1. Deliver({Observation(hydrating["pumpportal"])}) /\ history' = history
    BY <1>3 DEF DeliverGlobal, chain
  <2>2. /\ hydrating' \in [{"pumpportal", "wss"} -> Creates \cup {NoCreate}]
        /\ feedTask' \in {"starting", "refreshing", "receiving", "hydrating"}
    BY <1>3 DEF DeliverGlobal, EndHydration, TypeOK
  <2>. QED  BY <1>3, <2>1, <2>2, DeliveryBase DEF DeliverGlobal, TypeOK, chain, polling
<1>4. CASE DeliverNative
  <2>1. Deliver({Nested(hydrating["wss"])}) /\ history' = history
    BY <1>4 DEF DeliverNative, chain
  <2>2. hydrating' \in [{"pumpportal", "wss"} -> Creates \cup {NoCreate}]
    BY <1>4 DEF DeliverNative, TypeOK
  <2>. QED  BY <1>4, <2>1, <2>2, DeliveryBase DEF DeliverNative, TypeOK, chain, polling
<1>5. CASE GiveUpGlobal \/ LoseFeed
  <2>1. faults' \in 0 .. MaxFaults
    BY <1>5, FaultTypes DEF GiveUpGlobal, LoseFeed
  <2>2. /\ hydrating' \in [{"pumpportal", "wss"} -> Creates \cup {NoCreate}]
        /\ feedTask' \in {"starting", "refreshing", "receiving", "hydrating"}
        /\ feed' \subseteq Creates
    BY <1>5 DEF GiveUpGlobal, LoseFeed, EndHydration, TypeOK
  <2>3. UNCHANGED <<chain, store, polling, subscribed, refresh>>
    BY <1>5 DEF GiveUpGlobal, LoseFeed
  <2>. QED  BY <2>1, <2>2, <2>3, SameStore DEF TypeOK, chain, store, polling
<1>. QED  BY <1>1, <1>2, <1>3, <1>4, <1>5 DEF SocketStep

RefreshRecord ==
    [pc : {"idle", "closing", "resolving", "resolved", "subscribing"},
     new : SUBSET Wallets, newStream : SUBSET Wallets,
     active : SUBSET Wallets, slot : [Wallets -> Nat]]

LEMMA NoRefreshType == NoRefresh \in RefreshRecord /\ NoRefresh.pc = "idle"
BY DEF NoRefresh, RefreshRecord

LEMMA EndRefreshTypes ==
  ASSUME TypeOK, NEW r \in Refreshers, EndRefresh(r)
  PROVE  /\ refresh' = [refresh EXCEPT ![r] = NoRefresh]
         /\ refresh' \in [Refreshers -> RefreshRecord]
         /\ feedTask' \in {"starting", "refreshing", "receiving", "hydrating"}
<1>1. refresh \in [Refreshers -> RefreshRecord]
  BY DEF TypeOK, RefreshRecord
<1>2. refresh' = [refresh EXCEPT ![r] = NoRefresh]
  BY DEF EndRefresh
<1>3. refresh' \in [Refreshers -> RefreshRecord]
  BY <1>1, <1>2, NoRefreshType
<1>4. feedTask' \in {"starting", "refreshing", "receiving", "hydrating"}
  BY DEF EndRefresh, TypeOK
<1>. QED  BY <1>2, <1>3, <1>4

(* The stopped tasks hold nothing any more.                                *)
LEMMA Stopping ==
  ASSUME TypeOK, NEW r \in Refreshers, NEW active \in SUBSET Wallets,
         BeginRefresh(r, active)
  PROVE  /\ tasks' = [w \in Wallets |-> IF w \in active THEN tasks[w] ELSE None]
         /\ running' = {p \in running : p[1] \in active \/ p[2] # tasks[p[1]]}
         /\ \A p \in Tasks :
               \/ cursor'[p] = cursor[p] /\ staged'[p] = staged[p]
                  /\ firstRead'[p] = firstRead[p] /\ (p \in running' <=> p \in running)
               \/ p \notin running' /\ cursor'[p] = NoCursor /\ staged'[p] = {}
                  /\ firstRead'[p] = 0
         /\ cursor' \in [Tasks -> 0 .. MaxHistory]
         /\ staged' \in [Tasks -> SUBSET Places] /\ firstRead' \in [Tasks -> Nat]
<1>. DEFINE removed == Registered \ active
            Stopped(p) == Of(p) \in removed /\ p[2] = tasks[Of(p)]
<1>1. /\ tasks' = [w \in Wallets |-> IF w \in removed THEN None ELSE tasks[w]]
      /\ running' = {p \in running : ~Stopped(p)}
      /\ cursor' = [p \in Tasks |-> IF Stopped(p) THEN NoCursor ELSE cursor[p]]
      /\ staged' = [p \in Tasks |-> IF Stopped(p) THEN {} ELSE staged[p]]
      /\ firstRead' = [p \in Tasks |-> IF Stopped(p) THEN 0 ELSE firstRead[p]]
  BY DEF BeginRefresh
<1>2. tasks' = [w \in Wallets |-> IF w \in active THEN tasks[w] ELSE None]
  BY <1>1 DEF Registered
<1>3. \A p \in running : /\ p[1] \in Wallets /\ p[2] \in 1 .. Pollers
                         /\ Of(p) = p[1]
  BY DEF TypeOK, Tasks, Of
<1>4. \A p \in running : Stopped(p) <=> ~(p[1] \in active \/ p[2] # tasks[p[1]])
  <2>1. \A p \in running : p[2] = tasks[p[1]] => tasks[p[1]] # None
    BY <1>3 DEF None
  <2>. QED  BY <1>3, <2>1 DEF Registered
<1>5. running' = {p \in running : p[1] \in active \/ p[2] # tasks[p[1]]}
  BY <1>1, <1>4
<1>6. cursor' \in [Tasks -> 0 .. MaxHistory]
  BY <1>1, LaunchesAssumption DEF TypeOK, NoCursor
<1>7. staged' \in [Tasks -> SUBSET Places] /\ firstRead' \in [Tasks -> Nat]
  BY <1>1 DEF TypeOK
<1>8. \A p \in Tasks : Stopped(p) =>
          p \notin running' /\ cursor'[p] = NoCursor /\ staged'[p] = {} /\ firstRead'[p] = 0
  BY <1>1
<1>9. \A p \in Tasks : ~Stopped(p) =>
          /\ cursor'[p] = cursor[p] /\ staged'[p] = staged[p] /\ firstRead'[p] = firstRead[p]
          /\ p \in running' <=> p \in running
  BY <1>1
<1>. QED  BY <1>2, <1>5, <1>6, <1>7, <1>8, <1>9

(* The outcome of the first part of refresh().                             *)
LEMMA Beginning ==
  ASSUME TypeOK, NEW r \in Refreshers, NEW active \in SUBSET Wallets,
         BeginRefresh(r, active)
  PROVE  \/ subscribed' = active /\ EndRefresh(r)
         \/ /\ UNCHANGED <<subscribed, feedTask>>
            /\ \E record \in RefreshRecord :
                  /\ refresh' = [refresh EXCEPT ![r] = record]
                  /\ record.new = active \ Registered
                  /\ record.newStream = active \ subscribed
                  /\ record.active = active
<1>. DEFINE record == [NoRefresh EXCEPT !.pc = "resolving",
                                        !.new = active \ Registered,
                                        !.newStream = active \ subscribed,
                                        !.active = active]
<1>1. record \in RefreshRecord
  BY DEF NoRefresh, RefreshRecord, TypeOK
<1>2. /\ record.new = active \ Registered
      /\ record.newStream = active \ subscribed
      /\ record.active = active
  BY DEF NoRefresh
<1>3. \/ subscribed' = active /\ EndRefresh(r)
      \/ UNCHANGED <<subscribed, feedTask>> /\ refresh' = [refresh EXCEPT ![r] = record]
  BY DEF BeginRefresh
<1>. QED  BY <1>1, <1>2, <1>3

(* What a wallet gets when its task is created.                            *)
FreeTask(w) == CHOOSE k \in 1 .. Pollers : <<w, k>> \notin running

LEMMA Starting ==
  ASSUME TypeOK, NEW r \in Refreshers, StartAddresses(r)
  PROVE  /\ \A w \in refresh[r].new : /\ w \in Wallets /\ FreeTask(w) \in 1 .. Pollers
                                      /\ <<w, FreeTask(w)>> \in Tasks \ running
         /\ tasks' = [w \in Wallets |->
                        IF w \in refresh[r].new THEN FreeTask(w) ELSE tasks[w]]
         /\ running' = running \cup {<<w, FreeTask(w)>> : w \in refresh[r].new}
         /\ tasks' \in [Wallets -> 0 .. Pollers] /\ running' \subseteq Tasks
         /\ subscribed' = refresh[r].active /\ subscribed' \subseteq Wallets
         /\ activation' \in [Wallets -> Nat \cup {NotActivated}]
         /\ \A w \in Wallets \ refresh[r].new : activation'[w] = activation[w]
<1>1. /\ refresh[r].new \subseteq Wallets /\ refresh[r].active \subseteq Wallets
      /\ refresh[r].slot \in [Wallets -> Nat]
  BY DEF TypeOK
<1>2. \A w \in refresh[r].new : \E k \in 1 .. Pollers : <<w, k>> \notin running
  BY DEF StartAddresses
<1>3. \A w \in refresh[r].new : /\ FreeTask(w) \in 1 .. Pollers
                                /\ <<w, FreeTask(w)>> \notin running
  <2>1. \A w \in refresh[r].new :
          (CHOOSE k \in 1 .. Pollers : <<w, k>> \notin running) \in 1 .. Pollers
          /\ <<w, CHOOSE k \in 1 .. Pollers : <<w, k>> \notin running>> \notin running
    BY <1>2
  <2>. QED  BY <2>1 DEF FreeTask
<1>4. /\ tasks' = [w \in Wallets |->
                     IF w \in refresh[r].new THEN FreeTask(w) ELSE tasks[w]]
      /\ running' = running \cup {<<w, FreeTask(w)>> : w \in refresh[r].new}
      /\ subscribed' = refresh[r].active
      /\ activation' = [w \in Wallets |-> IF w \in refresh[r].new
                           THEN refresh[r].slot[w] ELSE activation[w]]
  BY DEF StartAddresses, FreeTask, Activate
<1>5. \A w \in refresh[r].new : w \in Wallets /\ <<w, FreeTask(w)>> \in Tasks \ running
  BY <1>1, <1>3 DEF Tasks
<1>6. tasks' \in [Wallets -> 0 .. Pollers]
  <2>0. \A k \in 1 .. Pollers : k \in 0 .. Pollers
    BY LaunchesAssumption
  <2>1. \A w \in refresh[r].new : FreeTask(w) \in 0 .. Pollers
    BY <1>3, <2>0
  <2>. QED  BY <1>4, <2>1 DEF TypeOK
<1>7. running' \subseteq Tasks
  BY <1>4, <1>5 DEF TypeOK
<1>8. activation' \in [Wallets -> Nat \cup {NotActivated}]
  BY <1>1, <1>4 DEF TypeOK
<1>9. \A w \in Wallets \ refresh[r].new : activation'[w] = activation[w]
  BY <1>4
<1>. QED  BY <1>1, <1>3, <1>4, <1>5, <1>6, <1>7, <1>8, <1>9

LEMMA BaseRefresh == ASSUME Base, RefreshStep  PROVE Base'
<1>. USE DEF Base
<1>. SUFFICES ASSUME NEW r \in Refreshers,
                     \/ CloseFeed(r)
                     \/ \E active \in SUBSET Wallets : BeginRefresh(r, active)
                     \/ ResolveSlot(r) \/ ResolveFails(r)
                     \/ ActivateStream(r) \/ StartAddresses(r)
              PROVE  Base'
  BY DEF RefreshStep
<1>t. refresh \in [Refreshers -> RefreshRecord]
  BY DEF TypeOK, RefreshRecord
<1>1. ASSUME NEW active \in SUBSET Wallets, BeginRefresh(r, active)  PROVE Base'
  <2>1. tasks' \in [Wallets -> 0 .. Pollers] /\ running' \subseteq Tasks
    <3>1. tasks' = [w \in Wallets |-> IF w \in active THEN tasks[w] ELSE None]
      BY <1>1, Stopping
    <3>2. running' \subseteq running
      BY <1>1, Stopping
    <3>. QED  BY <3>1, <3>2, LaunchesAssumption DEF TypeOK, None
  <2>2. /\ subscribed' \subseteq Wallets
        /\ refresh' \in [Refreshers -> RefreshRecord]
        /\ feedTask' \in {"starting", "refreshing", "receiving", "hydrating"}
    <3>1. CASE subscribed' = active /\ EndRefresh(r)
      BY <3>1, EndRefreshTypes DEF TypeOK
    <3>2. CASE UNCHANGED <<subscribed, feedTask>>
               /\ \E record \in RefreshRecord : refresh' = [refresh EXCEPT ![r] = record]
      BY <1>t, <3>2 DEF TypeOK
    <3>. QED  BY <1>1, <3>1, <3>2, Beginning
  <2>3. UNCHANGED <<chain, store, feed, hydrating, faults>>
    BY <1>1 DEF BeginRefresh
  <2>. QED  BY <1>1, <2>1, <2>2, <2>3, Stopping, SameStore
            DEF TypeOK, RefreshRecord, chain, store
<1>6. CASE CloseFeed(r)
  <2>1. refresh' \in [Refreshers -> RefreshRecord]
    <3>1. [refresh[r] EXCEPT !.pc = "closing"] \in RefreshRecord
      BY <1>t DEF RefreshRecord
    <3>. QED  BY <1>6, <1>t, <3>1 DEF CloseFeed
  <2>. QED  BY <1>6, <2>1, SameStore
            DEF CloseFeed, TypeOK, RefreshRecord, chain, store, polling
<1>2. CASE ResolveSlot(r)
  <2>1. [refresh[r] EXCEPT !.pc = "resolved", !.slot = final] \in RefreshRecord
    <3>1. final \in [Wallets -> Nat]
      BY LaunchesAssumption DEF TypeOK
    <3>. QED  BY <1>t, <3>1 DEF RefreshRecord
  <2>2. refresh' = [refresh EXCEPT ![r] =
                       [refresh[r] EXCEPT !.pc = "resolved", !.slot = final]]
    BY <1>2, <1>t DEF ResolveSlot
  <2>3. refresh' \in [Refreshers -> RefreshRecord]
    BY <1>t, <2>1, <2>2
  <2>. QED  BY <1>2, <2>3, SameStore
            DEF ResolveSlot, TypeOK, RefreshRecord, chain, store, polling, sockets
<1>3. CASE ResolveFails(r)
  <2>1. faults' \in 0 .. MaxFaults
    BY <1>3, FaultTypes DEF ResolveFails
  <2>2. /\ refresh' \in [Refreshers -> RefreshRecord]
        /\ feedTask' \in {"starting", "refreshing", "receiving", "hydrating"}
    BY <1>3, EndRefreshTypes DEF ResolveFails
  <2>. QED  BY <1>3, <2>1, <2>2, SameStore
            DEF ResolveFails, TypeOK, RefreshRecord, chain, store, polling
<1>4. CASE ActivateStream(r)
  <2>1. activation' \in [Wallets -> Nat \cup {NotActivated}]
    BY <1>4, <1>t DEF ActivateStream, Activate, TypeOK, RefreshRecord
  <2>2. refresh' \in [Refreshers -> RefreshRecord]
    <3>1. [refresh[r] EXCEPT !.pc = "subscribing"] \in RefreshRecord
      BY <1>t DEF RefreshRecord
    <3>. QED  BY <1>4, <1>t, <3>1 DEF ActivateStream
  <2>. QED  BY <1>4, <2>1, <2>2, SameStore
            DEF ActivateStream, TypeOK, RefreshRecord, chain, polling, sockets
<1>5. CASE StartAddresses(r)
  <2>1. /\ refresh' \in [Refreshers -> RefreshRecord]
        /\ feedTask' \in {"starting", "refreshing", "receiving", "hydrating"}
    BY <1>5, EndRefreshTypes DEF StartAddresses
  <2>. QED  BY <1>5, <2>1, Starting, SameStore
            DEF StartAddresses, TypeOK, RefreshRecord, chain
<1>. QED  BY <1>1, <1>2, <1>3, <1>4, <1>5, <1>6

LEMMA CrashLaunches ==
  ASSUME Base, Crash
  PROVE  launches \subseteq launches' /\ launches' \subseteq Creates
         /\ \A m \in launches' : IsCreate(m)'
<1>1. history' = history
  BY DEF Crash, chain
<1>2. launches \subseteq Creates /\ \A m \in launches : IsCreate(m)'
  BY <1>1 DEF Base, TypeOK, IsCreate
<1>3. \/ launches' = launches
      \/ \E m \in Creates : IsCreate(m)' /\ launches' = launches \cup {m}
  BY <1>1 DEF Crash, IsCreate
<1>. QED  BY <1>2, <1>3

LEMMA BaseCrash == ASSUME Base, Crash  PROVE Base'
<1>. USE DEF Base
<1>1. faults' \in 0 .. MaxFaults
  BY FaultTypes DEF Crash
<1>2. DurableAlerts'
  BY CrashLaunches DEF Crash, DurableAlerts
<1>3. refresh' \in [Refreshers -> RefreshRecord]
  BY NoRefreshType DEF Crash
<1>4. /\ tasks' \in [Wallets -> 0 .. Pollers] /\ running' \subseteq Tasks
      /\ cursor' \in [Tasks -> 0 .. MaxHistory]
      /\ staged' \in [Tasks -> SUBSET Places] /\ firstRead' \in [Tasks -> Nat]
  BY LaunchesAssumption DEF Crash, None, NoCursor
<1>5. /\ subscribed' \subseteq Wallets /\ feed' \subseteq Creates
      /\ feedTask' \in {"starting", "refreshing", "receiving", "hydrating"}
      /\ hydrating' \in [{"pumpportal", "wss"} -> Creates \cup {NoCreate}]
  BY DEF Crash
<1>. QED  BY <1>1, <1>2, <1>3, <1>4, <1>5, CrashLaunches
          DEF Crash, TypeOK, RefreshRecord, chain

LEMMA BaseNext == ASSUME Base, [Next]_vars  PROVE Base'
<1>1. CASE Next
  BY <1>1, Steps, BaseSockets, BaseChain, BasePoll, BaseRefresh, BaseCrash
<1>2. CASE UNCHANGED vars
  BY <1>2, SameStore
  DEF vars, Base, TypeOK, chain, store, polling, sockets
<1>. QED  BY <1>1, <1>2

(* Every variable of TrackedLaunches keeps its type.                       *)
THEOREM TypeCorrect == Spec => []TypeOK
<1>1. Base => TypeOK
  BY DEF Base
<1>. QED  BY <1>1, BaseInit, BaseNext, PTL DEF Spec

-----------------------------------------------------------------------------
(* The events of a launch.                                                 *)

LEMMA EarlyNext == ASSUME Base, EarlyInv, [Next]_vars  PROVE EarlyInv'
<1>t. /\ \A w \in Wallets : Len(history[w]) \in Nat
      /\ \A m \in Creates : m[1] \in Wallets /\ m[2] \in Nat /\ early[m] \in Nat
  BY LaunchesAssumption DEF Base, TypeOK, Creates, Places
<1>1. ASSUME NEW w \in Wallets, NEW kind \in Kinds, NEW announced \in BOOLEAN,
             Process(w, kind, announced)
      PROVE  EarlyInv'
  <2>. DEFINE new == <<w, Len(history[w]) + 1>>
  <2>1. /\ history' = [history EXCEPT ![w] = Append(@, kind)] /\ early' = early
        /\ feed' = IF announced THEN feed \cup {new} ELSE feed
    BY <1>1 DEF Process, store
  <2>2. \A v \in Wallets : /\ Len(history'[v]) >= Len(history[v])
                           /\ Len(history'[v]) \in Nat
    BY <2>1 DEF Base, TypeOK
  <2>3. Len(history'[w]) = Len(history[w]) + 1
    BY <2>1 DEF Base, TypeOK
  <2>4. ASSUME NEW m \in Creates
        PROVE  /\ early[m] <= 1
               /\ m \in feed' => early[m] = 0
               /\ m \in feed' \/ early[m] = 1 => m[2] <= Len(history'[m[1]])
    <3>1. /\ early[m] <= 1 /\ (m \in feed => early[m] = 0)
          /\ m \in feed \/ early[m] = 1 => m[2] <= Len(history[m[1]])
      BY DEF EarlyInv
    <3>2. m[2] <= Len(history[m[1]]) => m[2] <= Len(history'[m[1]])
      BY <1>t, <2>2
    <3>3. CASE m = new
      <4>1. m[1] = w /\ m[2] = Len(history[w]) + 1
        BY <3>3
      <4>2. early[m] = 0
        BY <1>t, <3>1, <4>1
      <4>. QED  BY <1>t, <2>3, <4>1, <4>2
    <3>4. CASE m # new
      <4>1. m \in feed' <=> m \in feed
        BY <2>1, <3>4
      <4>. QED  BY <3>1, <3>2, <4>1
    <3>. QED  BY <3>3, <3>4
  <2>. HIDE DEF new
  <2>. QED  BY <2>1, <2>4 DEF EarlyInv
<1>2. ASSUME NEW m \in Creates, NEW broadcast \in BOOLEAN, ReceiveGlobal(m, broadcast)
      PROVE  EarlyInv'
  <2>1. /\ history' = history /\ feed' = feed \ {m} /\ m \in feed
        /\ early' = [early EXCEPT ![m] = @ + IF broadcast THEN 1 ELSE 0]
    BY <1>2 DEF ReceiveGlobal, chain
  <2>2. \A n \in Creates : early'[n] = IF n = m /\ broadcast THEN early[n] + 1 ELSE early[n]
    BY <1>t, <2>1 DEF Base, TypeOK
  <2>. QED  BY <1>t, <2>1, <2>2 DEF EarlyInv
<1>3. ASSUME UNCHANGED <<history, early>>, feed' \subseteq feed  PROVE EarlyInv'
  BY <1>3 DEF EarlyInv
<1>4. CASE SocketStep
  <2>1. ASSUME NEW m \in Creates, NEW broadcast \in BOOLEAN, ReceiveGlobal(m, broadcast)
        PROVE  EarlyInv'
    BY <1>2, <2>1
  <2>2. CASE \/ \E m \in Creates : ReceiveNative(m)
             \/ NoRefreshNeeded \/ ReceiveOther \/ GiveUpGlobal \/ LoseFeed
    BY <1>3, <2>2 DEF ReceiveNative, NoRefreshNeeded, ReceiveOther, GiveUpGlobal,
                      LoseFeed, chain, store
  <2>3. CASE DeliverGlobal \/ DeliverNative
    <3>1. /\ history' = history /\ feed' = feed
          /\ \E items : Deliver(items)
      BY <2>3 DEF DeliverGlobal, DeliverNative, chain
    <3>2. early' = early
      BY <3>1, Delivery DEF Base
    <3>. QED  BY <1>3, <3>1, <3>2
  <2>. QED  BY <1>4, <2>1, <2>2, <2>3 DEF SocketStep
<1>5. CASE ChainStep
  <2>1. ASSUME NEW w \in Wallets, Finalize(w) \/ Track(w) \/ Untrack(w)  PROVE EarlyInv'
    BY <1>3, <2>1 DEF Finalize, Track, Untrack, chain, store, sockets
  <2>. QED  BY <1>1, <1>5, <2>1 DEF ChainStep
<1>6. CASE PollStep
  <2>1. history' = history /\ feed' = feed
    BY <1>6 DEF PollStep, ReadHistory, DeliverBatch, DeliveryRaises, chain, sockets
  <2>2. UNCHANGED store \/ \E items : Deliver(items)
    BY <1>6 DEF PollStep, ReadHistory, DeliverBatch, DeliveryRaises
  <2>3. early' = early
    BY <2>2, Delivery DEF Base, store
  <2>. QED  BY <1>3, <2>1, <2>3
<1>7. CASE RefreshStep \/ Crash
  <2>1. UNCHANGED <<history, early>> /\ feed' \subseteq feed
    BY <1>7 DEF RefreshStep, CloseFeed, BeginRefresh, ResolveSlot, ResolveFails,
                ActivateStream, StartAddresses, Crash, chain, store, sockets
  <2>. QED  BY <1>3, <2>1
<1>8. CASE UNCHANGED vars
  BY <1>3, <1>8 DEF vars, chain, store, sockets
<1>. QED  BY <1>4, <1>5, <1>6, <1>7, <1>8, Steps

(* For any callers of refresh(), feeds, failures and crashes: handle_launch*)
(* publishes a launch at most once and never before it is durable, and the *)
(* PumpPortal task publishes at most one event of its own.                 *)
THEOREM OneAlertPerMintCorrect == Spec => []OneAlertPerMint
<1>1. Init => EarlyInv
  BY DEF Init, EarlyInv
<1>2. Base /\ EarlyInv => OneAlertPerMint
  BY DEF Base, DurableAlerts, EarlyInv, OneAlertPerMint
<1>3. Base /\ EarlyInv /\ [Next]_vars => (Base /\ EarlyInv)'
  BY BaseNext, EarlyNext
<1>. QED  BY <1>1, <1>2, <1>3, BaseInit, PTL DEF Spec

-----------------------------------------------------------------------------
(* What the cursor of a task has passed.                                   *)

PassedOf(p) ==
    \A i \in Places :
        IsCreate(<<Of(p), i>>) /\ firstRead[p] <= i /\ i <= cursor[p]
            => <<Of(p), i>> \in launches \cup declined \cup historical
TaskInv == RestInv /\ FinalInv /\ ReadInv /\ AcknowledgedIsDelivered
IInv == Base /\ TaskInv

LEMMA TaskInit == Init => TaskInv
<1>. SUFFICES ASSUME Init  PROVE TaskInv
  OBVIOUS
<1>1. RestInv /\ FinalInv
  BY DEF Init, RestInv, FinalInv
<1>2. ReadInv
  BY DEF Init, ReadInv, Reaches, NoCursor, Tasks, Of
<1>3. AcknowledgedIsDelivered
  BY DEF Init, AcknowledgedIsDelivered
<1>. QED  BY <1>1, <1>2, <1>3 DEF TaskInv

LEMMA TasksTyped ==
  ASSUME TypeOK
  PROVE  \A p \in Tasks : /\ Of(p) \in Wallets /\ cursor[p] \in Nat
                          /\ final[Of(p)] \in Nat /\ staged[p] \subseteq Places
<1>1. \A p \in Tasks : Of(p) \in Wallets
  BY DEF Tasks, Of
<1>. QED  BY <1>1, LaunchesAssumption DEF TypeOK

(* Nothing that was delivered is forgotten.                                *)
StoreGrows ==
    launches \subseteq launches' /\ declined \subseteq declined'
        /\ historical \subseteq historical'

(* A step after which the tasks and what they hold are the same; the       *)
(* history may only grow above what is final.                              *)
Quiet ==
    /\ UNCHANGED polling
    /\ StoreGrows
    /\ \A w \in Wallets : final[w] <= final'[w]
    /\ \A w \in Wallets, i \in Places :
          IsCreate(<<w, i>>)' /\ i <= final[w] => IsCreate(<<w, i>>)

LEMMA QuietKeeps ==
  ASSUME TypeOK, TypeOK', RestInv, ReadInv, AcknowledgedIsDelivered, Quiet
  PROVE  RestInv' /\ ReadInv' /\ AcknowledgedIsDelivered'
<1>1. UNCHANGED <<tasks, running, cursor, staged, firstRead>>
  BY DEF Quiet, polling
<1>2. ASSUME NEW p \in Tasks
      PROVE  /\ (cursor[p] <= final[Of(p)])'
             /\ \A i \in staged'[p] : i <= final'[Of(p)]
             /\ \A i \in Places :
                   /\ IsCreate(<<Of(p), i>>)'
                   /\ firstRead'[p] <= i /\ cursor'[p] < i
                   /\ Reaches(p, i)'
                   => i \in staged'[p]
  <2>1. /\ Of(p) \in Wallets /\ cursor[p] \in Nat /\ final[Of(p)] \in Nat
        /\ final'[Of(p)] \in Nat /\ staged[p] \subseteq Int
    <3>1. Of(p) \in Wallets /\ final' \in [Wallets -> 0 .. MaxHistory]
      BY TasksTyped DEF TypeOK
    <3>2. final'[Of(p)] \in Nat
      BY <3>1, LaunchesAssumption
    <3>. QED  BY <3>1, <3>2, TasksTyped, LaunchesAssumption DEF Places
  <2>2. final[Of(p)] <= final'[Of(p)]
    BY <2>1 DEF Quiet
  <2>3. cursor[p] <= final[Of(p)] /\ \A i \in staged[p] : i <= final[Of(p)]
    BY DEF ReadInv
  <2>4. cursor[p] <= final'[Of(p)] /\ \A i \in staged[p] : i <= final'[Of(p)]
    BY <2>1, <2>2, <2>3
  <2>5. ASSUME NEW i \in Places, IsCreate(<<Of(p), i>>)',
               firstRead'[p] <= i, cursor'[p] < i, Reaches(p, i)'
        PROVE  i \in staged[p]
    <3>1. PICK j \in staged[p] : i <= j
      BY <1>1, <2>5 DEF Reaches
    <3>2. i <= final[Of(p)]
      BY <2>1, <2>3, <3>1, LaunchesAssumption DEF Places
    <3>3. IsCreate(<<Of(p), i>>)
      BY <2>1, <2>5, <3>2 DEF Quiet
    <3>. QED  BY <1>1, <2>5, <3>1, <3>3 DEF ReadInv, Reaches
  <2>. QED  BY <1>1, <2>4, <2>5 DEF Of
<1>3. ReadInv'
  BY <1>2 DEF ReadInv, Of
<1>4. ASSUME NEW p \in running', NEW i \in Places, IsCreate(<<Of(p), i>>)',
             firstRead'[p] <= i, i <= cursor'[p]
      PROVE  <<Of(p), i>> \in launches' \cup declined' \cup historical'
  <2>1. p \in Tasks /\ p \in running
    BY <1>1 DEF TypeOK
  <2>2. /\ cursor[p] <= final[Of(p)] /\ cursor[p] \in Nat /\ final[Of(p)] \in Nat
        /\ Of(p) \in Wallets
    BY <2>1, TasksTyped DEF ReadInv
  <2>3. i <= final[Of(p)]
    BY <1>1, <1>4, <2>2, LaunchesAssumption DEF Places
  <2>4. IsCreate(<<Of(p), i>>)
    BY <1>4, <2>2, <2>3 DEF Quiet
  <2>5. <<Of(p), i>> \in launches \cup declined \cup historical
    BY <1>1, <1>4, <2>1, <2>4 DEF AcknowledgedIsDelivered
  <2>. QED  BY <2>5 DEF Quiet, StoreGrows
<1>5. AcknowledgedIsDelivered'
  <2>1. \A p \in running' : \A i \in Places :
          IsCreate(<<Of(p), i>>)' /\ firstRead'[p] <= i /\ i <= cursor'[p]
            => <<Of(p), i>> \in launches' \cup declined' \cup historical'
    BY <1>4
  <2>. QED  BY <2>1 DEF AcknowledgedIsDelivered, Of
<1>6. RestInv'
  BY <1>1 DEF RestInv
<1>. QED  BY <1>3, <1>5, <1>6

(* A step that leaves the chain and the tasks alone.                       *)
LEMMA QuietStep ==
  ASSUME IInv, Base', UNCHANGED <<chain, polling>>, StoreGrows
  PROVE  TaskInv'
<1>. USE DEF IInv
<1>1. \A w \in Wallets : final[w] <= final'[w]
  BY LaunchesAssumption DEF chain, Base, TypeOK
<1>2. Quiet
  BY <1>1 DEF Quiet, chain, IsCreate
<1>3. FinalInv'
  BY DEF TaskInv, FinalInv, chain
<1>. QED  BY <1>2, <1>3, QuietKeeps DEF TaskInv, Base

LEMMA TaskSockets == ASSUME IInv, SocketStep  PROVE TaskInv'
<1>. USE DEF IInv
<1>1. UNCHANGED <<chain, polling>>
  BY DEF SocketStep, ReceiveGlobal, ReceiveNative, NoRefreshNeeded, ReceiveOther,
         DeliverGlobal, DeliverNative, GiveUpGlobal, LoseFeed
<1>2. \/ UNCHANGED <<launches, declined, historical>>
      \/ historical' = historical /\ \E items : Deliver(items)
  BY DEF SocketStep, ReceiveGlobal, ReceiveNative, NoRefreshNeeded, ReceiveOther,
         DeliverGlobal, DeliverNative, GiveUpGlobal, LoseFeed, store
<1>3. StoreGrows
  <2>1. ASSUME historical' = historical, NEW items, Deliver(items)  PROVE StoreGrows
    BY <2>1, Delivery DEF Base, StoreGrows
  <2>. QED  BY <1>2, <2>1 DEF StoreGrows
<1>. QED  BY <1>1, <1>3, BaseSockets, QuietStep

LEMMA TaskChain == ASSUME IInv, ChainStep  PROVE TaskInv'
<1>. USE DEF IInv
<1>. SUFFICES ASSUME NEW w \in Wallets,
                     \/ \E kind \in Kinds, announced \in BOOLEAN :
                           Process(w, kind, announced)
                     \/ Finalize(w) \/ Track(w) \/ Untrack(w)
              PROVE  TaskInv'
  BY DEF ChainStep
<1>1. UNCHANGED polling /\ StoreGrows
  BY DEF Process, Finalize, Track, Untrack, store, StoreGrows
<1>2. TypeOK'
  <2>1. ChainStep
    BY DEF ChainStep
  <2>. QED  BY <2>1, BaseChain DEF Base
<1>3. /\ FinalInv'
      /\ \A v \in Wallets : final[v] <= final'[v]
      /\ \A v \in Wallets, i \in Places :
            IsCreate(<<v, i>>)' /\ i <= final[v] => IsCreate(<<v, i>>)
  <2>1. \A v \in Wallets : /\ final[v] \in Nat /\ Len(history[v]) \in Nat
                           /\ final[v] <= Len(history[v])
    BY LaunchesAssumption DEF Base, TypeOK, TaskInv, FinalInv
  <2>2. CASE \E kind \in Kinds, announced \in BOOLEAN : Process(w, kind, announced)
    <3>1. PICK kind \in Kinds : history' = [history EXCEPT ![w] = Append(@, kind)]
                                /\ final' = final
      BY <2>2 DEF Process
    <3>2. \A v \in Wallets : /\ Len(history'[v]) \in Nat
                             /\ Len(history'[v]) >= Len(history[v])
                             /\ \A i \in 1 .. Len(history[v]) : history'[v][i] = history[v][i]
      BY <3>1 DEF Base, TypeOK
    <3>3. FinalInv'
      BY <2>1, <3>1, <3>2 DEF FinalInv
    <3>4. ASSUME NEW v \in Wallets, NEW i \in Places,
                 IsCreate(<<v, i>>)', i <= final[v]
          PROVE  IsCreate(<<v, i>>)
      <4>1. i \in 1 .. Len(history[v])
        BY <2>1, <3>4, LaunchesAssumption DEF Places
      <4>2. <<v, i>>[1] = v /\ <<v, i>>[2] = i
        OBVIOUS
      <4>. QED  BY <3>2, <3>4, <4>1, <4>2 DEF IsCreate
    <3>. QED  BY <2>1, <3>1, <3>3, <3>4
  <2>3. CASE Finalize(w)
    <3>1. /\ history' = history /\ final' = [final EXCEPT ![w] = @ + 1]
          /\ final[w] < Len(history[w])
      BY <2>3 DEF Finalize
    <3>2. \A v \in Wallets : final'[v] = IF v = w THEN final[v] + 1 ELSE final[v]
      BY <3>1 DEF Base, TypeOK
    <3>. QED  BY <2>1, <3>1, <3>2 DEF FinalInv, IsCreate
  <2>4. CASE Track(w) \/ Untrack(w)
    <3>1. history' = history /\ final' = final
      BY <2>4 DEF Track, Untrack, chain
    <3>. QED  BY <2>1, <3>1 DEF FinalInv, IsCreate
  <2>. QED  BY <2>2, <2>3, <2>4
<1>4. Quiet
  BY <1>1, <1>3 DEF Quiet
<1>. QED  BY <1>2, <1>3, <1>4, QuietKeeps DEF TaskInv, Base

(* A batch leaves out no create between the cursor and its end.            *)
LEMMA BatchComplete ==
  ASSUME TypeOK, ReadInv, NEW p \in Tasks, ReadHistory(p)
  PROVE  LET batch == staged'[p] IN
         /\ batch \in SUBSET Places /\ \A i \in batch : i <= final[Of(p)]
         /\ \A i \in Places :
               /\ IsCreate(<<Of(p), i>>)
               /\ firstRead'[p] <= i /\ cursor[p] < i
               /\ \E j \in batch : i <= j
               => i \in batch
         /\ cursor[p] # NoCursor => firstRead'[p] = firstRead[p]
<1>. DEFINE tip == final[Of(p)]
            sigs == SignatureHistory(tip, cursor[p]).sigs
            batch == Observed(history[Of(p)], sigs)
            first == CHOOSE i \in batch : \A j \in batch : i <= j
<1>1. /\ staged' = [staged EXCEPT ![p] = batch]
      /\ firstRead' = [firstRead EXCEPT ![p] = IF cursor[p] = NoCursor THEN first ELSE @]
      /\ SignatureHistory(tip, cursor[p]).read /\ batch # {}
  BY DEF ReadHistory
<1>2. staged'[p] = batch /\ firstRead'[p] = IF cursor[p] = NoCursor THEN first
                                           ELSE firstRead[p]
  BY <1>1 DEF TypeOK
<1>3. batch \in SUBSET Places /\ \A i \in batch : i <= tip
  BY ReadTypes
<1>4. first \in batch
  <2>1. \E i \in batch : i = first /\ \A j \in batch : i <= j
    <3>. HIDE DEF batch
    <3>. QED  BY <1>1, <1>3, BatchEnds
  <2>. QED  BY <2>1
<1>5. tip \in Nat /\ cursor[p] \in Nat
  BY TasksTyped
<1>6. sigs = IF cursor[p] = NoCursor THEN HeadOfHistory(tip) ELSE Newer(tip, cursor[p])
  BY <1>1 DEF SignatureHistory, Returned, Abstain
<1>7. ASSUME NEW i \in Places, IsCreate(<<Of(p), i>>), firstRead'[p] <= i,
             cursor[p] < i, NEW j \in batch, i <= j
      PROVE  i \in batch
  <2>1. history[Of(p)][i] # "failed"
    BY <1>7 DEF IsCreate
  <2>2. i \in 1 .. tip
    <3>1. j \in Int /\ j <= tip /\ i \in Nat /\ i >= 1
      BY <1>3, LaunchesAssumption DEF Places
    <3>. QED  BY <1>5, <1>7, <3>1
  <2>3. i \in sigs
    <3>1. CASE cursor[p] = NoCursor
      <4>1. first \in HeadOfHistory(tip)
        <5>. HIDE DEF first
        <5>. QED  BY <1>4, <1>6, <3>1 DEF Observed
      <4>2. firstRead'[p] = first
        BY <1>2, <3>1
      <4>. DEFINE bound == Least(MaxSignatures, MaxTransactions)
      <4>3. first \in 1 .. tip /\ tip - first < bound /\ bound \in Int
        <5>. HIDE DEF first
        <5>. QED  BY <4>1, HistoryAssumption DEF HeadOfHistory, Least
      <4>4. tip - i < bound
        <5>. HIDE DEF first, bound
        <5>. QED  BY <1>5, <1>7, <2>2, <4>2, <4>3
      <4>. QED  BY <1>6, <2>2, <3>1, <4>4 DEF HeadOfHistory
    <3>2. CASE cursor[p] # NoCursor
      BY <1>5, <1>6, <1>7, <2>2, <3>2 DEF Newer
    <3>. QED  BY <3>1, <3>2
  <2>. QED  BY <2>1, <2>3 DEF Observed
<1>. HIDE DEF batch, first
<1>. QED  BY <1>2, <1>3, <1>7

(* The part of ReadInv that is about one task.                             *)
ReadOf(p) ==
    /\ cursor[p] <= final[Of(p)]
    /\ \A i \in staged[p] : i <= final[Of(p)]
    /\ \A i \in Places :
          /\ IsCreate(<<Of(p), i>>)
          /\ firstRead[p] <= i /\ cursor[p] < i
          /\ Reaches(p, i)
          => i \in staged[p]

(* What a task does leaves the others as they are.                         *)
LEMMA OtherTasks ==
  ASSUME IInv, NEW p \in Tasks,
         UNCHANGED <<chain, running>>, StoreGrows, p \in running,
         \A q \in Tasks \ {p} :
            cursor'[q] = cursor[q] /\ staged'[q] = staged[q] /\ firstRead'[q] = firstRead[q],
         ReadOf(p)',
         \A i \in Places :
            IsCreate(<<Of(p), i>>) /\ firstRead'[p] <= i /\ i <= cursor'[p]
            => <<Of(p), i>> \in launches' \cup declined' \cup historical'
  PROVE  TaskInv'
<1>. USE DEF IInv
<1>1. RestInv'
  BY DEF TaskInv, RestInv
<1>2. FinalInv'
  BY DEF TaskInv, FinalInv, chain
<1>3. history' = history /\ final' = final /\ \A m : IsCreate(m)' <=> IsCreate(m)
  BY DEF chain, IsCreate
<1>4. \A q \in Tasks \ {p} : ReadOf(q)'
  BY <1>3 DEF TaskInv, ReadInv, ReadOf, Reaches, Of
<1>5. ReadInv'
  BY <1>4 DEF ReadInv, ReadOf
<1>6. \A q \in running \ {p} : PassedOf(q)'
  <2>1. running \subseteq Tasks
    BY DEF Base, TypeOK
  <2>. QED  BY <1>3, <2>1
            DEF TaskInv, AcknowledgedIsDelivered, PassedOf, Of, StoreGrows
<1>7. PassedOf(p)'
  BY <1>3 DEF PassedOf, Of
<1>8. AcknowledgedIsDelivered'
  BY <1>6, <1>7 DEF AcknowledgedIsDelivered, PassedOf
<1>. QED  BY <1>1, <1>2, <1>5, <1>8 DEF TaskInv

LEMMA TaskPoll == ASSUME IInv, PollStep  PROVE TaskInv'
<1>. USE DEF IInv
<1>. SUFFICES ASSUME NEW p \in Tasks,
                     ReadHistory(p) \/ DeliverBatch(p) \/ DeliveryRaises(p)
              PROVE  TaskInv'
  BY DEF PollStep
<1>t. /\ Of(p) \in Wallets /\ cursor[p] \in Nat /\ final[Of(p)] \in Nat
      /\ staged[p] \subseteq Places /\ ReadOf(p)
  BY TasksTyped DEF Base, TaskInv, ReadInv, ReadOf
<1>1. CASE ReadHistory(p)
  <2>1. /\ UNCHANGED <<chain, store, running, cursor>>
        /\ p \in running
        /\ \A q \in Tasks \ {p} : staged'[q] = staged[q] /\ firstRead'[q] = firstRead[q]
    BY <1>1 DEF ReadHistory, Base, TypeOK
  <2>2. ReadOf(p)'
    <3>1. history' = history /\ final' = final /\ cursor' = cursor
      BY <2>1 DEF chain
    <3>2. \A i \in Places : IsCreate(<<Of(p), i>>)' <=> IsCreate(<<Of(p), i>>)
      BY <3>1 DEF IsCreate
    <3>. QED  BY <1>1, <1>t, <3>1, <3>2, BatchComplete
              DEF Base, TaskInv, ReadOf, Reaches, Of
  <2>3. ASSUME NEW i \in Places, IsCreate(<<Of(p), i>>),
               firstRead'[p] <= i, i <= cursor'[p]
        PROVE  <<Of(p), i>> \in launches' \cup declined' \cup historical'
    <3>1. cursor' = cursor /\ cursor[p] # NoCursor
      BY <2>1, <2>3, LaunchesAssumption DEF Places, NoCursor
    <3>2. firstRead'[p] = firstRead[p]
      BY <1>1, <3>1, BatchComplete DEF Base, TaskInv
    <3>. QED  BY <2>1, <2>3, <3>1, <3>2 DEF TaskInv, AcknowledgedIsDelivered, store
  <2>. QED  BY <2>1, <2>2, <2>3, OtherTasks DEF store, StoreGrows
<1>2. CASE DeliverBatch(p)
  <2>. DEFINE last == CHOOSE i \in staged[p] : \A j \in staged[p] : j <= i
  <2>1. /\ UNCHANGED <<chain, running, firstRead>>
        /\ p \in running /\ staged[p] # {}
        /\ Deliver(FreshItems(p)) /\ historical' = historical \cup OldCreates(p)
        /\ cursor' = [cursor EXCEPT ![p] = last]
        /\ staged' = [staged EXCEPT ![p] = {}]
    BY <1>2 DEF DeliverBatch
  <2>2. last \in staged[p] /\ \A j \in staged[p] : j <= last
    <3>1. \E i \in staged[p] : i = last /\ \A j \in staged[p] : j <= i
      BY <1>t, <2>1, BatchEnds
    <3>. QED  BY <3>1
  <2>. HIDE DEF last
  <2>3. /\ cursor'[p] = last /\ staged'[p] = {}
        /\ \A q \in Tasks \ {p} : cursor'[q] = cursor[q] /\ staged'[q] = staged[q]
    BY <2>1 DEF Base, TypeOK
  <2>4. /\ StoreGrows
        /\ \A m \in Decoded(FreshItems(p)) : IsCreate(m) => m \in launches' \cup declined'
    BY <2>1, Delivery DEF Base, StoreGrows
  <2>5. ReadOf(p)'
    <3>1. final' = final
      BY <2>1 DEF chain
    <3>. QED  BY <1>t, <2>2, <2>3, <3>1 DEF ReadOf, Reaches, Of
  <2>6. ASSUME NEW i \in Places, IsCreate(<<Of(p), i>>),
               firstRead'[p] <= i, i <= cursor'[p]
        PROVE  <<Of(p), i>> \in launches' \cup declined' \cup historical'
    <3>1. CASE i <= cursor[p]
      <4>1. <<Of(p), i>> \in launches \cup declined \cup historical
        BY <2>1, <2>6, <3>1 DEF TaskInv, AcknowledgedIsDelivered
      <4>. QED  BY <2>4, <4>1 DEF StoreGrows
    <3>2. CASE ~(i <= cursor[p])
      <4>1. cursor[p] < i
        BY <1>t, <3>2, LaunchesAssumption DEF Places
      <4>2. i \in staged[p]
        BY <1>t, <2>1, <2>2, <2>3, <2>6, <4>1 DEF ReadOf, Reaches
      <4>. QED  BY <2>1, <2>4, <2>6, <4>2, FreshCreates DEF Base
    <3>. QED  BY <3>1, <3>2
  <2>. QED  BY <2>1, <2>3, <2>4, <2>5, <2>6, OtherTasks
<1>3. CASE DeliveryRaises(p)
  <2>1. UNCHANGED <<chain, polling, historical>>
    BY <1>3 DEF DeliveryRaises
  <2>2. PICK items : Deliver(items)
    BY <1>3 DEF DeliveryRaises
  <2>3. StoreGrows
    BY <2>1, <2>2, Delivery DEF Base, StoreGrows
  <2>4. Base'
    <3>1. PollStep
      BY <1>3 DEF PollStep
    <3>. QED  BY <3>1, BasePoll
  <2>. QED  BY <2>1, <2>3, <2>4, QuietStep
<1>. QED  BY <1>1, <1>2, <1>3

LEMMA TaskRefresh == ASSUME IInv, RefreshStep  PROVE TaskInv'
<1>. USE DEF IInv
<1>b. Base'
  BY BaseRefresh
<1>. SUFFICES ASSUME NEW r \in Refreshers,
                     \/ CloseFeed(r)
                     \/ \E active \in SUBSET Wallets : BeginRefresh(r, active)
                     \/ ResolveSlot(r) \/ ResolveFails(r)
                     \/ ActivateStream(r) \/ StartAddresses(r)
              PROVE  TaskInv'
  BY DEF RefreshStep
<1>1. ASSUME NEW active \in SUBSET Wallets, BeginRefresh(r, active)  PROVE TaskInv'
  <2>1. UNCHANGED <<chain, store>>
    BY <1>1 DEF BeginRefresh
  <2>2. history' = history /\ final' = final /\ \A m : IsCreate(m)' <=> IsCreate(m)
    BY <2>1 DEF chain, IsCreate
  <2>3. RestInv'
    BY <1>1, Stopping DEF Base, TaskInv, RestInv
  <2>4. ReadInv'
    <3>1. ASSUME NEW p \in Tasks  PROVE ReadOf(p)'
      <4>1. CASE cursor'[p] = cursor[p] /\ staged'[p] = staged[p]
                 /\ firstRead'[p] = firstRead[p]
        BY <2>2, <4>1 DEF TaskInv, ReadInv, ReadOf, Reaches, Of
      <4>2. CASE cursor'[p] = NoCursor /\ staged'[p] = {}
        BY <2>2, <4>2, TasksTyped DEF Base, NoCursor, ReadOf, Reaches, Of
      <4>. QED  BY <1>1, <4>1, <4>2, Stopping DEF Base
    <3>. QED  BY <3>1 DEF ReadInv, ReadOf
  <2>5. \A p \in running' : PassedOf(p)'
    <3>1. ASSUME NEW p \in running'
          PROVE  p \in running /\ cursor'[p] = cursor[p] /\ firstRead'[p] = firstRead[p]
      <4>1. p \in running /\ p \in Tasks
        <5>1. running' \subseteq running
          BY <1>1, Stopping DEF Base
        <5>. QED  BY <5>1 DEF Base, TypeOK
      <4>. QED  BY <1>1, <4>1, Stopping DEF Base
    <3>. QED  BY <2>1, <2>2, <3>1 DEF TaskInv, AcknowledgedIsDelivered, PassedOf, Of, store
  <2>6. AcknowledgedIsDelivered' /\ FinalInv'
    BY <2>2, <2>5 DEF AcknowledgedIsDelivered, PassedOf, TaskInv, FinalInv
  <2>. QED  BY <2>3, <2>4, <2>6 DEF TaskInv
<1>2. CASE CloseFeed(r) \/ ResolveSlot(r) \/ ResolveFails(r) \/ ActivateStream(r)
  <2>1. UNCHANGED <<chain, polling>> /\ StoreGrows
    BY <1>2 DEF CloseFeed, ResolveSlot, ResolveFails, ActivateStream, store, StoreGrows
  <2>. QED  BY <1>b, <2>1, QuietStep
<1>3. CASE StartAddresses(r)
  <2>1. UNCHANGED <<chain, launches, declined, historical, cursor, staged, firstRead>>
    BY <1>3 DEF StartAddresses
  <2>2. history' = history /\ final' = final /\ \A m : IsCreate(m)' <=> IsCreate(m)
    BY <2>1 DEF chain, IsCreate
  <2>3. running \subseteq running' /\ running' \subseteq Tasks
    BY <1>3, Starting DEF Base
  <2>4. RestInv' /\ ReadInv' /\ FinalInv'
    BY <2>1, <2>2, <2>3 DEF TaskInv, RestInv, ReadInv, Reaches, FinalInv
  <2>5. ASSUME NEW p \in running'  PROVE PassedOf(p)'
    <3>1. CASE p \in running
      BY <2>1, <2>2, <3>1 DEF TaskInv, AcknowledgedIsDelivered, PassedOf, Of
    <3>2. CASE p \notin running
      <4>1. cursor[p] = NoCursor
        BY <2>3, <3>2 DEF TaskInv, RestInv
      <4>2. \A i \in Places : ~(i <= NoCursor)
        BY LaunchesAssumption DEF Places, NoCursor
      <4>. QED  BY <2>1, <4>1, <4>2 DEF PassedOf
    <3>. QED  BY <3>1, <3>2
  <2>6. AcknowledgedIsDelivered'
    BY <2>5 DEF AcknowledgedIsDelivered, PassedOf
  <2>. QED  BY <2>4, <2>6 DEF TaskInv
<1>. QED  BY <1>1, <1>2, <1>3

LEMMA TaskCrash == ASSUME IInv, Crash  PROVE TaskInv'
<1>. USE DEF IInv
<1>1. /\ running' = {} /\ history' = history /\ final' = final
      /\ cursor' = [p \in Tasks |-> NoCursor] /\ staged' = [p \in Tasks |-> {}]
  BY DEF Crash, chain
<1>2. RestInv' /\ AcknowledgedIsDelivered' /\ FinalInv'
  BY <1>1 DEF TaskInv, RestInv, AcknowledgedIsDelivered, FinalInv
<1>3. ReadInv'
  BY <1>1, TasksTyped DEF Base, ReadInv, Reaches, NoCursor, Of
<1>. QED  BY <1>2, <1>3 DEF TaskInv

LEMMA TaskNext == ASSUME IInv, [Next]_vars  PROVE IInv'
<1>1. Base'
  BY BaseNext DEF IInv
<1>2. UNCHANGED vars => TaskInv'
  <2>1. UNCHANGED vars => UNCHANGED <<chain, polling>> /\ StoreGrows
    BY DEF vars, store, StoreGrows
  <2>. QED  BY <1>1, <2>1, QuietStep
<1>3. TaskInv'
  BY <1>2, Steps, TaskSockets, TaskChain, TaskPoll, TaskRefresh, TaskCrash
<1>. QED  BY <1>1, <1>3 DEF IInv

(* No cursor passes a create it should have brought, for any callers of    *)
(* refresh() in any order, bounds of a read, failures and crashes.         *)
THEOREM AcknowledgedIsDeliveredCorrect == Spec => []AcknowledgedIsDelivered
<1>1. Init => IInv
  BY BaseInit, TaskInit DEF IInv
<1>2. IInv /\ [Next]_vars => IInv'
  BY TaskNext
<1>3. IInv => AcknowledgedIsDelivered
  BY DEF IInv, TaskInv
<1>. QED  BY <1>1, <1>2, <1>3, PTL DEF Spec
=============================================================================
