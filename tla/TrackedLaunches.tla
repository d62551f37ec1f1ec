------------------------ MODULE TrackedLaunches ------------------------
(***************************************************************************)
(* The producer of launch alerts                                           *)
(* (runtime/workers/tracked_launch_observation.py) with the tracker service*)
(* and its store: one polling task per tracked wallet, the native          *)
(* WebSocket and the global PumpPortal feed bring creates to               *)
(* TrackerService.handle_launch, which stores a launch with its outbox rows*)
(* and publishes its alert; refresh() starts and stops the tasks.          *)
(* A create is named by its wallet and its place in the wallet's history.  *)
(* A transaction is in the history when it is processed and final[w] counts*)
(* the finalized ones, so "its slot is later than the finalized slot read  *)
(* at that moment" is "its place is above final[w] then".                  *)
(***************************************************************************)
EXTENDS AddressHistory, Sequences

CONSTANTS
    Wallets,     \* wallets an operator may track
    Refreshers,  \* callers of refresh(): "feed" is the PumpPortal task, any other
                 \* one a request (POST /api/entity/track)
    Pollers,     \* bound: polling tasks of one wallet alive at a time
    MaxHistory,  \* bound: transactions of a wallet
    MaxFaults    \* bound: crashes, failures, timeouts, lost connections and
                 \* changes of the tracked set

ASSUME LaunchesAssumption ==
    /\ Pollers \in Nat \ {0}
    /\ MaxHistory \in Nat
    /\ MaxFaults \in Nat

VARIABLES
    \* external
    history,     \* transactions of a wallet, processed or finalized
    final,       \* how many of them are finalized
    \* tracker: the engine's tracked wallets, which the store mirrors
    tracked,
    launches,    \* durable launches, each with its outbox rows
    activation,  \* durable launch activation of a wallet
    alerts,      \* history: LaunchDetected events of handle_launch, per launch
    early,       \* history: those the PumpPortal task published on its own
    declined,    \* history: creates delivered while their wallet was untracked
    historical,  \* history: creates a task passed, not later than the activation
    \* the producer
    tasks,       \* the registered task of a wallet (None: none)
    running,     \* the polling tasks that are alive
    cursor,      \* cursor of a task's source
    staged,      \* batch of a task's source not acknowledged yet
    firstRead,   \* history: oldest transaction the first read of a task covered
    subscribed,  \* _stream_addresses
    refresh,     \* the refresh() calls in progress
    feed,        \* creates PumpPortal announced and the task has not received
    feedTask,    \* where the PumpPortal task stands
    hydrating,   \* the create each WebSocket task waits finality for
    faults

chain == <<history, final>>
store == <<tracked, launches, activation, alerts, early, declined, historical>>
polling == <<tasks, running, cursor, staged, firstRead>>
sockets == <<feed, feedTask, hydrating>>
vars == <<chain, store, polling, subscribed, refresh, sockets, faults>>

Places == 1 .. MaxHistory
Creates == Wallets \X Places
Tasks == Wallets \X (1 .. Pollers)
None == 0
NoCreate == <<>>
NotActivated == -1

IsCreate(m) ==
    /\ m \in Creates
    /\ m[2] <= Len(history[m[1]])
    /\ history[m[1]][m[2]] = "create"
Final(m) == m[2] <= final[m[1]]

NoRefresh == [pc |-> "idle", new |-> {}, newStream |-> {}, active |-> {},
              slot |-> [w \in Wallets |-> 0]]

TypeOK ==
    /\ history \in [Wallets -> Seq(Kinds)]
    /\ \A w \in Wallets : Len(history[w]) <= MaxHistory
    /\ final \in [Wallets -> 0 .. MaxHistory]
    /\ tracked \subseteq Wallets
    /\ launches \subseteq Creates
    /\ declined \subseteq Creates /\ historical \subseteq Creates
    /\ \A m \in launches : IsCreate(m)
    /\ activation \in [Wallets -> Nat \cup {NotActivated}]
    /\ alerts \in [Creates -> Nat] /\ early \in [Creates -> Nat]
    /\ tasks \in [Wallets -> 0 .. Pollers]
    /\ running \subseteq Tasks
    /\ cursor \in [Tasks -> 0 .. MaxHistory]
    /\ staged \in [Tasks -> SUBSET Places]
    /\ firstRead \in [Tasks -> Nat]
    /\ subscribed \subseteq Wallets
    /\ refresh \in [Refreshers ->
          [pc : {"idle", "closing", "resolving", "resolved", "subscribing"},
           new : SUBSET Wallets, newStream : SUBSET Wallets,
           active : SUBSET Wallets, slot : [Wallets -> Nat]]]
    /\ feed \subseteq Creates
    /\ feedTask \in {"starting", "refreshing", "receiving", "hydrating"}
    /\ hydrating \in [{"pumpportal", "wss"} -> Creates \cup {NoCreate}]
    /\ faults \in 0 .. MaxFaults

Init ==
    /\ history = [w \in Wallets |-> <<>>]
    /\ final = [w \in Wallets |-> 0]
    /\ tracked \in SUBSET Wallets
    /\ launches = {} /\ declined = {} /\ historical = {}
    /\ activation = [w \in Wallets |-> NotActivated]
    /\ alerts = [m \in Creates |-> 0] /\ early = [m \in Creates |-> 0]
    /\ tasks = [w \in Wallets |-> None]
    /\ running = {}
    /\ cursor = [p \in Tasks |-> NoCursor]
    /\ staged = [p \in Tasks |-> {}]
    /\ firstRead = [p \in Tasks |-> 0]
    /\ subscribed = {}
    /\ refresh = [r \in Refreshers |-> NoRefresh]
    /\ feed = {} /\ feedTask = "starting"
    /\ hydrating = [s \in {"pumpportal", "wss"} |-> NoCreate]
    /\ faults = 0

Fault == faults < MaxFaults /\ faults' = faults + 1

-----------------------------------------------------------------------------
(* The cluster and the operator.                                           *)

(* A transaction is processed; PumpPortal announces a create at once if it *)
(* succeeded and its socket is open.                                       *)
Process(w, kind, announced) ==
    LET m == <<w, Len(history[w]) + 1>> IN
    /\ Len(history[w]) < MaxHistory
    /\ announced => kind = "create" /\ feedTask # "starting"
    /\ history' = [history EXCEPT ![w] = Append(@, kind)]
    /\ feed' = IF announced THEN feed \cup {m} ELSE feed
    /\ UNCHANGED <<final, store, polling, subscribed, refresh, feedTask,
                   hydrating, faults>>

Finalize(w) ==
    /\ final[w] < Len(history[w])
    /\ final' = [final EXCEPT ![w] = @ + 1]
    /\ UNCHANGED <<history, store, polling, subscribed, refresh, sockets, faults>>

(* TrackerService.add_funder and remove_funder.                            *)
Track(w) ==
    /\ Fault
    /\ w \notin tracked
    /\ tracked' = tracked \cup {w}
    /\ UNCHANGED <<chain, launches, activation, alerts, early, declined, historical,
                   polling, subscribed, refresh, sockets>>

Untrack(w) ==
    /\ Fault
    /\ w \in tracked
    /\ tracked' = tracked \ {w}
    /\ UNCHANGED <<chain, launches, activation, alerts, early, declined, historical,
                   polling, subscribed, refresh, sockets>>

-----------------------------------------------------------------------------
(* TrackerService.handle_launch on each create of a batch, under the       *)
(* delivery lock: nothing in it awaits.                                    *)

(* An item is an observation or, wrongly nested, a batch: only the first   *)
(* decodes (decode_pump_create_v2_observation).                            *)
Observation(m) == [observation |-> TRUE, create |-> m]
Nested(m) == [observation |-> FALSE, create |-> m]
Decoded(items) == {item.create : item \in {x \in items : x.observation}}

(* Mutant: the launch table is not asked.                                  *)
EligibleAgain(m) == m[1] \in tracked

Eligible(m) == m \notin launches /\ m[1] \in tracked

(* enqueue_launch_alerts in one transaction, then commit_launch and the    *)
(* event: once per launch.                                                 *)
HandleLaunches(creates) ==
    LET new == {m \in creates : Eligible(m)} IN
    /\ launches' = launches \cup new
    /\ alerts' = [m \in Creates |-> alerts[m] + IF m \in new THEN 1 ELSE 0]
    /\ declined' = declined \cup {m \in creates : m[1] \notin tracked}
    /\ UNCHANGED <<tracked, activation, early>>

(* Mutant: whatever an observation holds counts as a launch.               *)
DeliverUndecoded(items) == HandleLaunches(Decoded(items))

Deliver(items) == HandleLaunches({m \in Decoded(items) : IsCreate(m)})

-----------------------------------------------------------------------------
(* _poll_address with its RpcAddressObservationSource.                     *)

Of(p) == p[1]

(* source.read(): the signatures listed now; a read that fails leaves the  *)
(* task as it was.  An empty batch is acknowledged and changes nothing.    *)
ReadHistory(p) ==
    LET result == SignatureHistory(final[Of(p)], cursor[p])
        batch == Observed(history[Of(p)], result.sigs)
    IN  /\ p \in running
        /\ staged[p] = {}
        /\ result.read
        /\ batch # {}
        /\ staged' = [staged EXCEPT ![p] = batch]
        /\ firstRead' = [firstRead EXCEPT ![p] =
              IF cursor[p] = NoCursor THEN CHOOSE i \in batch : \A j \in batch : i <= j
              ELSE @]
        /\ UNCHANGED <<chain, store, tasks, running, cursor, subscribed, refresh,
                       sockets, faults>>

FreshItems(p) ==
    {Observation(<<Of(p), i>>) : i \in {j \in staged[p] : j > activation[Of(p)]}}
OldCreates(p) == {<<Of(p), i>> : i \in {j \in staged[p] : j <= activation[Of(p)]}}

(* Mutant: the batch is not acknowledged.                                  *)
DeliverUnacknowledged(p) ==
    /\ p \in running
    /\ staged[p] # {}
    /\ Deliver(FreshItems(p))
    /\ historical' = historical \cup OldCreates(p)
    /\ cursor' = [cursor EXCEPT ![p] =
          CHOOSE i \in staged[p] : \A j \in staged[p] : j <= i]
    /\ UNCHANGED <<chain, tasks, running, staged, firstRead, subscribed, refresh,
                   sockets, faults>>

(* The read returns: the fresh part is delivered, the batch acknowledged.  *)
DeliverBatch(p) ==
    /\ p \in running
    /\ staged[p] # {}
    /\ Deliver(FreshItems(p))
    /\ historical' = historical \cup OldCreates(p)
    /\ cursor' = [cursor EXCEPT ![p] =
          CHOOSE i \in staged[p] : \A j \in staged[p] : j <= i]
    /\ staged' = [staged EXCEPT ![p] = {}]
    /\ UNCHANGED <<chain, tasks, running, firstRead, subscribed, refresh, sockets,
                   faults>>

(* Mutant: the batch is acknowledged although a delivery raised.           *)
DeliveryRaisesAcknowledged(p) ==
    /\ p \in running
    /\ staged[p] # {}
    /\ \E i \in staged[p] :
          Deliver({item \in FreshItems(p) : item.create[2] < i})
    /\ historical' = historical \cup OldCreates(p)
    /\ cursor' = [cursor EXCEPT ![p] =
          CHOOSE i \in staged[p] : \A j \in staged[p] : j <= i]
    /\ staged' = [staged EXCEPT ![p] = {}]
    /\ UNCHANGED <<chain, tasks, running, firstRead, subscribed, refresh, sockets,
                   faults>>

(* handle_launch raises at one of the creates: the older ones are done, the*)
(* batch stays staged and is returned by the next read.  No bound: nothing *)
(* grows when it fails again.                                              *)
DeliveryRaises(p) ==
    /\ p \in running
    /\ staged[p] # {}
    /\ \E i \in staged[p] :
          Deliver({item \in FreshItems(p) : item.create[2] < i})
    /\ UNCHANGED <<historical, chain, polling, subscribed, refresh, sockets, faults>>

-----------------------------------------------------------------------------
(* refresh(), by one of its callers.                                       *)

Registered == {w \in Wallets : tasks[w] # None}

(* start(), then the PumpPortal task whenever the registered wallets are   *)
(* not the tracked ones, and a request at any time.                        *)
MayRefresh(r) ==
    IF r = "feed"
    THEN feedTask \in {"starting"} \cup (IF Registered = tracked THEN {}
                                        ELSE {"refreshing"})
    ELSE feedTask # "starting"

NoRefreshNeeded ==
    /\ feedTask = "refreshing" /\ Registered = tracked
    /\ \A r \in Refreshers : r = "feed" => refresh[r].pc = "idle"
    /\ feedTask' = "receiving"
    /\ UNCHANGED <<chain, store, polling, subscribed, refresh, feed, hydrating, faults>>

(* The end of a refresh: start() creates the PumpPortal task, which goes   *)
(* from each of its own refreshes to the next notification.                *)
EndRefresh(r) ==
    /\ refresh' = [refresh EXCEPT ![r] = NoRefresh]
    /\ feedTask' = CASE r # "feed" -> feedTask
                    [] feedTask = "starting" -> "refreshing"
                    [] OTHER -> "receiving"

(* With nothing left to track the feed's socket is closed first.           *)
CloseFeed(r) ==
    /\ MayRefresh(r)
    /\ refresh[r].pc = "idle"
    /\ tracked = {}
    /\ refresh' = [refresh EXCEPT ![r].pc = "closing"]
    /\ feed' = {}
    /\ UNCHANGED <<chain, store, polling, subscribed, feedTask, hydrating, faults>>

(* Up to the first network call: tasks of removed wallets are cancelled,   *)
(* the new wallets are worked out.  What was tracked before the socket was *)
(* closed counts, not what is tracked now.                                 *)
BeginRefresh(r, active) ==
    LET removed == Registered \ active
        Stopped(p) == Of(p) \in removed /\ p[2] = tasks[Of(p)]
        new == active \ Registered
    IN  /\ \/ refresh[r].pc = "idle" /\ MayRefresh(r)
              /\ active = tracked /\ active # {}
           \/ refresh[r].pc = "closing" /\ active = refresh[r].active
        /\ tasks' = [w \in Wallets |-> IF w \in removed THEN None ELSE tasks[w]]
        /\ running' = {p \in running : ~Stopped(p)}
        /\ cursor' = [p \in Tasks |-> IF Stopped(p) THEN NoCursor ELSE cursor[p]]
        /\ staged' = [p \in Tasks |-> IF Stopped(p) THEN {} ELSE staged[p]]
        /\ firstRead' = [p \in Tasks |-> IF Stopped(p) THEN 0 ELSE firstRead[p]]
        /\ IF new = {} /\ active \subseteq subscribed
           THEN /\ subscribed' = active
                /\ EndRefresh(r)
           ELSE /\ refresh' = [refresh EXCEPT ![r] =
                      [NoRefresh EXCEPT !.pc = "resolving", !.new = new,
                                        !.newStream = active \ subscribed,
                                        !.active = active]]
                /\ UNCHANGED <<subscribed, feedTask>>
        /\ UNCHANGED <<chain, store, feed, hydrating, faults>>

(* The node reads the finalized slot; the answer travels.                  *)
ResolveSlot(r) ==
    /\ refresh[r].pc = "resolving"
    /\ refresh' = [refresh EXCEPT ![r].pc = "resolved", ![r].slot = final]
    /\ UNCHANGED <<chain, store, polling, subscribed, sockets, faults>>

(* No finalized slot within five seconds: left to a later refresh.         *)
ResolveFails(r) ==
    /\ Fault
    /\ refresh[r].pc = "resolving"
    /\ EndRefresh(r)
    /\ UNCHANGED <<chain, store, polling, subscribed, feed, hydrating>>

Activate(ws, slot) ==
    activation' = [w \in Wallets |-> IF w \in ws THEN slot[w] ELSE activation[w]]

(* Activations of the wallets new to the native stream, then its           *)
(* subscriptions are changed over the network.                             *)
ActivateStream(r) ==
    /\ refresh[r].pc = "resolved"
    /\ Activate(refresh[r].newStream, refresh[r].slot)
    /\ refresh' = [refresh EXCEPT ![r].pc = "subscribing"]
    /\ UNCHANGED <<chain, tracked, launches, alerts, early, declined, historical,
                   polling, subscribed, sockets, faults>>

(* _start_address for every new wallet: the activation is written and a    *)
(* task with a source of its own registered.                               *)
StartAddresses(r) ==
    LET new == refresh[r].new
        FreeTask(w) == CHOOSE k \in 1 .. Pollers : <<w, k>> \notin running
    IN  /\ refresh[r].pc = "subscribing"
        /\ \A w \in new : \E k \in 1 .. Pollers : <<w, k>> \notin running
        /\ subscribed' = refresh[r].active
        /\ Activate(new, refresh[r].slot)
        /\ tasks' = [w \in Wallets |-> IF w \in new THEN FreeTask(w) ELSE tasks[w]]
        /\ running' = running \cup {<<w, FreeTask(w)>> : w \in new}
        /\ EndRefresh(r)
        /\ UNCHANGED <<chain, tracked, launches, alerts, early, declined, historical,
                       cursor, staged, firstRead, feed, hydrating, faults>>

-----------------------------------------------------------------------------
(* The two WebSocket tasks.                                                *)

(* _poll_pumpportal: a notification is published at once, unless the       *)
(* screener turned it down, whoever created it and however old it is; then *)
(* a create of an untracked wallet is passed over and one of a tracked     *)
(* wallet waits for its finalized evidence.                                *)
ReceiveGlobal(m, broadcast) ==
    /\ feedTask = "receiving"
    /\ m \in feed
    /\ feed' = feed \ {m}
    /\ early' = [early EXCEPT ![m] = @ + IF broadcast THEN 1 ELSE 0]
    /\ IF m[1] \in tracked
       THEN /\ feedTask' = "hydrating"
            /\ hydrating' = [hydrating EXCEPT !["pumpportal"] = m]
       ELSE /\ feedTask' = "refreshing"
            /\ UNCHANGED hydrating
    /\ UNCHANGED <<chain, tracked, launches, activation, alerts, declined, historical,
                   polling, subscribed, refresh, faults>>

(* The announced create is of a wallet no model of tracking is about.      *)
ReceiveOther ==
    /\ feedTask = "receiving"
    /\ feedTask' = "refreshing"
    /\ UNCHANGED <<chain, store, polling, subscribed, refresh, feed, hydrating, faults>>

EndHydration ==
    /\ feedTask' = "refreshing"
    /\ hydrating' = [hydrating EXCEPT !["pumpportal"] = NoCreate]

(* The finalized create is delivered, whatever its wallet's activation.    *)
DeliverGlobal ==
    /\ feedTask = "hydrating"
    /\ Final(hydrating["pumpportal"])
    /\ Deliver({Observation(hydrating["pumpportal"])})
    /\ EndHydration
    /\ UNCHANGED <<historical, chain, polling, subscribed, refresh, feed, faults>>

(* Not finalized within a minute, or the delivery raises: not asked again. *)
GiveUpGlobal ==
    /\ Fault
    /\ feedTask = "hydrating"
    /\ EndHydration
    /\ UNCHANGED <<chain, store, polling, subscribed, refresh, feed>>

LoseFeed ==
    /\ Fault
    /\ feed # {}
    /\ feed' = {}
    /\ UNCHANGED <<chain, store, polling, subscribed, refresh, feedTask, hydrating>>

(* _poll_stream: a notification newer than the activation is hydrated ...  *)
ReceiveNative(m) ==
    /\ feedTask # "starting"
    /\ hydrating["wss"] = NoCreate
    /\ IsCreate(m)
    /\ m[1] \in subscribed
    /\ activation[m[1]] # NotActivated /\ m[2] > activation[m[1]]
    /\ hydrating' = [hydrating EXCEPT !["wss"] = m]
    /\ UNCHANGED <<chain, store, polling, subscribed, refresh, feed, feedTask, faults>>

(* ... and handed on: _read_finalized_stream_transaction returns a batch,  *)
(* which _poll_stream wraps in a batch again.                              *)
DeliverNative ==
    LET m == hydrating["wss"] IN
    /\ m # NoCreate
    /\ Final(m)
    /\ Deliver({Nested(m)})
    /\ hydrating' = [hydrating EXCEPT !["wss"] = NoCreate]
    /\ UNCHANGED <<historical, chain, polling, subscribed, refresh, feed, feedTask, faults>>

-----------------------------------------------------------------------------
(* The process dies, possibly between the commit of a launch and its event.*)
Crash ==
    /\ Fault
    /\ \/ launches' = launches
       \/ \E p \in running : \E item \in FreshItems(p) :
             /\ IsCreate(item.create) /\ Eligible(item.create)
             /\ launches' = launches \cup {item.create}
    /\ tasks' = [w \in Wallets |-> None]
    /\ running' = {}
    /\ cursor' = [p \in Tasks |-> NoCursor]
    /\ staged' = [p \in Tasks |-> {}]
    /\ firstRead' = [p \in Tasks |-> 0]
    /\ subscribed' = {}
    /\ refresh' = [r \in Refreshers |-> NoRefresh]
    /\ feed' = {} /\ feedTask' = "starting"
    /\ hydrating' = [s \in {"pumpportal", "wss"} |-> NoCreate]
    /\ UNCHANGED <<chain, tracked, activation, alerts, early, declined, historical>>

Producer ==
    \/ \E p \in Tasks : ReadHistory(p) \/ DeliverBatch(p)
    \/ \E r \in Refreshers :
          \/ CloseFeed(r) \/ \E active \in SUBSET Wallets : BeginRefresh(r, active)
          \/ ResolveSlot(r) \/ ActivateStream(r) \/ StartAddresses(r)
    \/ \E m \in Creates :
          (\E broadcast \in BOOLEAN : ReceiveGlobal(m, broadcast)) \/ ReceiveNative(m)
    \/ NoRefreshNeeded \/ ReceiveOther \/ DeliverGlobal \/ DeliverNative

Environment ==
    \/ \E w \in Wallets :
          \/ \E kind \in Kinds, announced \in BOOLEAN : Process(w, kind, announced)
          \/ Finalize(w) \/ Track(w) \/ Untrack(w)
    \/ \E p \in Tasks : DeliveryRaises(p)
    \/ \E r \in Refreshers : ResolveFails(r)
    \/ GiveUpGlobal \/ LoseFeed \/ Crash

Next == Producer \/ Environment

Spec == Init /\ [][Next]_vars

(* The polling tasks go on: a read or a delivery that fails is repeated    *)
(* after the poll interval, and is assumed not to fail for ever.           *)
FairSpec ==
    /\ Spec
    /\ \A p \in Tasks : WF_vars(ReadHistory(p)) /\ WF_vars(DeliverBatch(p))

-----------------------------------------------------------------------------
(* Properties.                                                             *)

(* handle_launch: "publish exactly one alert per new mint", whichever of   *)
(* the feeds brings it, however often, across retries, restarts and tasks  *)
(* that poll one wallet twice, and never before the launch and its outbox  *)
(* rows are durable.  The PumpPortal task may publish one more of its own, *)
(* on the notification and before anything is durable: the two together are*)
(* all that is ever published of a launch.                                 *)
OneAlertPerMint ==
    \A m \in Creates :
        /\ alerts[m] <= 1 /\ early[m] <= 1
        /\ alerts[m] = 1 => m \in launches

(* A cursor never passes a create it should have brought: what a task that *)
(* is alive, registered or not, read and acknowledged is a durable launch, *)
(* or was delivered while its wallet was not tracked, or was not later than*)
(* the wallet's activation when it was acknowledged.                       *)
AcknowledgedIsDelivered ==
    \A p \in running : \A i \in Places :
        IsCreate(<<Of(p), i>>) /\ firstRead[p] <= i /\ i <= cursor[p]
            => <<Of(p), i>> \in launches \cup declined \cup historical

(* A finalized create of a tracked wallet with a task, later than the      *)
(* activation, becomes a durable launch.  Excused: the first read took only*)
(* the newest page, the history outgrew what a read may return, the wallet *)
(* was untracked, stopped or activated anew, or the activation was set back*)
(* (by a refresh that another one overtook) after it had ruled the create  *)
(* out.                                                                    *)
Due(m) ==
    /\ IsCreate(m) /\ Final(m)
    /\ m[1] \in tracked
    /\ tasks[m[1]] # None
    /\ activation[m[1]] < m[2]
Excused(m) ==
    LET p == <<m[1], tasks[m[1]]>> IN
    \/ m \in declined \cup historical
    \/ ~Due(m)
    \/ m[2] < firstRead[p]
    \/ IF cursor[p] = NoCursor THEN m[2] \notin HeadOfHistory(final[m[1]])
                               ELSE ~WithinBounds(final[m[1]], cursor[p])
DueIsLaunched == \A m \in Creates : Due(m) ~> (m \in launches \/ Excused(m))

(* Module docstring (tracked_launch_observation.py:7): an activation cursor*)
(* is persisted "so historical launches are never alerted as the 'next     *)
(* launch'".                                                               *)
HistoricalNotAlerted ==
    [][\A m \in Creates :
          alerts'[m] > alerts[m] => activation[m[1]] < m[2]]_vars

(* _poll_address_disabled (tracked_launch_observation.py:452): "WS drives  *)
(* delivery": a create the native WebSocket task hydrated is delivered.    *)
NativeStreamDelivers ==
    [][\A m \in Creates :
          /\ hydrating["wss"] = m /\ hydrating'["wss"] = NoCreate
          /\ feedTask' # "starting"
          => m \in launches' \cup declined']_vars

(* Class docstring (tracked_launch_observation.py:86): refresh stops the   *)
(* sources of removed addresses.                                           *)
RemovedSourcesStop ==
    \A p \in running :
        (\A r \in Refreshers : refresh[r].pc = "idle") /\ feedTask = "receiving"
            => p[1] \in tracked \/ tasks[p[1]] = p[2]
=============================================================================
