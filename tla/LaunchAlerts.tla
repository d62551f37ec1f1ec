-------------------------- MODULE LaunchAlerts --------------------------
(***************************************************************************)
(* From a stored launch to the people who want to know of it: the outbox   *)
(* rows of storage/tracker.py, the EventBus (runtime/event_bus.py) and the *)
(* two consumers, the TUI (interfaces/tui/app.py) and the Discord bot      *)
(* (interfaces/discord/adapter.py).  Each runs in a process of its own with*)
(* a core of its own over one database; the launch producer, which         *)
(* TrackedLaunches models, runs in one of them, its host, and its events   *)
(* reach only the subscribers of that process.                             *)
(***************************************************************************)
EXTENDS Integers, FiniteSets

CONSTANTS
    Hosts,      \* subset of Consumers: where the producer may run
    Mints,      \* launches, numbered in the order of their creation
    MaxFaults   \* bound: crashes, failed sends, failed marks, lost logins

Consumers == {"tui", "discord"}

ASSUME AlertsAssumption ==
    /\ Hosts \subseteq Consumers /\ Hosts # {}
    /\ Mints \subseteq Nat \ {0}
    /\ MaxFaults \in Nat

VARIABLES
    host,
    \* durable: tracker_launches with tracker_alert_outbox
    launches,    \* launches, each with one row per consumer
    delivered,   \* rows with delivered = 1
    early,       \* history: launches broadcast before they were finalized
    \* the TUI process
    tui,         \* "off", "starting" (subscribed, core.start() awaited), "on"
    shown,       \* _activity_events
    unviewed,    \* history of the process: launches whose view insert raised
    told,        \* history: launches shown in a feed or announced as missed
    \* the Discord process
    discord,     \* "off", "draining", "loggingIn", "ready"
    seen,        \* _seen_event_keys
    attempts,    \* tasks of _on_tracker_event
    left,        \* records a drain has still to come to
    sending,     \* the launch a drain waits for Discord with
    posts,       \* posts of a launch by this process
    overlapped,  \* history of the process: launches two attempts were at
    posted,      \* history: launches that were posted
    due,         \* history of the process: rows undelivered at its connect()
    faults

outbox == <<launches, delivered, early>>
tuiVars == <<tui, shown, unviewed, told>>
discordVars == <<discord, seen, attempts, left, sending, posts, overlapped, posted, due>>
vars == <<host, outbox, tuiVars, discordVars, faults>>

None == 0
Drains == {"startup", "demand"}
Idle(d) == left[d] = {} /\ sending[d] = None
Attempts == [mint : Mints, event : {"early", "durable"}, sending : BOOLEAN]

TypeOK ==
    /\ host \in Hosts
    /\ launches \subseteq Mints /\ early \subseteq Mints
    /\ delivered \in [Consumers -> SUBSET launches]
    /\ tui \in {"off", "starting", "on"}
    /\ shown \subseteq Mints /\ unviewed \subseteq Mints /\ told \subseteq Mints
    /\ discord \in {"off", "draining", "loggingIn", "ready"}
    /\ seen \subseteq Mints
    /\ attempts \subseteq Attempts
    /\ left \in [Drains -> SUBSET launches]
    /\ sending \in [Drains -> Mints \cup {None}]
    /\ posts \in [Mints -> Nat]
    /\ overlapped \subseteq Mints /\ posted \subseteq Mints /\ due \subseteq Mints
    /\ faults \in 0 .. MaxFaults

NoPosts == [m \in Mints |-> 0]

Init ==
    /\ host \in Hosts
    /\ launches = {} /\ early = {}
    /\ delivered = [c \in Consumers |-> {}]
    /\ tui = "off" /\ shown = {} /\ unviewed = {} /\ told = {}
    /\ discord = "off" /\ seen = {} /\ attempts = {}
    /\ left = [d \in Drains |-> {}] /\ sending = [d \in Drains |-> None]
    /\ posts = NoPosts /\ overlapped = {} /\ posted = {} /\ due = {}
    /\ faults = 0

Fault == faults < MaxFaults /\ faults' = faults + 1

(* get_undelivered_alerts.                                                 *)
Undelivered(c, rows) == rows \ delivered[c]

(* Mutant: a row that is not there is inserted.                            *)
MarkUpserts(c, ms, rows) ==
    delivered' = [delivered EXCEPT ![c] = @ \cup ms]

(* mark_alerts_delivered: an update of the rows there are.                 *)
Mark(c, ms, rows) ==
    delivered' = [delivered EXCEPT ![c] = @ \cup (ms \cap rows)]

-----------------------------------------------------------------------------
(* The producer publishes LaunchDetected in its host.                      *)

(* Mutant: a launch the feed has already is passed over.                   *)
TuiHandlesNew(m) ==
    /\ host = "tui"
    /\ shown' = shown \cup {m}
    /\ told' = told \cup {m}
    /\ Mark("tui", {m} \ shown, launches')
    /\ UNCHANGED <<tui, unviewed, discordVars, faults>>

(* _on_domain_event, called inline: a launch of the feed is only marked,   *)
(* another is inserted and marked.                                         *)
TuiHandles(m) ==
    /\ host = "tui"
    /\ shown' = shown \cup {m}
    /\ told' = told \cup {m}
    /\ Mark("tui", {m}, launches')
    /\ UNCHANGED <<tui, unviewed, discordVars, faults>>

(* The insert into the view raises: the bus logs it, the row stays.        *)
TuiHandlerRaises(m) ==
    /\ Fault
    /\ host = "tui" /\ m \notin shown
    /\ unviewed' = unviewed \cup {m}
    /\ UNCHANGED <<tui, shown, told, delivered, discordVars>>

(* _on_tracker_event is a coroutine: the bus makes it a background task.   *)
DiscordTask(m, event) ==
    /\ host = "discord"
    /\ attempts' = attempts \cup {[mint |-> m, event |-> event, sending |-> FALSE]}
    /\ UNCHANGED <<tuiVars, delivered, discord, seen, left, sending, posts,
                   overlapped, posted, due, faults>>

Publish(m, event) ==
    TuiHandles(m) \/ TuiHandlerRaises(m) \/ DiscordTask(m, event)

HostIsUp == IF host = "tui" THEN tui # "off" ELSE discord # "off"

(* _poll_pumpportal announces a create before it is finalized.             *)
AnnounceEarly(m) ==
    /\ HostIsUp
    /\ m \notin launches \cup early
    /\ early' = early \cup {m}
    /\ launches' = launches
    /\ Publish(m, "early")
    /\ UNCHANGED host

(* Launches are created in the order of their numbers.                     *)
Store(m) ==
    /\ m \notin launches
    /\ \A n \in Mints : n < m => n \in launches
    /\ launches' = launches \cup {m}

(* handle_launch: the launch with its rows, then the event.                *)
Launch(m) ==
    /\ HostIsUp
    /\ Store(m)
    /\ Publish(m, "durable")
    /\ UNCHANGED <<host, early>>

(* A process that ends may have stored a launch and not published it.      *)
MayStore(process) ==
    \/ launches' = launches
    \/ host = process /\ \E m \in Mints : Store(m)

-----------------------------------------------------------------------------
(* The TUI.                                                                *)

(* on_mount subscribes before core.start() is awaited.                     *)
StartTui ==
    /\ tui = "off"
    /\ tui' = "starting"
    /\ UNCHANGED <<host, outbox, shown, unviewed, told, discordVars, faults>>

(* _drain_tui_outbox: what is left is acknowledged with one notification.  *)
DrainTui ==
    /\ tui = "starting"
    /\ tui' = "on"
    /\ Mark("tui", launches, launches)
    /\ told' = told \cup Undelivered("tui", launches)
    /\ unviewed' = {}
    /\ UNCHANGED <<host, launches, early, shown, discordVars, faults>>

TuiDies ==
    /\ Fault
    /\ tui # "off"
    /\ tui' = "off" /\ shown' = {} /\ unviewed' = {}
    /\ MayStore("tui")
    /\ UNCHANGED <<host, delivered, early, told, discordVars>>

-----------------------------------------------------------------------------
(* The Discord bot.                                                        *)

(* connect(): subscribe, the startup drain, then the login.                *)
ConnectDiscord ==
    /\ discord = "off"
    /\ discord' = "draining"
    /\ left' = [left EXCEPT !["startup"] = Undelivered("discord", launches)]
    /\ due' = Undelivered("discord", launches)
    /\ UNCHANGED <<host, outbox, tuiVars, seen, attempts, sending, posts, overlapped,
                   posted, faults>>

StartBot ==
    /\ discord = "draining"
    /\ Idle("startup")
    /\ discord' = "loggingIn"
    /\ UNCHANGED <<host, outbox, tuiVars, seen, attempts, left, sending, posts,
                   overlapped, posted, due, faults>>

(* on_ready: the client's caches are filled, get_channel finds the channel.*)
Ready ==
    /\ discord = "loggingIn"
    /\ discord' = "ready"
    /\ UNCHANGED <<host, outbox, tuiVars, seen, attempts, left, sending, posts,
                   overlapped, posted, due, faults>>

ChannelIsKnown == discord = "ready"

DiscordDies ==
    /\ Fault
    /\ discord # "off"
    /\ discord' = "off" /\ seen' = {} /\ attempts' = {}
    /\ left' = [d \in Drains |-> {}] /\ sending' = [d \in Drains |-> None]
    /\ posts' = NoPosts /\ overlapped' = {} /\ due' = {}
    /\ MayStore("discord")
    /\ UNCHANGED <<host, delivered, early, tuiVars, posted>>

(* A send begins, perhaps with another attempt at the launch still past its*)
(* check and waiting for Discord.                                          *)
BeginSend(m) ==
    LET busy == \/ \E a \in attempts : a.mint = m /\ a.sending
                \/ \E d \in Drains : sending[d] = m
    IN  overlapped' = IF busy THEN overlapped \cup {m} ELSE overlapped

(* Mutant: the key is not added.                                           *)
EndSendUnseen(m) ==
    /\ posts' = [posts EXCEPT ![m] = @ + 1]
    /\ posted' = posted \cup {m}
    /\ seen' = seen
    /\ \/ Mark("discord", {m}, launches) /\ UNCHANGED faults
       \/ Fault /\ UNCHANGED delivered

(* The post is in the channel; the row is marked, if there is one and the  *)
(* update does not fail (its error is suppressed); the key is added.       *)
EndSend(m) ==
    /\ posts' = [posts EXCEPT ![m] = @ + 1]
    /\ posted' = posted \cup {m}
    /\ seen' = seen \cup {m}
    /\ \/ Mark("discord", {m}, launches) /\ UNCHANGED faults
       \/ Fault /\ UNCHANGED delivered

(* _on_tracker_event up to its await: a launch already seen is passed over,*)
(* without a channel send() raises and the bus logs it.                    *)
StartAttempt(a) ==
    /\ a \in attempts /\ ~a.sending
    /\ IF a.mint \in seen \/ ~ChannelIsKnown
       THEN attempts' = attempts \ {a} /\ UNCHANGED overlapped
       ELSE /\ attempts' = (attempts \ {a}) \cup {[mint |-> a.mint, event |-> a.event,
                                                  sending |-> TRUE]}
            /\ BeginSend(a.mint)
    /\ UNCHANGED <<host, outbox, tuiVars, discord, seen, left, sending, posts, posted,
                   due, faults>>

EndAttempt(a) ==
    /\ a \in attempts /\ a.sending
    /\ attempts' = attempts \ {a}
    /\ EndSend(a.mint)
    /\ UNCHANGED <<host, launches, early, tuiVars, discord, left, sending, overlapped,
                   due>>

AttemptFails(a) ==
    /\ Fault
    /\ a \in attempts /\ a.sending
    /\ attempts' = attempts \ {a}
    /\ UNCHANGED <<host, outbox, tuiVars, discord, seen, left, sending, posts,
                   overlapped, posted, due>>

(* _drain_discord_outbox, record by record, oldest first.  Asked for from  *)
(* outside, it runs beside everything else.                                *)
DemandDrain ==
    /\ discord # "off"
    /\ Idle("demand")
    /\ Undelivered("discord", launches) # {}
    /\ left' = [left EXCEPT !["demand"] = Undelivered("discord", launches)]
    /\ UNCHANGED <<host, outbox, tuiVars, discord, seen, attempts, sending, posts,
                   overlapped, posted, due, faults>>

NextRecord(d, m) ==
    /\ sending[d] = None
    /\ m \in left[d]
    /\ \A n \in left[d] : m <= n

DrainSeen(d, m) ==
    /\ NextRecord(d, m)
    /\ m \in seen
    /\ left' = [left EXCEPT ![d] = @ \ {m}]
    /\ Mark("discord", {m}, launches)
    /\ UNCHANGED <<host, launches, early, tuiVars, discord, seen, attempts, sending,
                   posts, overlapped, posted, due, faults>>

(* Mutant: a record without a channel is marked all the same.              *)
DrainSkipMarked(d, m) ==
    /\ NextRecord(d, m)
    /\ m \notin seen /\ ~ChannelIsKnown
    /\ left' = [left EXCEPT ![d] = @ \ {m}]
    /\ Mark("discord", {m}, launches)
    /\ UNCHANGED <<host, launches, early, tuiVars, discord, seen, attempts, sending,
                   posts, overlapped, posted, due, faults>>

DrainSkip(d, m) ==
    /\ NextRecord(d, m)
    /\ m \notin seen /\ ~ChannelIsKnown
    /\ left' = [left EXCEPT ![d] = @ \ {m}]
    /\ UNCHANGED <<host, outbox, tuiVars, discord, seen, attempts, sending, posts,
                   overlapped, posted, due, faults>>

DrainSend(d, m) ==
    /\ NextRecord(d, m)
    /\ m \notin seen /\ ChannelIsKnown
    /\ left' = [left EXCEPT ![d] = @ \ {m}]
    /\ sending' = [sending EXCEPT ![d] = m]
    /\ BeginSend(m)
    /\ UNCHANGED <<host, outbox, tuiVars, discord, seen, attempts, posts, posted, due,
                   faults>>

DrainSent(d) ==
    /\ sending[d] # None
    /\ EndSend(sending[d])
    /\ sending' = [sending EXCEPT ![d] = None]
    /\ UNCHANGED <<host, launches, early, tuiVars, discord, attempts, left, overlapped,
                   due>>

DrainSendFails(d) ==
    /\ Fault
    /\ sending[d] # None
    /\ sending' = [sending EXCEPT ![d] = None]
    /\ UNCHANGED <<host, outbox, tuiVars, discord, seen, attempts, left, posts,
                   overlapped, posted, due>>

-----------------------------------------------------------------------------
Drain(d) ==
    \/ \E m \in Mints : DrainSeen(d, m) \/ DrainSkip(d, m) \/ DrainSend(d, m)
    \/ DrainSent(d)

Attempt(a) == StartAttempt(a) \/ EndAttempt(a)

Next ==
    \/ \E m \in Mints : AnnounceEarly(m) \/ Launch(m)
    \/ StartTui \/ DrainTui \/ TuiDies
    \/ ConnectDiscord \/ StartBot \/ Ready \/ DiscordDies
    \/ \E a \in Attempts : Attempt(a) \/ AttemptFails(a)
    \/ \E d \in Drains : Drain(d) \/ DrainSendFails(d)
    \/ DemandDrain

Spec == Init /\ [][Next]_vars

-----------------------------------------------------------------------------
(* Properties.                                                             *)

(* A row counts as delivered only when somebody could see its launch: it   *)
(* was posted in the channel, shown in a live feed, or announced as missed.*)
DeliveredWasSeen ==
    /\ delivered["discord"] \subseteq posted
    /\ delivered["tui"] \subseteq told

(* A launch is posted once by a run of the bot, and not again by a later   *)
(* one once it is marked as delivered.  The key is checked before the await*)
(* and added after it: only two attempts at a launch (the early and the    *)
(* durable event, a drain) that waited for Discord at once break this.     *)
PostedOnce ==
    [][\A m \in Mints :
          posts'[m] > posts[m] =>
              \/ posts[m] = 0 /\ m \notin delivered["discord"]
              \/ m \in overlapped]_vars

(* Once the TUI that hosts the producer has drained its outbox, no launch  *)
(* waits there unnoticed: subscribing, starting the producer and draining  *)
(* leave no gap.                                                           *)
TuiOutboxDrained ==
    tui = "on" /\ host = "tui" => launches \ delivered["tui"] \subseteq unviewed

(* DiscordAdapter.connect (interfaces/discord/adapter.py:726): "startup    *)
(* drain handles alerts produced while Discord was offline".               *)
StartupDrainDelivers == discord = "ready" => due \subseteq posted
=============================================================================
