----------------------- MODULE LaunchAlertsProofs -----------------------
(***************************************************************************)
(* LaunchAlerts for any launches and faults.  What makes a post unique is  *)
(* split into what the keys say (KeyInv) and who is sending (SenderInv).   *)
(***************************************************************************)
EXTENDS LaunchAlerts, TLAPS

(* An attempt at a launch, or a drain, is past its check and waits for     *)
(* Discord; it is still before its check.                                  *)
AttemptAt(a, m) == a \in attempts /\ a.mint = m /\ a.sending
DrainAt(d, m) == d \in Drains /\ sending[d] = m
Sending(m) == (\E a \in attempts : AttemptAt(a, m)) \/ (\E d \in Drains : DrainAt(d, m))
Waiting(m) == (\E a \in attempts : a.mint = m) \/ (\E d \in Drains : m \in left[d])

Alone(m) ==
    /\ \A a, b \in attempts : AttemptAt(a, m) /\ AttemptAt(b, m) => a = b
    /\ \A d, e \in Drains : DrainAt(d, m) /\ DrainAt(e, m) => d = e
    /\ \A a \in attempts, d \in Drains : ~(AttemptAt(a, m) /\ DrainAt(d, m))

(* A key is there of what this run posted, and of what is marked and has   *)
(* still an attempt to come.                                               *)
KeyInv ==
    /\ seen \subseteq posted
    /\ \A m \in Mints : posts[m] > 0 => m \in seen
    /\ \A m \in Mints :
          m \in delivered["discord"] /\ (Sending(m) \/ Waiting(m)) => m \in seen

(* Unless two attempts overlapped, the one that waits for Discord is alone *)
(* and its key not there.                                                  *)
SenderInv ==
    \A m \in Mints :
        Sending(m) /\ m \notin overlapped => m \notin seen /\ Alone(m)

DiscordAttempt == \E a \in Attempts : Attempt(a) \/ AttemptFails(a)
DiscordDrain == DemandDrain \/ \E d \in Drains : Drain(d) \/ DrainSendFails(d)
TuiStep == StartTui \/ DrainTui \/ TuiDies
LoginStep == ConnectDiscord \/ StartBot \/ Ready
Publication == \E m \in Mints : AnnounceEarly(m) \/ Launch(m)

LEMMA Steps ==
  Next <=> \/ Publication \/ TuiStep \/ LoginStep \/ DiscordDies
           \/ DiscordAttempt \/ DiscordDrain
BY DEF Next, Publication, TuiStep, LoginStep, DiscordAttempt, DiscordDrain

-----------------------------------------------------------------------------
(* Types.                                                                  *)

LEMMA NoneIsNoMint == None \notin Mints
BY AlertsAssumption DEF None

(* A mark leaves the marked rows of launches.                              *)
LEMMA MarkTypes ==
  ASSUME TypeOK, NEW c, NEW ms, NEW rows, Mark(c, ms, rows), launches \subseteq rows
  PROVE  /\ delivered' \in [Consumers -> SUBSET rows]
         /\ \A x \in Consumers :
               delivered'[x] = IF x = c THEN delivered[x] \cup (ms \cap rows)
                               ELSE delivered[x]
BY DEF TypeOK, Mark

LEMMA PublishTypes ==
  ASSUME TypeOK, NEW m \in Mints, NEW event \in {"early", "durable"},
         launches \subseteq launches', launches' \subseteq Mints, Publish(m, event)
  PROVE  /\ delivered' \in [Consumers -> SUBSET launches']
         /\ tui' = tui /\ shown' \subseteq Mints /\ unviewed' \subseteq Mints
         /\ told' \subseteq Mints
         /\ discord' = discord /\ seen' = seen /\ attempts' \subseteq Attempts
         /\ left' = left /\ sending' = sending /\ posts' = posts /\ overlapped' = overlapped
         /\ posted' = posted /\ due' = due /\ faults' \in 0 .. MaxFaults
         /\ delivered'["discord"] = delivered["discord"]
<1>d. delivered \in [Consumers -> SUBSET launches']
  BY DEF TypeOK
<1>1. CASE TuiHandles(m)
  <2>1. delivered' \in [Consumers -> SUBSET launches']
        /\ delivered'["discord"] = delivered["discord"]
    BY <1>1 DEF TuiHandles, TypeOK, Mark, Consumers
  <2>. QED  BY <1>1, <2>1 DEF TuiHandles, TypeOK, discordVars
<1>2. CASE TuiHandlerRaises(m)
  <2>1. unviewed' \subseteq Mints /\ faults' \in 0 .. MaxFaults
    BY <1>2, AlertsAssumption DEF TuiHandlerRaises, Fault, TypeOK
  <2>2. delivered' \in [Consumers -> SUBSET launches']
    BY <1>2, <1>d DEF TuiHandlerRaises
  <2>. QED  BY <1>2, <2>1, <2>2 DEF TuiHandlerRaises, TypeOK, discordVars
<1>3. CASE DiscordTask(m, event)
  <2>0. [mint |-> m, event |-> event, sending |-> FALSE] \in Attempts
    BY DEF Attempts
  <2>1. attempts' \subseteq Attempts
    BY <1>3, <2>0 DEF DiscordTask, TypeOK
  <2>2. delivered' \in [Consumers -> SUBSET launches']
    BY <1>3, <1>d DEF DiscordTask
  <2>. QED  BY <1>3, <2>1, <2>2 DEF DiscordTask, TypeOK, tuiVars
<1>. QED  BY <1>1, <1>2, <1>3 DEF Publish

LEMMA EndSendTypes ==
  ASSUME TypeOK, NEW m \in Mints, EndSend(m), launches' = launches
  PROVE  /\ delivered' \in [Consumers -> SUBSET launches]
         /\ posts' \in [Mints -> Nat]
         /\ seen' = seen \cup {m} /\ posted' = posted \cup {m}
         /\ posts'[m] = posts[m] + 1
         /\ \A n \in Mints \ {m} : posts'[n] = posts[n]
         /\ delivered'["tui"] = delivered["tui"]
         /\ delivered'["discord"] \subseteq delivered["discord"] \cup {m}
         /\ faults' \in 0 .. MaxFaults
<1>1. posts' \in [Mints -> Nat] /\ posts'[m] = posts[m] + 1
      /\ \A n \in Mints \ {m} : posts'[n] = posts[n]
  BY DEF EndSend, TypeOK
<1>2. CASE Mark("discord", {m}, launches) /\ UNCHANGED faults
  BY <1>1, <1>2 DEF EndSend, TypeOK, Mark, Consumers
<1>3. CASE Fault /\ UNCHANGED delivered
  BY <1>1, <1>3, AlertsAssumption DEF EndSend, TypeOK, Fault, Consumers
<1>. QED  BY <1>2, <1>3 DEF EndSend

LEMMA TypeInit == Init => TypeOK
BY AlertsAssumption DEF Init, TypeOK, NoPosts, None

LEMMA TypePublication ==
  ASSUME TypeOK, NEW m \in Mints, AnnounceEarly(m) \/ Launch(m)  PROVE TypeOK'
<1>1. CASE AnnounceEarly(m)
  <2>1. launches' = launches /\ Publish(m, "early") /\ launches \subseteq Mints
    BY <1>1 DEF AnnounceEarly, TypeOK
  <2>. QED  BY <1>1, <2>1, PublishTypes DEF AnnounceEarly, TypeOK
<1>2. CASE Launch(m)
  <2>1. launches' = launches \cup {m} /\ Publish(m, "durable")
    BY <1>2 DEF Launch, Store
  <2>2. launches \subseteq launches' /\ launches' \subseteq Mints
    BY <2>1 DEF TypeOK
  <2>3. left' = left
    BY <2>1, <2>2, PublishTypes
  <2>4. left' \in [Drains -> SUBSET launches']
    BY <2>2, <2>3 DEF TypeOK
  <2>. QED  BY <1>2, <2>1, <2>2, <2>4, PublishTypes DEF Launch, TypeOK
<1>. QED  BY <1>1, <1>2

LEMMA TypeTui == ASSUME TypeOK, TuiStep  PROVE TypeOK'
<1>1. CASE StartTui
  BY <1>1 DEF StartTui, TypeOK, outbox, discordVars
<1>2. CASE DrainTui
  <2>1. delivered' \in [Consumers -> SUBSET launches]
    BY <1>2, MarkTypes DEF DrainTui
  <2>. QED  BY <1>2, <2>1 DEF DrainTui, TypeOK, Undelivered, discordVars
<1>3. CASE TuiDies
  <2>1. launches \subseteq launches' /\ launches' \subseteq Mints
    BY <1>3 DEF TuiDies, MayStore, Store, TypeOK
  <2>2. /\ delivered' \in [Consumers -> SUBSET launches']
        /\ left' \in [Drains -> SUBSET launches']
    BY <1>3, <2>1 DEF TuiDies, TypeOK, discordVars
  <2>. QED  BY <1>3, <2>1, <2>2, AlertsAssumption
            DEF TuiDies, TypeOK, discordVars, Fault
<1>. QED  BY <1>1, <1>2, <1>3 DEF TuiStep

LEMMA TypeLogin == ASSUME TypeOK, LoginStep \/ DiscordDies  PROVE TypeOK'
<1>1. CASE ConnectDiscord
  BY <1>1 DEF ConnectDiscord, TypeOK, Undelivered, outbox, tuiVars, Drains, Consumers
<1>2. CASE StartBot \/ Ready
  BY <1>2 DEF StartBot, Ready, TypeOK, outbox, tuiVars
<1>3. CASE DiscordDies
  <2>1. launches \subseteq launches' /\ launches' \subseteq Mints
    BY <1>3 DEF DiscordDies, MayStore, Store, TypeOK
  <2>2. delivered' \in [Consumers -> SUBSET launches']
    BY <1>3, <2>1 DEF DiscordDies, TypeOK
  <2>. QED  BY <1>3, <2>1, <2>2, AlertsAssumption
            DEF DiscordDies, TypeOK, Fault, NoPosts, None, tuiVars
<1>. QED  BY <1>1, <1>2, <1>3 DEF LoginStep

LEMMA TypeAttempt == ASSUME TypeOK, DiscordAttempt  PROVE TypeOK'
<1>. SUFFICES ASSUME NEW a \in Attempts, Attempt(a) \/ AttemptFails(a)  PROVE TypeOK'
  BY DEF DiscordAttempt
<1>m. a.mint \in Mints
  BY DEF Attempts
<1>1. CASE StartAttempt(a)
  <2>1. [mint |-> a.mint, event |-> a.event, sending |-> TRUE] \in Attempts
    BY DEF Attempts
  <2>2. attempts' \subseteq Attempts /\ overlapped' \subseteq Mints
    BY <1>1, <1>m, <2>1 DEF StartAttempt, BeginSend, TypeOK
  <2>. QED  BY <1>1, <2>2 DEF StartAttempt, TypeOK, outbox, tuiVars
<1>2. CASE EndAttempt(a)
  BY <1>2, <1>m, EndSendTypes DEF EndAttempt, TypeOK, tuiVars
<1>3. CASE AttemptFails(a)
  BY <1>3, AlertsAssumption DEF AttemptFails, Fault, TypeOK, outbox, tuiVars
<1>. QED  BY <1>1, <1>2, <1>3 DEF Attempt

LEMMA TypeDrain == ASSUME TypeOK, DiscordDrain  PROVE TypeOK'
<1>1. CASE DemandDrain
  BY <1>1 DEF DemandDrain, TypeOK, Undelivered, outbox, tuiVars, Drains, Consumers
<1>2. ASSUME NEW d \in Drains, NEW m \in Mints,
             DrainSeen(d, m) \/ DrainSkip(d, m) \/ DrainSend(d, m)
      PROVE  TypeOK'
  <2>1. CASE DrainSeen(d, m)
    BY <2>1, MarkTypes DEF DrainSeen, TypeOK, tuiVars
  <2>2. CASE DrainSkip(d, m)
    BY <2>2 DEF DrainSkip, TypeOK, outbox, tuiVars
  <2>3. CASE DrainSend(d, m)
    BY <2>3 DEF DrainSend, BeginSend, TypeOK, outbox, tuiVars
  <2>. QED  BY <1>2, <2>1, <2>2, <2>3
<1>3. ASSUME NEW d \in Drains, DrainSent(d)  PROVE TypeOK'
  <2>1. sending[d] \in Mints
    BY <1>3 DEF DrainSent, TypeOK
  <2>2. launches' = launches
    BY <1>3 DEF DrainSent
  <2>. QED  BY <1>3, <2>1, <2>2, EndSendTypes DEF DrainSent, TypeOK, tuiVars
<1>4. ASSUME NEW d \in Drains, DrainSendFails(d)  PROVE TypeOK'
  BY <1>4, AlertsAssumption DEF DrainSendFails, Fault, TypeOK, outbox, tuiVars
<1>. QED  BY <1>1, <1>2, <1>3, <1>4 DEF DiscordDrain, Drain

LEMMA TypeStep == TypeOK /\ [Next]_vars => TypeOK'
<1>. SUFFICES ASSUME TypeOK, [Next]_vars  PROVE TypeOK'
  OBVIOUS
<1>1. CASE Publication
  BY <1>1, TypePublication DEF Publication
<1>2. CASE UNCHANGED vars
  BY <1>2 DEF TypeOK, vars, outbox, tuiVars, discordVars
<1>. QED  BY <1>1, <1>2, TypeTui, TypeLogin, TypeAttempt, TypeDrain, Steps

(* TypeOK: every variable keeps its type, whatever order the producer, the *)
(* two consumers and their deaths take.                                    *)
THEOREM TypeCorrect == Spec => []TypeOK
BY TypeInit, TypeStep, PTL DEF Spec

-----------------------------------------------------------------------------
(* Rows and screens.                                                       *)

(* The tasks the producer starts, if it runs with the bot.                 *)
LEMMA PublishKeeps ==
  ASSUME TypeOK, NEW m \in Mints, NEW event \in {"early", "durable"}, Publish(m, event)
  PROVE  /\ delivered'["discord"] = delivered["discord"]
         /\ delivered'["tui"] \ delivered["tui"] \subseteq told'
         /\ told \subseteq told' /\ unviewed \subseteq unviewed'
         /\ UNCHANGED <<tui, seen, left, sending, posts, overlapped, posted>>
         /\ \/ attempts' = attempts
            \/ attempts' = attempts \cup
                  {[mint |-> m, event |-> event, sending |-> FALSE]}
         /\ host = "tui" =>
               \/ m \in unviewed'
               \/ m \in launches' => m \in delivered'["tui"]
         /\ delivered["tui"] \subseteq delivered'["tui"]
<1>d. delivered \in [Consumers -> SUBSET launches]
  BY DEF TypeOK
<1>1. CASE TuiHandles(m)
  BY <1>1, <1>d DEF TuiHandles, Mark, discordVars, Consumers
<1>2. CASE TuiHandlerRaises(m)
  BY <1>2 DEF TuiHandlerRaises, discordVars
<1>3. CASE DiscordTask(m, event)
  BY <1>3 DEF DiscordTask, tuiVars
<1>. QED  BY <1>1, <1>2, <1>3 DEF Publish

LEMMA SeenInit == Init => DeliveredWasSeen /\ TuiOutboxDrained
BY DEF Init, DeliveredWasSeen, TuiOutboxDrained, Consumers

LEMMA DrainedStep ==
  ASSUME TypeOK, TuiOutboxDrained, [Next]_vars  PROVE TuiOutboxDrained'
<1>d. delivered \in [Consumers -> SUBSET launches]
  BY DEF TypeOK
<1>1. ASSUME NEW m \in Mints, AnnounceEarly(m) \/ Launch(m)  PROVE TuiOutboxDrained'
  <2>1. CASE AnnounceEarly(m)
    BY <2>1, PublishKeeps DEF AnnounceEarly, TuiOutboxDrained
  <2>2. CASE Launch(m)
    <3>1. Publish(m, "durable") /\ launches' = launches \cup {m} /\ host' = host
      BY <2>2 DEF Launch, Store
    <3>. QED  BY <3>1, PublishKeeps DEF TuiOutboxDrained
  <2>. QED  BY <1>1, <2>1, <2>2
<1>2. CASE TuiStep
  <2>1. CASE StartTui \/ TuiDies
    BY <2>1 DEF StartTui, TuiDies, TuiOutboxDrained
  <2>2. CASE DrainTui
    BY <2>2, <1>d DEF DrainTui, TuiOutboxDrained, Mark, Consumers
  <2>. QED  BY <1>2, <2>1, <2>2 DEF TuiStep
<1>3. CASE LoginStep
  BY <1>3 DEF LoginStep, ConnectDiscord, StartBot, Ready, TuiOutboxDrained, outbox, tuiVars
<1>4. CASE DiscordDies
  BY <1>4 DEF DiscordDies, MayStore, TuiOutboxDrained, tuiVars
<1>5. CASE DiscordAttempt
  <2>1. ASSUME NEW a \in Attempts, EndAttempt(a)  PROVE TuiOutboxDrained'
    BY <2>1, <1>d DEF EndAttempt, EndSend, Mark, TuiOutboxDrained, tuiVars, Consumers
  <2>2. ASSUME NEW a \in Attempts, StartAttempt(a) \/ AttemptFails(a)
        PROVE  TuiOutboxDrained'
    BY <2>2 DEF StartAttempt, AttemptFails, TuiOutboxDrained, outbox, tuiVars
  <2>. QED  BY <1>5, <2>1, <2>2 DEF DiscordAttempt, Attempt
<1>6. CASE DiscordDrain
  <2>1. ASSUME NEW d \in Drains, NEW m \in Mints, DrainSeen(d, m)
        PROVE  TuiOutboxDrained'
    BY <2>1, <1>d DEF DrainSeen, Mark, TuiOutboxDrained, tuiVars, Consumers
  <2>2. ASSUME NEW d \in Drains, DrainSent(d)  PROVE TuiOutboxDrained'
    BY <2>2, <1>d DEF DrainSent, EndSend, Mark, TuiOutboxDrained, tuiVars, Consumers
  <2>3. ASSUME NEW d \in Drains, NEW m \in Mints, DrainSkip(d, m) \/ DrainSend(d, m)
        PROVE  TuiOutboxDrained'
    BY <2>3 DEF DrainSkip, DrainSend, TuiOutboxDrained, outbox, tuiVars
  <2>4. CASE DemandDrain
    BY <2>4 DEF DemandDrain, TuiOutboxDrained, outbox, tuiVars
  <2>5. ASSUME NEW d \in Drains, DrainSendFails(d)  PROVE TuiOutboxDrained'
    BY <2>5 DEF DrainSendFails, TuiOutboxDrained, outbox, tuiVars
  <2>. QED  BY <1>6, <2>1, <2>2, <2>3, <2>4, <2>5 DEF DiscordDrain, Drain
<1>7. CASE UNCHANGED vars
  BY <1>7 DEF vars, outbox, tuiVars, TuiOutboxDrained
<1>. QED  BY <1>1, <1>2, <1>3, <1>4, <1>5, <1>6, <1>7, Steps DEF Publication

(* TuiOutboxDrained: once the TUI that hosts the producer is on, every row *)
(* of its outbox is marked or was passed to a view that refused it.        *)
THEOREM TuiOutboxDrainedCorrect == Spec => []TuiOutboxDrained
<1>1. TypeOK /\ TuiOutboxDrained /\ [Next]_vars => TuiOutboxDrained'
  BY DrainedStep
<1>. QED  BY <1>1, SeenInit, TypeCorrect, PTL DEF Spec

-----------------------------------------------------------------------------
(* Keys and senders.                                                       *)

Keys == KeyInv /\ SenderInv

LEMMA Quiet ==
  ASSUME Keys, UNCHANGED <<seen, attempts, left, sending, posts, overlapped, posted>>,
         delivered'["discord"] = delivered["discord"]
  PROVE  Keys'
BY DEF Keys, KeyInv, SenderInv, Sending, Waiting, Alone, AttemptAt, DrainAt

LEMMA InitKeys == Init => Keys
BY NoneIsNoMint
   DEF Init, Keys, KeyInv, SenderInv, Sending, Waiting, AttemptAt, DrainAt, NoPosts,
       Consumers

(* A task that is started has not passed its check.                        *)
LEMMA TaskKeys ==
  ASSUME TypeOK, Keys, NEW m \in Mints, NEW event \in {"early", "durable"},
         Publish(m, event), m \notin launches
  PROVE  Keys'
<1>. DEFINE new == [mint |-> m, event |-> event, sending |-> FALSE]
<1>1. /\ delivered'["discord"] = delivered["discord"]
      /\ UNCHANGED <<seen, left, sending, posts, overlapped, posted>>
      /\ attempts' = attempts \/ attempts' = attempts \cup {new}
  BY PublishKeeps
<1>2. CASE attempts' = attempts
  BY <1>1, <1>2, Quiet
<1>3. CASE attempts' = attempts \cup {new}
  <2>1. m \notin delivered["discord"]
    BY DEF TypeOK, Consumers
  <2>2. new.mint = m /\ new.sending = FALSE
    OBVIOUS
  <2>. HIDE DEF new
  <2>3. \A a : \A n \in Mints : AttemptAt(a, n)' <=> AttemptAt(a, n)
    BY <1>3, <2>2 DEF AttemptAt
  <2>4. \A d : \A n \in Mints : DrainAt(d, n)' <=> DrainAt(d, n)
    BY <1>1 DEF DrainAt
  <2>5. \A n \in Mints : Sending(n)' <=> Sending(n)
    BY <2>3, <2>4, <1>3 DEF Sending, AttemptAt
  <2>6. \A n \in Mints \ {m} : Waiting(n)' => Waiting(n)
    BY <1>1, <1>3, <2>2 DEF Waiting
  <2>7. KeyInv'
    BY <1>1, <2>1, <2>5, <2>6 DEF Keys, KeyInv
  <2>8. \A n \in Mints : Alone(n) => Alone(n)'
    BY <2>3, <2>4, <1>3 DEF Alone, AttemptAt
  <2>9. SenderInv'
    BY <1>1, <2>5, <2>8 DEF Keys, SenderInv
  <2>. QED  BY <2>7, <2>9 DEF Keys
<1>. QED  BY <1>1, <1>2, <1>3

(* A drain that is begun takes rows that are not marked.                   *)
LEMMA ListedKeys ==
  ASSUME TypeOK, Keys, NEW d \in Drains,
         left' = [left EXCEPT ![d] = Undelivered("discord", launches)],
         UNCHANGED <<delivered, seen, attempts, sending, posts, overlapped, posted>>
  PROVE  Keys'
<1>1. \A n \in Mints : Sending(n)' <=> Sending(n)
  BY DEF Sending, AttemptAt, DrainAt
<1>2. \A n \in Mints : Waiting(n)' => Waiting(n) \/ n \notin delivered["discord"]
  BY DEF Waiting, Undelivered, TypeOK
<1>3. KeyInv'
  BY <1>1, <1>2 DEF Keys, KeyInv
<1>4. SenderInv'
  BY <1>1 DEF Keys, SenderInv, Alone, AttemptAt, DrainAt
<1>. QED  BY <1>3, <1>4 DEF Keys

(* An attempt that ends with a post: alone, unless two overlapped.         *)
LEMMA PostKeys ==
  ASSUME TypeOK, Keys, NEW m \in Mints, EndSend(m), Sending(m), launches' = launches,
         attempts' \subseteq attempts, left' = left, overlapped' = overlapped,
         \A d \in Drains : sending'[d] \in {sending[d], None},
         m \notin overlapped => ~Sending(m)'
  PROVE  Keys'
<1>1. /\ seen' = seen \cup {m} /\ posted' = posted \cup {m}
      /\ \A n \in Mints \ {m} : posts'[n] = posts[n]
      /\ delivered'["discord"] \subseteq delivered["discord"] \cup {m}
  BY EndSendTypes
<1>2. \A n \in Mints, d \in Drains : DrainAt(d, n)' => DrainAt(d, n)
  BY NoneIsNoMint DEF DrainAt
<1>3. \A n \in Mints, a \in attempts' : AttemptAt(a, n)' => AttemptAt(a, n)
  BY DEF AttemptAt
<1>4. \A n \in Mints : Sending(n)' => Sending(n)
  BY <1>2, <1>3 DEF Sending
<1>5. \A n \in Mints : Waiting(n)' => Waiting(n)
  BY DEF Waiting
<1>6. KeyInv'
  BY <1>1, <1>4, <1>5 DEF Keys, KeyInv
<1>7. \A n \in Mints : Alone(n) => Alone(n)'
  BY <1>2, <1>3 DEF Alone
<1>8. SenderInv'
  BY <1>1, <1>4, <1>7 DEF Keys, SenderInv
<1>. QED  BY <1>6, <1>8 DEF Keys

(* An attempt that ends without one.                                       *)
LEMMA GivenUpKeys ==
  ASSUME TypeOK, Keys, attempts' \subseteq attempts,
         \A d \in Drains : left'[d] \subseteq left[d],
         \A d \in Drains : sending'[d] \in {sending[d], None},
         delivered'["discord"] \subseteq delivered["discord"] \cup seen,
         UNCHANGED <<seen, posts, overlapped, posted>>
  PROVE  Keys'
<1>2. \A n \in Mints, d \in Drains : DrainAt(d, n)' => DrainAt(d, n)
  BY NoneIsNoMint DEF DrainAt
<1>3. \A n \in Mints, a \in attempts' : AttemptAt(a, n)' => AttemptAt(a, n)
  BY DEF AttemptAt
<1>4. \A n \in Mints : Sending(n)' => Sending(n)
  BY <1>2, <1>3 DEF Sending
<1>5. \A n \in Mints : Waiting(n)' => Waiting(n)
  BY DEF Waiting
<1>6. KeyInv'
  BY <1>4, <1>5 DEF Keys, KeyInv
<1>7. \A n \in Mints : Alone(n) => Alone(n)'
  BY <1>2, <1>3 DEF Alone
<1>8. SenderInv'
  BY <1>4, <1>7 DEF Keys, SenderInv
<1>. QED  BY <1>6, <1>8 DEF Keys

(* A send that begins: the key is not there, and the launch had an attempt.*)
LEMMA AttemptBegins ==
  ASSUME TypeOK, Keys, NEW a \in Attempts, StartAttempt(a)
  PROVE  Keys'
<1>. DEFINE m == a.mint
            sent == [mint |-> a.mint, event |-> a.event, sending |-> TRUE]
<1>m. m \in Mints
  BY DEF Attempts
<1>u. UNCHANGED <<seen, left, sending, posts, posted, delivered>>
  BY DEF StartAttempt, outbox
<1>1. CASE m \in seen \/ ~ChannelIsKnown
  <2>1. attempts' = attempts \ {a} /\ overlapped' = overlapped
    BY <1>1 DEF StartAttempt
  <2>. QED  BY <1>u, <2>1, GivenUpKeys
<1>2. CASE ~(m \in seen \/ ~ChannelIsKnown)
  <2>1. /\ a \in attempts /\ attempts' = (attempts \ {a}) \cup {sent}
        /\ BeginSend(m) /\ m \notin seen
    BY <1>2 DEF StartAttempt
  <2>2. sent.mint = m /\ sent.sending = TRUE
    OBVIOUS
  <2>. HIDE DEF sent
  <2>3. overlapped' = IF Sending(m) THEN overlapped \cup {m} ELSE overlapped
    BY <2>1 DEF BeginSend, Sending, AttemptAt, DrainAt
  <2>4. \A n \in Mints, d \in Drains : DrainAt(d, n)' <=> DrainAt(d, n)
    BY <1>u DEF DrainAt
  <2>5. \A n \in Mints \ {m}, b \in attempts' : AttemptAt(b, n)' => AttemptAt(b, n)
    BY <2>1, <2>2 DEF AttemptAt
  <2>6. \A b \in attempts' : AttemptAt(b, m)' => b = sent \/ AttemptAt(b, m)
    BY <2>1 DEF AttemptAt
  <2>7. \A n \in Mints : Waiting(n)' => Waiting(n)
    BY <1>u, <2>1, <2>2 DEF Waiting
  <2>8. \A n \in Mints : Sending(n)' => Sending(n) \/ Waiting(n)
    BY <2>1, <2>4, <2>5 DEF Sending, Waiting, AttemptAt
  <2>9. KeyInv'
    BY <1>u, <2>7, <2>8 DEF Keys, KeyInv
  <2>10. \A n \in Mints \ {m} : Alone(n) => Alone(n)'
    BY <2>4, <2>5 DEF Alone, AttemptAt
  <2>11. \A n \in Mints \ {m} : Sending(n)' => Sending(n)
    BY <2>4, <2>5 DEF Sending, AttemptAt
  <2>12. ~Sending(m) => Alone(m)'
    BY <2>4, <2>6, <1>m DEF Sending, Alone, AttemptAt
  <2>13. SenderInv'
    BY <1>u, <2>1, <2>3, <2>10, <2>11, <2>12, <1>m DEF Keys, SenderInv
  <2>. QED  BY <2>9, <2>13 DEF Keys
<1>. QED  BY <1>1, <1>2

LEMMA DrainBegins ==
  ASSUME TypeOK, Keys, NEW d \in Drains, NEW m \in Mints, DrainSend(d, m)
  PROVE  Keys'
<1>u. UNCHANGED <<seen, attempts, posts, posted, delivered>>
  BY DEF DrainSend, outbox
<1>1. /\ m \in left[d] /\ sending[d] = None /\ m \notin seen
      /\ sending' = [sending EXCEPT ![d] = m] /\ left' = [left EXCEPT ![d] = @ \ {m}]
  BY DEF DrainSend, NextRecord
<1>2. overlapped' = IF Sending(m) THEN overlapped \cup {m} ELSE overlapped
  BY DEF DrainSend, BeginSend, Sending, AttemptAt, DrainAt
<1>3. \A n \in Mints, a \in attempts' : AttemptAt(a, n)' <=> AttemptAt(a, n)
  BY <1>u DEF AttemptAt
<1>4. \A n \in Mints \ {m}, e \in Drains : DrainAt(e, n)' => DrainAt(e, n)
  BY <1>1 DEF DrainAt, TypeOK
<1>5. \A e \in Drains : DrainAt(e, m)' => e = d \/ DrainAt(e, m)
  BY <1>1 DEF DrainAt, TypeOK
<1>6. \A n \in Mints : Waiting(n)' => Waiting(n)
  BY <1>u, <1>1 DEF Waiting, TypeOK
<1>7. \A n \in Mints \ {m} : Sending(n)' => Sending(n)
  BY <1>u, <1>3, <1>4 DEF Sending
<1>8. Waiting(m)
  BY <1>1 DEF Waiting
<1>9. KeyInv'
  BY <1>u, <1>6, <1>7, <1>8 DEF Keys, KeyInv
<1>10. \A n \in Mints \ {m} : Alone(n) => Alone(n)'
  BY <1>u, <1>3, <1>4 DEF Alone
<1>11. ~Sending(m) => Alone(m)'
  BY <1>u, <1>3, <1>5 DEF Sending, Alone
<1>12. SenderInv'
  BY <1>u, <1>1, <1>2, <1>7, <1>10, <1>11 DEF Keys, SenderInv
<1>. QED  BY <1>9, <1>12 DEF Keys

LEMMA AttemptEnds ==
  ASSUME TypeOK, Keys, NEW a \in Attempts, EndAttempt(a)
  PROVE  /\ Keys'
         /\ a.mint \in Mints /\ Sending(a.mint) /\ EndSend(a.mint)
<1>1. a.mint \in Mints
  BY DEF Attempts
<1>2. /\ AttemptAt(a, a.mint) /\ EndSend(a.mint) /\ attempts' = attempts \ {a}
      /\ UNCHANGED <<launches, left, sending, overlapped>>
  BY DEF EndAttempt, AttemptAt
<1>3. Sending(a.mint)
  BY <1>2 DEF Sending, AttemptAt
<1>4. a.mint \notin overlapped => ~Sending(a.mint)'
  BY <1>1, <1>2, <1>3 DEF Keys, SenderInv, Alone, Sending, AttemptAt, DrainAt
<1>5. \A d \in Drains : sending'[d] \in {sending[d], None}
  BY <1>2
<1>6. Keys'
  BY <1>1, <1>2, <1>3, <1>4, <1>5, PostKeys
<1>. QED  BY <1>1, <1>2, <1>3, <1>6

LEMMA DrainEnds ==
  ASSUME TypeOK, Keys, NEW d \in Drains, DrainSent(d)
  PROVE  /\ Keys'
         /\ sending[d] \in Mints /\ Sending(sending[d]) /\ EndSend(sending[d])
<1>1. sending[d] \in Mints
  BY DEF DrainSent, TypeOK
<1>2. /\ DrainAt(d, sending[d]) /\ EndSend(sending[d])
      /\ sending' = [sending EXCEPT ![d] = None]
      /\ UNCHANGED <<launches, left, attempts, overlapped>>
  BY DEF DrainSent, DrainAt
<1>3. Sending(sending[d])
  BY <1>2 DEF Sending
<1>5. \A e \in Drains : sending'[e] = IF e = d THEN None ELSE sending[e]
  BY <1>2 DEF TypeOK
<1>6. ASSUME NEW m, m = sending[d], m \notin overlapped  PROVE ~Sending(m)'
  <2>1. Alone(m)
    BY <1>1, <1>3, <1>6 DEF Keys, SenderInv
  <2>2. \A e \in Drains : ~(sending'[e] = m)
    BY <1>1, <1>2, <1>5, <1>6, <2>1, NoneIsNoMint DEF Alone, DrainAt
  <2>3. \A a \in attempts : ~(a.mint = m /\ a.sending)
    BY <1>2, <1>6, <2>1 DEF Alone, AttemptAt
  <2>. QED  BY <1>2, <2>2, <2>3 DEF Sending, AttemptAt, DrainAt
<1>7. ASSUME NEW m \in Mints, m = sending[d]  PROVE Keys'
  <2>1. m \notin overlapped => ~Sending(m)'
    BY <1>6, <1>7
  <2>2. EndSend(m) /\ Sending(m) /\ attempts' \subseteq attempts /\ left' = left
        /\ launches' = launches /\ overlapped' = overlapped
    BY <1>2, <1>3, <1>7
  <2>3. \A e \in Drains : sending'[e] \in {sending[e], None}
    BY <1>5
  <2>. QED  BY <2>1, <2>2, <2>3, PostKeys
<1>. QED  BY <1>1, <1>2, <1>3, <1>7

LEMMA KeysStep == ASSUME TypeOK, Keys, [Next]_vars  PROVE Keys'
<1>1. ASSUME NEW m \in Mints, AnnounceEarly(m) \/ Launch(m)  PROVE Keys'
  BY <1>1, TaskKeys DEF AnnounceEarly, Launch, Store
<1>2. CASE TuiStep
  <2>1. delivered'["discord"] = delivered["discord"]
    BY <1>2 DEF TuiStep, StartTui, DrainTui, TuiDies, Mark, TypeOK, Consumers, outbox
  <2>. QED  BY <1>2, <2>1, Quiet DEF TuiStep, StartTui, DrainTui, TuiDies, discordVars
<1>3. CASE ConnectDiscord
  <2>1. "startup" \in Drains
    BY DEF Drains
  <2>. QED  BY <1>3, <2>1, ListedKeys DEF ConnectDiscord, outbox
<1>4. CASE StartBot \/ Ready
  BY <1>4, Quiet DEF StartBot, Ready, outbox
<1>5. CASE DiscordDies
  BY <1>5, NoneIsNoMint
     DEF DiscordDies, Keys, KeyInv, SenderInv, Sending, Waiting, AttemptAt, DrainAt,
         NoPosts
<1>6. ASSUME NEW a \in Attempts, Attempt(a) \/ AttemptFails(a)  PROVE Keys'
  <2>1. CASE AttemptFails(a)
    BY <2>1, GivenUpKeys DEF AttemptFails, outbox
  <2>. QED  BY <1>6, <2>1, AttemptBegins, AttemptEnds DEF Attempt
<1>7. CASE DemandDrain
  <2>1. "demand" \in Drains
    BY DEF Drains
  <2>. QED  BY <1>7, <2>1, ListedKeys DEF DemandDrain, outbox
<1>8. ASSUME NEW d \in Drains, NEW m \in Mints,
             DrainSeen(d, m) \/ DrainSkip(d, m) \/ DrainSend(d, m)
      PROVE  Keys'
  <2>1. ASSUME left' = [left EXCEPT ![d] = @ \ {m}]
        PROVE  \A e \in Drains : left'[e] \subseteq left[e]
    BY <2>1 DEF TypeOK
  <2>2. CASE DrainSeen(d, m)
    <3>1. delivered'["discord"] \subseteq delivered["discord"] \cup seen
      BY <2>2 DEF DrainSeen, Mark, TypeOK, Consumers
    <3>. QED  BY <2>1, <2>2, <3>1, GivenUpKeys DEF DrainSeen
  <2>3. CASE DrainSkip(d, m)
    BY <2>1, <2>3, GivenUpKeys DEF DrainSkip, outbox
  <2>. QED  BY <1>8, <2>2, <2>3, DrainBegins
<1>9. ASSUME NEW d \in Drains, DrainSendFails(d)  PROVE Keys'
  <2>1. \A e \in Drains : sending'[e] \in {sending[e], None}
    BY <1>9 DEF DrainSendFails, TypeOK
  <2>. QED  BY <1>9, <2>1, GivenUpKeys DEF DrainSendFails, outbox
<1>10. CASE UNCHANGED vars
  BY <1>10, Quiet DEF vars, outbox, discordVars
<1>. QED  BY <1>1, <1>2, <1>3, <1>4, <1>5, <1>6, <1>7, <1>8, <1>9, <1>10, DrainEnds, Steps
          DEF Publication, LoginStep, DiscordAttempt, DiscordDrain, Drain

LEMMA KeysCorrect == Spec => []Keys
<1>1. TypeOK /\ Keys /\ [Next]_vars => Keys'
  BY KeysStep
<1>. QED  BY <1>1, InitKeys, TypeCorrect, PTL DEF Spec

-----------------------------------------------------------------------------
LEMMA SeenStep ==
  ASSUME TypeOK, Keys, DeliveredWasSeen, [Next]_vars  PROVE DeliveredWasSeen'
<1>d. delivered \in [Consumers -> SUBSET launches]
  BY DEF TypeOK
<1>1. ASSUME NEW m \in Mints, AnnounceEarly(m) \/ Launch(m)  PROVE DeliveredWasSeen'
  <2>1. PICK event \in {"early", "durable"} : Publish(m, event)
    BY <1>1 DEF AnnounceEarly, Launch
  <2>. QED  BY <2>1, PublishKeeps DEF DeliveredWasSeen
<1>2. CASE TuiStep
  <2>1. CASE StartTui \/ TuiDies
    BY <2>1 DEF StartTui, TuiDies, DeliveredWasSeen, outbox, discordVars
  <2>2. CASE DrainTui
    BY <2>2, <1>d DEF DrainTui, DeliveredWasSeen, Undelivered, Mark, Consumers, discordVars
  <2>. QED  BY <1>2, <2>1, <2>2 DEF TuiStep
<1>3. CASE LoginStep \/ DiscordDies
  BY <1>3 DEF LoginStep, ConnectDiscord, StartBot, Ready, DiscordDies, DeliveredWasSeen,
              outbox, tuiVars
<1>4. ASSUME NEW m \in Mints, EndSend(m), launches' = launches, told' = told
      PROVE  DeliveredWasSeen'
  BY <1>4, EndSendTypes DEF DeliveredWasSeen
<1>5. CASE DiscordAttempt
  <2>1. ASSUME NEW a \in Attempts, EndAttempt(a)  PROVE DeliveredWasSeen'
    <3>1. a.mint \in Mints /\ EndSend(a.mint)
      BY <2>1, AttemptEnds
    <3>. QED  BY <1>4, <2>1, <3>1 DEF EndAttempt, tuiVars
  <2>2. ASSUME NEW a \in Attempts, StartAttempt(a) \/ AttemptFails(a)
        PROVE  DeliveredWasSeen'
    BY <2>2 DEF StartAttempt, AttemptFails, DeliveredWasSeen, outbox, tuiVars
  <2>. QED  BY <1>5, <2>1, <2>2 DEF DiscordAttempt, Attempt
<1>6. CASE DiscordDrain
  <2>1. ASSUME NEW d \in Drains, NEW m \in Mints, DrainSeen(d, m)
        PROVE  DeliveredWasSeen'
    BY <2>1, <1>d DEF DrainSeen, Mark, DeliveredWasSeen, tuiVars, Consumers, Keys, KeyInv
  <2>2. ASSUME NEW d \in Drains, DrainSent(d)  PROVE DeliveredWasSeen'
    <3>1. sending[d] \in Mints /\ EndSend(sending[d])
      BY <2>2, DrainEnds
    <3>. QED  BY <1>4, <2>2, <3>1 DEF DrainSent, tuiVars
  <2>3. ASSUME NEW d \in Drains, NEW m \in Mints, DrainSkip(d, m) \/ DrainSend(d, m)
        PROVE  DeliveredWasSeen'
    BY <2>3 DEF DrainSkip, DrainSend, DeliveredWasSeen, outbox, tuiVars
  <2>4. CASE DemandDrain
    BY <2>4 DEF DemandDrain, DeliveredWasSeen, outbox, tuiVars
  <2>5. ASSUME NEW d \in Drains, DrainSendFails(d)  PROVE DeliveredWasSeen'
    BY <2>5 DEF DrainSendFails, DeliveredWasSeen, outbox, tuiVars
  <2>. QED  BY <1>6, <2>1, <2>2, <2>3, <2>4, <2>5 DEF DiscordDrain, Drain
<1>7. CASE UNCHANGED vars
  BY <1>7 DEF vars, outbox, tuiVars, discordVars, DeliveredWasSeen
<1>. QED  BY <1>1, <1>2, <1>3, <1>5, <1>6, <1>7, Steps DEF Publication

(* DeliveredWasSeen: a row counts as delivered only when its launch was    *)
(* posted, shown or announced as missed; a drain that finds no channel     *)
(* marks nothing.                                                          *)
THEOREM DeliveredWasSeenCorrect == Spec => []DeliveredWasSeen
<1>1. TypeOK /\ Keys /\ DeliveredWasSeen /\ [Next]_vars => DeliveredWasSeen'
  BY SeenStep
<1>. QED  BY <1>1, SeenInit, TypeCorrect, KeysCorrect, PTL DEF Spec

-----------------------------------------------------------------------------
(* What PostedOnce says of one launch.                                     *)
MayBePosted(m) ==
    \/ posts[m] = 0 /\ m \notin delivered["discord"]
    \/ m \in overlapped

LEMMA OnlySendersPost ==
  ASSUME TypeOK, Keys, [Next]_vars, NEW m \in Mints, posts'[m] > posts[m]
  PROVE  Sending(m)
<1>1. posts' # posts
  BY DEF TypeOK
<1>2. ~DiscordDies
  <2>1. posts[m] \in Nat
    BY DEF TypeOK
  <2>. QED  BY <2>1 DEF DiscordDies, NoPosts
<1>3. ASSUME NEW n \in Mints, AnnounceEarly(n) \/ Launch(n)  PROVE FALSE
  BY <1>1, <1>3, PublishKeeps DEF AnnounceEarly, Launch
<1>4. ASSUME NEW n \in Mints, EndSend(n), Sending(n), launches' = launches
      PROVE  Sending(m)
  <2>1. \A k \in Mints \ {n} : posts'[k] = posts[k] /\ posts[k] \in Nat
    BY <1>4, EndSendTypes DEF TypeOK
  <2>2. m = n
    BY <2>1
  <2>. QED  BY <1>4, <2>2
<1>5. CASE DiscordAttempt
  <2>1. PICK a \in Attempts : EndAttempt(a)
    BY <1>1, <1>5 DEF DiscordAttempt, Attempt, StartAttempt, AttemptFails
  <2>. QED  BY <1>4, <2>1, AttemptEnds DEF EndAttempt
<1>6. CASE DiscordDrain
  <2>1. PICK d \in Drains : DrainSent(d)
    BY <1>1, <1>6 DEF DiscordDrain, Drain, DemandDrain, DrainSeen, DrainSkip, DrainSend,
                      DrainSendFails
  <2>. QED  BY <1>4, <2>1, DrainEnds DEF DrainSent
<1>7. ~TuiStep /\ ~LoginStep /\ ~UNCHANGED vars
  BY <1>1 DEF TuiStep, StartTui, DrainTui, TuiDies, LoginStep, ConnectDiscord, StartBot,
              Ready, vars, discordVars
<1>. QED  BY <1>2, <1>3, <1>5, <1>6, <1>7, Steps DEF Publication

(* PostedOnce: a launch is posted once by a run of the bot and not again   *)
(* by a later one once it is marked, unless two attempts at it overlapped. *)
THEOREM PostedOnceCorrect == Spec => PostedOnce
<1>1. ASSUME TypeOK, Keys, [Next]_vars
      PROVE  [\A m \in Mints : posts'[m] > posts[m] => MayBePosted(m)]_vars
  <2>. SUFFICES ASSUME NEW m \in Mints, posts'[m] > posts[m]  PROVE MayBePosted(m)
    OBVIOUS
  <2>1. Sending(m)
    BY <1>1, OnlySendersPost
  <2>2. posts[m] \in Nat
    BY <1>1 DEF TypeOK
  <2>. QED  BY <1>1, <2>1, <2>2 DEF Keys, KeyInv, SenderInv, MayBePosted
<1>2. TypeOK /\ Keys /\ [Next]_vars
        => [\A m \in Mints : posts'[m] > posts[m] =>
              \/ posts[m] = 0 /\ m \notin delivered["discord"]
              \/ m \in overlapped]_vars
  BY <1>1 DEF MayBePosted
<1>. QED  BY <1>2, TypeCorrect, KeysCorrect, PTL DEF Spec, PostedOnce
=============================================================================
