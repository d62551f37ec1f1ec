--------------------- MODULE ObservationLoopProofs ---------------------
(***************************************************************************)
(* ObservationLoop for any history, bounds of a read, sources and faults:  *)
(* the loop implements InOrderHandling, a polling watcher never leaves two *)
(* trades half done, and what it reads with is the page loop of the code.  *)
(***************************************************************************)
EXTENDS MCObservationLoop, WellFoundedInduction, FiniteSetTheorems, TLAPS

Successful == {i \in 1 .. Len(history) : history[i] # "failed"}

(* The handler is at work on the current observation.                      *)
Mid == {"advancing", "deciding", "bought", "recording"}
Between == {"reading", "polling"}

(* What the stores and the batch hold, and how far the batch is.           *)
BatchInv ==
    /\ handled \subseteq raw /\ raw \subseteq Successful /\ staged \subseteq Successful
    /\ submitted \subseteq raw /\ positions \subseteq submitted
    /\ todo \subseteq staged
    /\ pc \in Between => todo = {}
    /\ pc \notin Between => staged \ todo \subseteq handled
    /\ pc \in Mid =>
          /\ current \in todo /\ current \notin handled /\ current \in raw
          /\ \A j \in todo : current <= j
    /\ source = "poll" => ~caughtUp /\ (pc \in Between => staged = {})
    /\ source = "stream" => submitted = {}
    /\ pc = "polling" => source = "poll"

Above(i) == \A j \in handled : j < i

(* A batch that is not through is newer than everything recorded.          *)
OrderInv == \A i \in staged \ handled : Above(i)

(* Announcements come in the order of the chain, after everything that was *)
(* staged before them.                                                     *)
Announced(i) == i = Orphan \/ (i \in Successful /\ Above(i))
FeedInv ==
    /\ ~caughtUp => ~connected /\ pending = NoSignature
    /\ ~connected => feed = <<>>
    /\ pending # NoSignature => staged = {} /\ pc = "reading" /\ Announced(pending)
    /\ \A k \in 1 .. Len(feed) :
          /\ Announced(feed[k])
          /\ feed[k] # Orphan =>
                /\ pending < feed[k]
                /\ \A i \in staged : i < feed[k]
                /\ \A l \in 1 .. k - 1 : feed[l] < feed[k]

(* Nothing successful is missing between two members of a set.             *)
Gapless(S) ==
    \A k \in Successful : (\E j \in S : j < k) /\ (\E l \in S : k < l) => k \in S
GapInv == source = "poll" => Gapless(handled) /\ Gapless(handled \cup staged)

(* Before anything is recorded every read starts from the newest page, and *)
(* what is older than a submitted launch never comes back into it.         *)
Window == Least(MaxSignatures, MaxTransactions)
WindowInv ==
    source = "poll" /\ handled = {} =>
        /\ \A i \in staged \cup submitted : \A k \in Successful \ staged :
              k < i => Len(history) - k >= Window
        /\ \A i \in submitted, k \in staged : i <= k

(* A launch half done is the next one due.                                 *)
HalfInv ==
    source = "poll" =>
        \A i \in HalfDone : \A k \in Successful :
            k < i /\ (\E j \in handled : j < k) => k \in handled

TradeInv ==
    /\ pc = "bought" => source = "poll" /\ current \in submitted
    /\ pc = "recording" /\ source = "poll" /\ history[current] \in Launches
          => current \in submitted
    /\ source = "poll" => \A i \in handled : history[i] \in Launches => i \in submitted

-----------------------------------------------------------------------------
(* Types.                                                                  *)

LEMMA Lengths ==
  ASSUME TypeOK
  PROVE  Len(history) \in Nat /\ Len(history) <= MaxHistory /\ MaxHistory \in Nat
         /\ Len(feed) \in Nat /\ Successful \subseteq Txs
         /\ \A i \in 1 .. Len(history) : history[i] \in TxKinds
BY LoopAssumption DEF TypeOK, Successful, Txs

(* What a read returns: nothing but what is newer than its cursor, and all *)
(* of it; without one, all of the newest page.                             *)
LEMMA Reads ==
  ASSUME TypeOK, NEW c \in Txs \cup {NoCursor},
         SignatureHistory(Len(history), c).read,
         NEW B, B = Observed(history, SignatureHistory(Len(history), c).sigs)
  PROVE  /\ B \subseteq Successful
         /\ \A i \in B : c < i
         /\ c # NoCursor => \A k \in Successful : c < k => k \in B
         /\ c = NoCursor =>
               /\ \A k \in Successful : Len(history) - k < Window => k \in B
               /\ \A k \in B : Len(history) - k < Window
<1>1. Len(history) \in Nat /\ Len(history) <= MaxHistory /\ c \in Nat
  BY Lengths DEF Txs, NoCursor
<1>2. CASE c = NoCursor
  <2>1. SignatureHistory(Len(history), c).sigs = HeadOfHistory(Len(history))
    BY <1>2 DEF SignatureHistory, Returned
  <2>. QED  BY <1>1, <1>2, <2>1 DEF HeadOfHistory, Observed, Successful, Window, NoCursor
<1>3. CASE c # NoCursor
  <2>1. SignatureHistory(Len(history), c).sigs = Newer(Len(history), c)
    BY <1>3 DEF SignatureHistory, Returned, Abstain
  <2>2. c >= 1
    BY <1>1, <1>3 DEF NoCursor
  <2>. QED  BY <1>1, <1>3, <2>1, <2>2 DEF Newer, Observed, Successful
<1>. QED  BY <1>2, <1>3

TypeInv == TypeOK /\ BatchInv

LEMMA EndTyped ==
  ASSUME TypeOK, BatchInv, EndAbstained, faults' \in 0 .. MaxFaults
  PROVE  TypeOK' /\ BatchInv'
<1>1. staged' \in {staged, {}} /\ (source = "poll" => staged' = {})
  BY DEF EndAbstained, NoBatch, TypeOK
<1>2. /\ pc' = "reading" /\ todo' = {} /\ current' = NoSignature /\ bought' = {}
      /\ UNCHANGED <<source, history, raw, handled, positions, submitted, caughtUp,
                     connected, feed, pending>>
  BY DEF EndAbstained, durable, stream
<1>3. TypeOK'
  BY <1>1, <1>2 DEF TypeOK, PCs
<1>4. BatchInv'
  <2>1. Successful' = Successful
    BY <1>2 DEF Successful
  <2>. QED  BY <1>1, <1>2, <2>1 DEF BatchInv, Between, Mid
<1>. QED  BY <1>3, <1>4

LEMMA HandTyped ==
  ASSUME TypeOK, BatchInv, pc = "reading", NEW batch \in SUBSET Successful, Hand(batch),
         caughtUp' \in BOOLEAN, source = "poll" => ~caughtUp',
         pending' \in Txs \cup {Orphan, NoSignature},
         UNCHANGED <<source, history, durable, connected, feed, faults>>
  PROVE  TypeOK' /\ BatchInv'
<1>1. /\ staged' = batch /\ todo' = batch /\ bought' = positions /\ pc' = "handling"
      /\ UNCHANGED <<source, history, raw, handled, positions, submitted, current>>
  BY DEF Hand, durable
<1>2. batch \subseteq Txs
  BY Lengths
<1>3. TypeOK'
  BY <1>1, <1>2 DEF TypeOK, PCs
<1>4. Successful' = Successful
  BY <1>1 DEF Successful
<1>5. BatchInv'
  BY <1>1, <1>4 DEF BatchInv, Between, Mid
<1>. QED  BY <1>3, <1>5
LEMMA Growth ==
  ASSUME TypeOK, NEW kind \in TxKinds, Finalize(kind)
  PROVE  /\ Len(history') = Len(history) + 1 /\ history' \in Seq(TxKinds)
         /\ \A i \in 1 .. Len(history) : history'[i] = history[i]
         /\ Successful \subseteq Successful'
         /\ \A k \in Successful' : k \in Successful \/ k = Len(history) + 1
<1>1. /\ Len(history') = Len(history) + 1 /\ history' \in Seq(TxKinds)
      /\ \A i \in 1 .. Len(history) : history'[i] = history[i]
  BY DEF Finalize, TypeOK
<1>. QED  BY <1>1, Lengths DEF Successful

LEMMA FinalizeTyped ==
  ASSUME TypeOK, BatchInv, NEW kind \in TxKinds, Finalize(kind)
  PROVE  TypeOK' /\ BatchInv'
<1>1. feed' \in Seq(Txs \cup {Orphan})
  <2>1. Len(history) + 1 \in Txs
    BY Lengths DEF Finalize, Txs
  <2>. QED  BY <2>1 DEF Finalize, TypeOK
<1>2. /\ Len(history') <= MaxHistory
      /\ UNCHANGED <<source, raw, handled, positions, submitted, pc, staged, todo, current,
                     bought, caughtUp, connected, pending, faults>>
  BY Growth, Lengths DEF Finalize, durable
<1>. QED  BY <1>1, <1>2, Growth DEF TypeOK, BatchInv

(* The steps of the handler and of the end of a cycle.                     *)
Handling ==
    \/ \E i \in Txs : SkipHandled(i) \/ Persist(i)
    \/ AdvanceOpenPositions \/ NothingToBuy \/ Submit \/ SavePosition \/ Record
    \/ Acknowledge \/ PollOpenPositions

LEMMA HandlingTyped ==
  ASSUME TypeOK, BatchInv, TradeInv, Handling
  PROVE  TypeOK' /\ BatchInv'
<1>0. UNCHANGED <<source, history, feed, pending, connected, faults>>
      /\ Successful' = Successful
  BY DEF Handling, SkipHandled, Persist, AdvanceOpenPositions, NothingToBuy, Submit,
         SavePosition, Record, Acknowledge, PollOpenPositions, durable, stream, Successful
<1>1. ASSUME NEW i \in Txs, SkipHandled(i)  PROVE TypeOK' /\ BatchInv'
  <2>1. /\ todo' = todo \ {i} /\ i \in handled
        /\ UNCHANGED <<raw, handled, positions, submitted, pc, staged, current, bought,
                       caughtUp>>
        /\ pc = "handling"
    BY <1>1 DEF SkipHandled, durable, stream
  <2>2. TypeOK'
    BY <1>0, <2>1 DEF TypeOK
  <2>3. BatchInv'
    BY <1>0, <2>1 DEF BatchInv, Between, Mid
  <2>. QED  BY <2>2, <2>3
<1>2. ASSUME NEW i \in Txs, Persist(i)  PROVE TypeOK' /\ BatchInv'
  <2>1. /\ raw' = raw \cup {i} /\ current' = i /\ pc' = "advancing" /\ i \notin handled
        /\ NextObservation(i) /\ pc = "handling"
        /\ UNCHANGED <<handled, positions, submitted, staged, todo, bought, caughtUp>>
    BY <1>2 DEF Persist, stream
  <2>2. TypeOK'
    BY <1>0, <2>1 DEF TypeOK, PCs
  <2>3. BatchInv'
    BY <1>0, <2>1 DEF BatchInv, Between, Mid, NextObservation
  <2>. QED  BY <2>2, <2>3
<1>3. CASE AdvanceOpenPositions \/ PollOpenPositions
  <2>1. /\ positions' \subseteq positions
        /\ \/ pc = "advancing" /\ pc' = "deciding"
           \/ pc = "polling" /\ pc' = "reading"
        /\ UNCHANGED <<raw, handled, submitted, staged, todo, current, bought, caughtUp>>
    BY <1>3 DEF AdvanceOpenPositions, PollOpenPositions, stream
  <2>2. TypeOK'
    BY <1>0, <2>1 DEF TypeOK, PCs
  <2>3. BatchInv'
    BY <1>0, <2>1 DEF BatchInv, Between, Mid
  <2>. QED  BY <2>2, <2>3
<1>4. CASE NothingToBuy
  <2>1. /\ pc = "deciding" /\ pc' = "recording"
        /\ UNCHANGED <<raw, handled, positions, submitted, staged, todo, current, bought,
                       caughtUp>>
    BY <1>4 DEF NothingToBuy, durable, stream
  <2>2. TypeOK'
    BY <1>0, <2>1 DEF TypeOK, PCs
  <2>3. BatchInv'
    BY <1>0, <2>1 DEF BatchInv, Between, Mid
  <2>. QED  BY <2>2, <2>3
<1>5. CASE Submit
  <2>1. /\ pc = "deciding" /\ pc' = "bought" /\ source = "poll"
        /\ submitted' = submitted \cup {current} /\ bought' = bought \cup {current}
        /\ UNCHANGED <<raw, handled, positions, staged, todo, current, caughtUp>>
    BY <1>5 DEF Submit, stream
  <2>2. current \in raw /\ current \in Txs
    BY <2>1 DEF BatchInv, Mid, TypeOK
  <2>3. TypeOK'
    BY <1>0, <2>1, <2>2 DEF TypeOK, PCs
  <2>4. BatchInv'
    BY <1>0, <2>1, <2>2 DEF BatchInv, Between, Mid
  <2>. QED  BY <2>3, <2>4
<1>6. CASE SavePosition
  <2>1. /\ pc = "bought" /\ pc' = "recording" /\ positions' = positions \cup {current}
        /\ UNCHANGED <<raw, handled, submitted, staged, todo, current, bought, caughtUp>>
    BY <1>6 DEF SavePosition, stream
  <2>2. current \in submitted
    BY <2>1 DEF TradeInv
  <2>3. TypeOK'
    BY <1>0, <2>1, <2>2 DEF TypeOK, PCs
  <2>4. BatchInv'
    BY <1>0, <2>1, <2>2 DEF BatchInv, Between, Mid
  <2>. QED  BY <2>3, <2>4
<1>7. CASE Record
  <2>1. /\ pc = "recording" /\ pc' = "handling" /\ handled' = handled \cup {current}
        /\ todo' = todo \ {current} /\ current' = NoSignature
        /\ UNCHANGED <<raw, positions, submitted, staged, bought, caughtUp>>
    BY <1>7 DEF Record, stream
  <2>2. current \in raw /\ current \in Txs
    BY <2>1 DEF BatchInv, Mid, TypeOK
  <2>3. TypeOK'
    BY <1>0, <2>1, <2>2 DEF TypeOK, PCs
  <2>4. BatchInv'
    BY <1>0, <2>1, <2>2 DEF BatchInv, Between, Mid
  <2>. QED  BY <2>3, <2>4
<1>8. CASE Acknowledge
  <2>1. /\ pc = "handling" /\ todo = {} /\ staged' = {} /\ bought' = {}
        /\ caughtUp' = (source = "stream")
        /\ pc' = IF source = "poll" THEN "polling" ELSE "reading"
        /\ UNCHANGED <<raw, handled, positions, submitted, todo, current>>
    BY <1>8 DEF Acknowledge, durable, NoBatch
  <2>2. TypeOK'
    BY <1>0, <2>1 DEF TypeOK, PCs
  <2>3. BatchInv'
    BY <1>0, <2>1 DEF BatchInv, Between, Mid
  <2>. QED  BY <2>2, <2>3
<1>. QED  BY <1>1, <1>2, <1>3, <1>4, <1>5, <1>6, <1>7, <1>8 DEF Handling

kernel == <<source, history, raw, handled, submitted, positions, pc, staged, todo, current>>

(* A batch comes to the handler: the staged one again, what is newer than  *)
(* the recorded transactions, or the announced one.                        *)
ReadFrom(c, B) ==
    /\ staged = {} /\ RestoredCursor(c) /\ c \in Txs \cup {NoCursor}
    /\ SignatureHistory(Len(history), c).read
    /\ B = Observed(history, SignatureHistory(Len(history), c).sigs)
    /\ source = "stream" => ~caughtUp
    /\ UNCHANGED <<caughtUp, pending>>

Takes(B) ==
    /\ pc = "reading" /\ Hand(B)
    /\ UNCHANGED <<source, history, durable, connected, feed, faults>>
    /\ \/ B = staged /\ staged # {} /\ UNCHANGED <<caughtUp, pending>>
       \/ \E c \in Txs \cup {NoCursor} : ReadFrom(c, B)
       \/ /\ staged = {} /\ source = "stream" /\ pending \in Txs /\ B = {pending}
          /\ pending' = NoSignature /\ UNCHANGED caughtUp

Ends ==
    /\ EndAbstained /\ pc \in PCs \ Between
    /\ faults' \in 0 .. MaxFaults

(* A step of the sockets, or one that only finds the history read.         *)
Sockets ==
    /\ UNCHANGED kernel
    /\ UNCHANGED bought
    /\ faults' \in 0 .. MaxFaults
    /\ \/ AnnounceOrphan \/ Disconnect \/ Connect \/ ReceiveNotification
       \/ NotificationLost
       \/ /\ source = "stream" /\ caughtUp' = TRUE
          /\ UNCHANGED <<connected, feed, pending>>
       \/ UNCHANGED stream

LEMMA Faulty == TypeOK /\ Fault => faults' \in 0 .. MaxFaults
BY LoopAssumption DEF TypeOK, Fault

LEMMA Cases ==
  ASSUME TypeOK, [Next]_vars
  PROVE  \/ \E kind \in TxKinds : Finalize(kind)
         \/ Handling \/ Crash \/ Ends \/ Sockets
         \/ \E B \in SUBSET Txs : Takes(B)
<1>1. ASSUME NEW c \in Txs \cup {NoCursor}, ReadHistory(c)
      PROVE  Sockets \/ \E B \in SUBSET Txs : Takes(B)
  <2>. DEFINE B == Observed(history, SignatureHistory(Len(history), c).sigs)
  <2>1. /\ pc = "reading" /\ staged = {} /\ RestoredCursor(c)
        /\ SignatureHistory(Len(history), c).read
        /\ source = "stream" => ~caughtUp
        /\ UNCHANGED <<source, history, durable, connected, feed, pending, faults>>
    BY <1>1 DEF ReadHistory, ReadsHistory, NoBatch
  <2>2. CASE /\ source = "stream" /\ caughtUp' = TRUE
             /\ UNCHANGED <<staged, todo, current, bought, pc>>
    BY <2>1, <2>2 DEF Sockets, kernel, durable, TypeOK
  <2>3. CASE Hand(B) /\ UNCHANGED caughtUp
    <3>1. B \subseteq Txs
      <4>1. B \subseteq Successful
        BY <2>1, Reads
      <4>. QED  BY <4>1, Lengths
    <3>2. ReadFrom(c, B)
      BY <2>1, <2>3 DEF ReadFrom
    <3>. QED  BY <2>1, <2>3, <3>1, <3>2 DEF Takes
  <2>. QED  BY <1>1, <2>2, <2>3 DEF ReadHistory
<1>2. CASE ReadStaged
  BY <1>2 DEF ReadStaged, Takes, stream, TypeOK, NoBatch
<1>3. CASE Hydrate
  <2>1. {pending} \in SUBSET Txs
    BY <1>3 DEF Hydrate
  <2>. QED  BY <1>3, <2>1 DEF Hydrate, ReadsStream, Takes, NoBatch
<1>4. CASE Connect \/ ReceiveNotification
  BY <1>4 DEF Connect, ReceiveNotification, Sockets, kernel, durable, TypeOK
<1>5. CASE AnnounceOrphan \/ Disconnect \/ NotificationLost
  BY <1>5, Faulty DEF AnnounceOrphan, Disconnect, NotificationLost, Sockets, kernel, durable
<1>6. CASE RejectRepeat \/ RejectForGood \/ CycleAbstains
  BY <1>6, Faulty DEF RejectRepeat, RejectForGood, CycleAbstains, Ends, PCs, Between, TypeOK
<1>7. CASE UNCHANGED vars
  BY <1>7 DEF vars, Sockets, kernel, durable, TypeOK
<1>. QED  BY <1>1, <1>2, <1>3, <1>4, <1>5, <1>6, <1>7
          DEF Next, Watcher, Environment, Handling

LEMMA TakenTyped ==
  ASSUME TypeOK, BatchInv, FeedInv, NEW B \in SUBSET Txs, Takes(B)
  PROVE  B \subseteq Successful /\ TypeOK' /\ BatchInv'
<1>1. B \subseteq Successful
  <2>1. CASE B = staged
    BY <2>1 DEF BatchInv
  <2>2. ASSUME NEW c \in Txs \cup {NoCursor}, ReadFrom(c, B)  PROVE B \subseteq Successful
    BY <2>2, Reads DEF ReadFrom
  <2>3. CASE B = {pending} /\ pending \in Txs
    BY <2>3 DEF FeedInv, Announced, Txs, NoSignature, Orphan
  <2>. QED  BY <2>1, <2>2, <2>3 DEF Takes
<1>2. /\ caughtUp' \in BOOLEAN /\ (source = "poll" => ~caughtUp')
      /\ pending' \in Txs \cup {Orphan, NoSignature}
  BY DEF Takes, ReadFrom, TypeOK, BatchInv
<1>3. /\ pc = "reading" /\ Hand(B)
      /\ UNCHANGED <<source, history, durable, connected, feed, faults>>
  BY DEF Takes
<1>. QED  BY <1>1, <1>2, <1>3, HandTyped

LEMMA NoFeed == <<>> \in Seq(Txs \cup {Orphan}) /\ Len(<<>>) = 0
OBVIOUS

LEMMA SocketsTyped ==
  ASSUME TypeOK, BatchInv, Sockets
  PROVE  TypeOK' /\ BatchInv'
<1>1. /\ caughtUp' \in BOOLEAN /\ connected' \in BOOLEAN
      /\ feed' \in Seq(Txs \cup {Orphan}) /\ pending' \in Txs \cup {Orphan, NoSignature}
      /\ source = "poll" => ~caughtUp'
  <2>1. CASE AnnounceOrphan \/ Disconnect
    <3>1. feed' = Append(feed, Orphan) \/ feed' = <<>>
      BY <2>1 DEF AnnounceOrphan, Disconnect
    <3>2. feed' \in Seq(Txs \cup {Orphan})
      <4>1. feed \in Seq(Txs \cup {Orphan}) /\ Orphan \in Txs \cup {Orphan}
        BY DEF TypeOK
      <4>2. Append(feed, Orphan) \in Seq(Txs \cup {Orphan})
        BY <4>1
      <4>. QED  BY <3>1, <4>2, NoFeed
    <3>3. connected' \in BOOLEAN /\ UNCHANGED <<caughtUp, pending>>
      BY <2>1 DEF AnnounceOrphan, Disconnect, TypeOK
    <3>. QED  BY <3>2, <3>3 DEF TypeOK, BatchInv
  <2>2. CASE Connect
    BY <2>2 DEF Connect, TypeOK, BatchInv
  <2>3. CASE ReceiveNotification \/ NotificationLost
    BY <2>3 DEF ReceiveNotification, NotificationLost, TypeOK, BatchInv
  <2>4. CASE /\ source = "stream" /\ caughtUp' = TRUE
             /\ UNCHANGED <<connected, feed, pending>>
    BY <2>4 DEF TypeOK
  <2>5. CASE UNCHANGED stream
    BY <2>5 DEF stream, TypeOK, BatchInv
  <2>. QED  BY <2>1, <2>2, <2>3, <2>4, <2>5 DEF Sockets
<1>2. /\ UNCHANGED <<source, history, raw, handled, submitted, positions, pc, staged,
                     todo, current, bought>>
      /\ faults' \in 0 .. MaxFaults
  BY DEF Sockets, kernel
<1>3. TypeOK'
  BY <1>1, <1>2 DEF TypeOK
<1>4. Successful' = Successful
  BY <1>2 DEF Successful
<1>5. BatchInv'
  BY <1>1, <1>2, <1>4 DEF BatchInv
<1>. QED  BY <1>3, <1>5

LEMMA TypeStep ==
  ASSUME TypeOK, BatchInv, TradeInv, FeedInv, [Next]_vars
  PROVE  TypeOK' /\ BatchInv'
<1>1. CASE Crash
  <2>1. /\ faults' \in 0 .. MaxFaults /\ pc' = "reading"
        /\ staged' = {} /\ todo' = {} /\ current' = NoSignature /\ bought' = {}
        /\ caughtUp' = FALSE /\ connected' = FALSE /\ feed' = <<>> /\ pending' = NoSignature
        /\ UNCHANGED <<source, history, raw, handled, positions, submitted>>
    BY <1>1, Faulty DEF Crash, durable, NoBatch
  <2>2. TypeOK'
    BY <2>1, NoFeed DEF TypeOK, PCs
  <2>3. Successful' = Successful
    BY <2>1 DEF Successful
  <2>4. BatchInv'
    BY <2>1, <2>3 DEF BatchInv, Between, Mid
  <2>. QED  BY <2>2, <2>4
<1>2. CASE Ends
  BY <1>2, EndTyped DEF Ends
<1>. QED  BY <1>1, <1>2, Cases, FinalizeTyped, HandlingTyped, TakenTyped, SocketsTyped

-----------------------------------------------------------------------------
(* The order of what is staged, announced and recorded.                    *)

(* A step that records nothing, stages nothing and announces nothing.      *)
LEMMA FlowKept ==
  ASSUME FeedInv, OrderInv, UNCHANGED <<handled, feed, pending, connected>>,
         Successful' = Successful, staged' \subseteq staged,
         pending # NoSignature => pc' = "reading", caughtUp => caughtUp'
  PROVE  FeedInv' /\ OrderInv'
<1>1. OrderInv'
  BY DEF OrderInv, Above
<1>2. FeedInv'
  BY DEF FeedInv, Announced, Above
<1>. QED  BY <1>1, <1>2

LEMMA FlowFinalize ==
  ASSUME TypeOK, BatchInv, FeedInv, OrderInv, NEW kind \in TxKinds, Finalize(kind)
  PROVE  FeedInv' /\ OrderInv'
<1>. DEFINE n == Len(history)
<1>1. n \in Nat /\ feed \in Seq(Txs \cup {Orphan}) /\ Len(feed) \in Nat
  BY Lengths DEF TypeOK
<1>2. /\ UNCHANGED <<handled, staged, pending, connected, caughtUp, pc>>
      /\ feed' = IF connected /\ kind = "create" THEN Append(feed, n + 1) ELSE feed
  BY DEF Finalize, durable
<1>3. OrderInv'
  BY <1>2 DEF OrderInv, Above
<1>4. /\ handled \subseteq 1 .. n /\ staged \subseteq 1 .. n
      /\ \A i : Announced(i) => i < n + 1 /\ Announced(i)'
  <2>1. handled \subseteq 1 .. n /\ staged \subseteq 1 .. n
    BY DEF BatchInv, Successful
  <2>2. ASSUME NEW i, Announced(i)  PROVE i < n + 1 /\ Announced(i)'
    BY <1>1, <1>2, <2>2, Growth DEF Announced, Above, Successful, Orphan
  <2>. QED  BY <2>1, <2>2
<1>5. /\ pending < n + 1
      /\ \A k \in 1 .. Len(feed) : feed[k] < n + 1
  BY <1>1, <1>4 DEF FeedInv, NoSignature
<1>. HIDE DEF n
<1>6. ASSUME NEW k \in 1 .. Len(feed'), NEW x, x = feed'[k]
      PROVE  /\ Announced(x)'
             /\ x # Orphan =>
                   /\ pending < x
                   /\ \A i \in staged : i < x
                   /\ \A l \in 1 .. k - 1 : feed'[l] < x
  <2>1. CASE feed' = feed
    BY <1>4, <1>6, <2>1 DEF FeedInv
  <2>2. CASE connected /\ kind = "create" /\ feed' = Append(feed, n + 1)
    <3>1. /\ Len(feed') = Len(feed) + 1 /\ feed'[Len(feed) + 1] = n + 1
          /\ \A l \in 1 .. Len(feed) : feed'[l] = feed[l]
      BY <1>1, <2>2
    <3>2. CASE k \in 1 .. Len(feed)
      <4>1. x = feed[k] /\ \A l \in 1 .. k - 1 : feed'[l] = feed[l]
        BY <1>1, <1>6, <3>1, <3>2
      <4>. QED  BY <1>4, <3>2, <4>1 DEF FeedInv
    <3>3. CASE k = Len(feed) + 1
      <4>1. x = n + 1 /\ \A l \in 1 .. k - 1 : feed'[l] = feed[l] /\ l \in 1 .. Len(feed)
        BY <1>1, <1>6, <3>1, <3>3
      <4>2. n + 1 \in Successful'
        BY <1>1, <2>2 DEF Finalize, TypeOK, Successful, n
      <4>3. Announced(x)'
        BY <1>1, <1>2, <1>4, <4>1, <4>2 DEF Announced, Above
      <4>4. \A i \in staged : i < n + 1
        BY <1>1, <1>4
      <4>. QED  BY <1>5, <4>1, <4>3, <4>4
    <3>. QED  BY <1>1, <3>1, <3>2, <3>3
  <2>. QED  BY <1>2, <2>1, <2>2
<1>7. /\ ~caughtUp' => ~connected' /\ pending' = NoSignature
      /\ ~connected' => feed' = <<>>
      /\ pending' # NoSignature => staged' = {} /\ pc' = "reading"
  BY <1>2 DEF FeedInv
<1>8. pending' # NoSignature => Announced(pending)'
  BY <1>2, <1>4 DEF FeedInv, Announced
<1>9. FeedInv'
  BY <1>2, <1>6, <1>7, <1>8 DEF FeedInv, Announced, Above
<1>. QED  BY <1>3, <1>9

LEMMA FlowSockets ==
  ASSUME TypeOK, BatchInv, FeedInv, OrderInv, Sockets
  PROVE  FeedInv' /\ OrderInv'
<1>1. UNCHANGED <<source, history, handled, pc, staged>> /\ Successful' = Successful
  BY DEF Sockets, kernel, Successful
<1>2. OrderInv' /\ \A i : Announced(i)' <=> Announced(i)
  BY <1>1 DEF OrderInv, Announced, Above
<1>3. feed \in Seq(Txs \cup {Orphan}) /\ Len(feed) \in Nat
  BY DEF TypeOK
<1>4. CASE AnnounceOrphan
  <2>1. /\ connected /\ feed' = Append(feed, Orphan)
        /\ UNCHANGED <<pending, connected, caughtUp>>
    BY <1>4 DEF AnnounceOrphan
  <2>2. /\ Len(feed') = Len(feed) + 1 /\ feed'[Len(feed) + 1] = Orphan
        /\ \A k \in 1 .. Len(feed) : feed'[k] = feed[k]
    BY <1>3, <2>1
  <2>3. ASSUME NEW k \in 1 .. Len(feed')
        PROVE  /\ Announced(feed'[k])
               /\ feed'[k] # Orphan =>
                     /\ pending < feed'[k]
                     /\ \A i \in staged : i < feed'[k]
                     /\ \A l \in 1 .. k - 1 : feed'[l] < feed'[k]
    <3>1. CASE k \in 1 .. Len(feed)
      <4>1. feed'[k] = feed[k] /\ \A l \in 1 .. k - 1 : feed'[l] = feed[l]
        BY <1>3, <2>2, <3>1
      <4>. QED  BY <3>1, <4>1 DEF FeedInv
    <3>2. CASE k = Len(feed) + 1
      BY <2>2, <3>2 DEF Announced
    <3>. QED  BY <1>3, <2>2, <3>1, <3>2
  <2>4. caughtUp /\ connected
    BY <2>1 DEF FeedInv
  <2>5. FeedInv'
    BY <1>1, <1>2, <2>1, <2>3, <2>4 DEF FeedInv
  <2>. QED  BY <1>2, <2>5
<1>5. CASE Disconnect
  <2>1. feed' = <<>> /\ connected' = FALSE /\ UNCHANGED <<pending, caughtUp>>
    BY <1>5 DEF Disconnect
  <2>2. Len(feed') = 0
    BY <2>1
  <2>. QED  BY <1>1, <1>2, <2>1, <2>2 DEF FeedInv
<1>6. CASE Connect
  BY <1>1, <1>2, <1>6 DEF Connect, ReadsStream, FeedInv
<1>7. CASE ReceiveNotification \/ NotificationLost
  <2>1. /\ ReadsStream /\ pending = NoSignature /\ feed # <<>> /\ feed' = Tail(feed)
        /\ pending' \in {NoSignature, Head(feed)}
        /\ UNCHANGED <<connected, caughtUp>>
    BY <1>7 DEF ReceiveNotification, NotificationLost
  <2>2. /\ Len(feed) >= 1 /\ Len(feed') = Len(feed) - 1 /\ Head(feed) = feed[1]
        /\ \A k \in 1 .. Len(feed') : feed'[k] = feed[k + 1]
    BY <1>3, <2>1
  <2>3. 1 \in 1 .. Len(feed)
    BY <1>3, <2>2
  <2>4. pending' = NoSignature \/ (pending' = feed[1] /\ Announced(pending'))
    BY <2>1, <2>2, <2>3 DEF FeedInv
  <2>5. ASSUME NEW k \in 1 .. Len(feed')
        PROVE  /\ Announced(feed'[k])
               /\ feed'[k] # Orphan =>
                     /\ pending' < feed'[k]
                     /\ \A i \in staged : i < feed'[k]
                     /\ \A l \in 1 .. k - 1 : feed'[l] < feed'[k]
    <3>1. k + 1 \in 1 .. Len(feed) /\ 1 \in 1 .. (k + 1) - 1 /\ feed'[k] = feed[k + 1]
      BY <1>3, <2>2
    <3>2. \A l \in 1 .. k - 1 : l + 1 \in 1 .. (k + 1) - 1 /\ feed'[l] = feed[l + 1]
      BY <1>3, <2>2
    <3>3. feed[k + 1] # Orphan =>
             /\ pending < feed[k + 1] /\ \A i \in staged : i < feed[k + 1]
             /\ \A l \in 1 .. (k + 1) - 1 : feed[l] < feed[k + 1]
      BY <3>1 DEF FeedInv
    <3>4. Announced(feed[k + 1])
      BY <3>1 DEF FeedInv
    <3>. QED  BY <2>1, <2>4, <3>1, <3>2, <3>3, <3>4
  <2>6. staged = {} /\ pc = "reading" /\ caughtUp
    BY <2>1 DEF ReadsStream, NoBatch
  <2>7. connected
    BY <2>1 DEF FeedInv
  <2>8. FeedInv'
    BY <1>1, <1>2, <2>1, <2>4, <2>5, <2>6, <2>7 DEF FeedInv
  <2>. QED  BY <1>2, <2>8
<1>8. CASE /\ source = "stream" /\ caughtUp' = TRUE
           /\ UNCHANGED <<connected, feed, pending>>
  BY <1>1, <1>8, FlowKept DEF FeedInv
<1>9. CASE UNCHANGED stream
  BY <1>1, <1>9, FlowKept DEF FeedInv, stream
<1>. QED  BY <1>4, <1>5, <1>6, <1>7, <1>8, <1>9 DEF Sockets

(* The cursor a source without a cursor of its own starts from.            *)
LEMMA CursorIsLast ==
  ASSUME BatchInv, NEW c, RestoredCursor(c)
  PROVE  /\ handled = {} => c = NoCursor
         /\ handled # {} => c \in handled /\ \A j \in handled : j <= c
BY DEF RestoredCursor, BatchInv

LEMMA FlowTakes ==
  ASSUME TypeOK, BatchInv, FeedInv, OrderInv, NEW B \in SUBSET Txs, Takes(B)
  PROVE  FeedInv' /\ OrderInv'
<1>1. /\ staged' = B /\ pc' = "handling" /\ pc = "reading"
      /\ UNCHANGED <<history, handled, connected, feed>> /\ Successful' = Successful
  BY DEF Takes, Hand, durable, Successful
<1>2. \A i : (Announced(i)' <=> Announced(i)) /\ (Above(i)' <=> Above(i))
  BY <1>1 DEF Announced, Above
<1>3. CASE B = staged /\ staged # {} /\ UNCHANGED <<caughtUp, pending>>
  <2>1. pending = NoSignature
    BY <1>3 DEF FeedInv
  <2>. QED  BY <1>1, <1>3, <2>1, FlowKept
<1>4. ASSUME NEW c \in Txs \cup {NoCursor}, ReadFrom(c, B)  PROVE FeedInv' /\ OrderInv'
  <2>1. ~caughtUp /\ UNCHANGED <<caughtUp, pending>>
    BY <1>4, LoopAssumption DEF ReadFrom, TypeOK, BatchInv
  <2>2. pending = NoSignature /\ feed = <<>> /\ Len(feed) = 0 /\ ~connected
    BY <2>1 DEF FeedInv
  <2>3. FeedInv'
    BY <1>1, <2>1, <2>2 DEF FeedInv
  <2>4. \A i \in B : Above(i)
    <3>1. \A i \in B : c < i
      BY <1>4, Reads DEF ReadFrom
    <3>2. handled \subseteq Txs /\ c \in Int /\ B \subseteq Txs
      BY DEF TypeOK, Txs, NoCursor
    <3>. QED  BY <1>4, <3>1, <3>2, CursorIsLast DEF ReadFrom, Above, Txs
  <2>. QED  BY <1>1, <1>2, <2>3, <2>4 DEF OrderInv
<1>5. CASE /\ staged = {} /\ pending \in Txs /\ B = {pending}
           /\ pending' = NoSignature /\ UNCHANGED caughtUp
  <2>1. pending # NoSignature /\ pending # Orphan
    BY <1>5 DEF Txs, NoSignature, Orphan
  <2>2. Announced(pending) /\ Above(pending) /\ caughtUp
    BY <2>1 DEF FeedInv, Announced
  <2>3. OrderInv'
    BY <1>1, <1>2, <1>5, <2>2 DEF OrderInv
  <2>4. pending' < pending
    BY <1>5 DEF Txs, NoSignature
  <2>5. ASSUME NEW k \in 1 .. Len(feed), feed[k] # Orphan
        PROVE  pending' < feed[k] /\ \A i \in B : i < feed[k]
    <3>1. pending < feed[k] /\ feed[k] \in Int
      BY <2>5, Lengths DEF FeedInv, Announced, Successful
    <3>2. pending \in Int /\ pending' \in Int
      BY <1>5 DEF Txs, NoSignature
    <3>. QED  BY <1>5, <2>4, <3>1, <3>2
  <2>6. FeedInv'
    BY <1>1, <1>2, <1>5, <2>2, <2>5 DEF FeedInv
  <2>. QED  BY <2>3, <2>6
<1>. QED  BY <1>3, <1>4, <1>5 DEF Takes

LEMMA FlowRecord ==
  ASSUME TypeOK, BatchInv, FeedInv, OrderInv, Record
  PROVE  FeedInv' /\ OrderInv'
<1>1. /\ pc = "recording" /\ pc' = "handling" /\ handled' = handled \cup {current}
      /\ UNCHANGED <<source, history, staged, feed, pending, connected, caughtUp>>
      /\ Successful' = Successful
  BY DEF Record, stream, Successful
<1>2. /\ current \in todo /\ current \in staged /\ \A j \in todo : current <= j
      /\ staged \ todo \subseteq handled /\ current \in Int /\ staged \subseteq Txs
  BY <1>1 DEF BatchInv, Mid, Between, TypeOK, Txs
<1>3. OrderInv'
  <2>1. ASSUME NEW i \in staged, i \notin handled, i # current  PROVE Above(i) /\ current < i
    BY <1>2, <2>1 DEF OrderInv, Txs
  <2>. QED  BY <1>1, <2>1 DEF OrderInv, Above
<1>4. pending = NoSignature
  BY <1>1 DEF FeedInv
<1>5. \A k \in 1 .. Len(feed) : Announced(feed[k])'
  BY <1>1, <1>2 DEF FeedInv, Announced, Above
<1>6. FeedInv'
  BY <1>1, <1>4, <1>5 DEF FeedInv
<1>. QED  BY <1>3, <1>6

LEMMA FlowHandling ==
  ASSUME TypeOK, BatchInv, FeedInv, OrderInv, Handling
  PROVE  FeedInv' /\ OrderInv'
<1>1. CASE Record
  BY <1>1, FlowRecord
<1>2. CASE ~Record
  <2>1. /\ UNCHANGED <<source, history, handled, feed, pending, connected>>
        /\ pc # "reading" /\ (staged' = staged \/ staged' = {})
    BY <1>2 DEF Handling, SkipHandled, Persist, AdvanceOpenPositions, NothingToBuy, Submit,
                SavePosition, Acknowledge, PollOpenPositions, durable, stream, NoBatch
  <2>2. caughtUp => caughtUp'
    <3>1. CASE Acknowledge
      BY <3>1, LoopAssumption DEF Acknowledge, BatchInv, TypeOK
    <3>2. CASE ~Acknowledge
      BY <1>2, <3>2
         DEF Handling, SkipHandled, Persist, AdvanceOpenPositions, NothingToBuy, Submit,
             SavePosition, PollOpenPositions, stream
    <3>. QED  BY <3>1, <3>2
  <2>3. pending = NoSignature
    BY <2>1 DEF FeedInv
  <2>4. Successful' = Successful
    BY <2>1 DEF Successful
  <2>. QED  BY <2>1, <2>2, <2>3, <2>4, FlowKept
<1>. QED  BY <1>1, <1>2

LEMMA FlowStep ==
  ASSUME TypeOK, BatchInv, FeedInv, OrderInv, [Next]_vars
  PROVE  FeedInv' /\ OrderInv'
<1>1. CASE Crash
  <2>1. /\ staged' = {} /\ caughtUp' = FALSE /\ connected' = FALSE /\ feed' = <<>>
        /\ pending' = NoSignature
    BY <1>1 DEF Crash, NoBatch
  <2>2. Len(feed') = 0
    BY <2>1
  <2>. QED  BY <2>1, <2>2 DEF FeedInv, OrderInv
<1>2. CASE Ends
  <2>1. /\ UNCHANGED <<source, history, handled, feed, pending, connected, caughtUp>>
        /\ pc' = "reading" /\ staged' \subseteq staged
    BY <1>2 DEF Ends, EndAbstained, durable, stream, NoBatch
  <2>2. Successful' = Successful
    BY <2>1 DEF Successful
  <2>. QED  BY <2>1, <2>2, FlowKept
<1>. QED
  BY <1>1, <1>2, Cases, FlowFinalize, FlowHandling, FlowTakes, FlowSockets

-----------------------------------------------------------------------------
(* Nothing left out.                                                       *)

LEMMA Sizes ==
  ASSUME TypeOK, BatchInv
  PROVE  /\ Len(history) \in Nat /\ Successful \subseteq 1 .. Len(history)
         /\ handled \subseteq Successful /\ staged \subseteq Successful
         /\ submitted \subseteq Successful /\ Window \in Int
BY Lengths, HistoryAssumption DEF BatchInv, Successful, Window, Least

(* What a polling watcher records next.                                    *)
LEMMA NextRecorded ==
  ASSUME TypeOK, BatchInv, OrderInv, GapInv, pc \in Mid
  PROVE  /\ current \in staged /\ current \in Successful /\ current \notin handled
         /\ Above(current)
         /\ source = "poll" =>
              \A k \in Successful : k < current /\ (\E j \in handled : j < k) => k \in handled
<1>1. /\ current \in todo /\ current \in staged /\ current \in Successful
      /\ current \notin handled /\ staged \ todo \subseteq handled
      /\ \A j \in todo : current <= j
  BY DEF BatchInv, Mid, Between
<1>2. ASSUME source = "poll", NEW k \in Successful, k < current, \E j \in handled : j < k
      PROVE  k \in handled
  <2>1. k \in handled \cup staged
    BY <1>1, <1>2 DEF GapInv, Gapless
  <2>2. k \in todo => current <= k
    BY <1>1
  <2>3. k \in Int /\ current \in Int
    BY <1>1, Sizes
  <2>. QED  BY <1>1, <1>2, <2>1, <2>2, <2>3
<1>. QED  BY <1>1, <1>2 DEF OrderInv

(* A step that neither records nor submits nor stages anything.            *)
LEMMA GapKept ==
  ASSUME TypeOK, BatchInv, GapInv, WindowInv, HalfInv,
         UNCHANGED <<source, history, handled, submitted>>,
         staged' = staged \/ staged' = {}
  PROVE  GapInv' /\ WindowInv' /\ HalfInv'
<1>1. Successful' = Successful /\ HalfDone' = HalfDone
  BY DEF Successful, HalfDone
<1>2. HalfInv'
  BY <1>1 DEF HalfInv
<1>3. CASE staged' = staged
  BY <1>1, <1>2, <1>3 DEF GapInv, Gapless, WindowInv
<1>4. CASE staged' = {}
  <2>1. GapInv'
    BY <1>1, <1>4 DEF GapInv, Gapless
  <2>2. ASSUME source = "poll", handled = {}, NEW i \in submitted, NEW k \in Successful, k < i
        PROVE  Len(history) - k >= Window
    <3>1. k \notin staged
      BY <2>2, Sizes DEF WindowInv
    <3>. QED  BY <2>2, <3>1 DEF WindowInv
  <2>3. WindowInv'
    BY <1>1, <1>4, <2>2 DEF WindowInv
  <2>. QED  BY <1>2, <2>1, <2>3
<1>. QED  BY <1>3, <1>4

LEMMA GapFinalize ==
  ASSUME TypeOK, BatchInv, GapInv, WindowInv, HalfInv, NEW kind \in TxKinds, Finalize(kind)
  PROVE  GapInv' /\ WindowInv' /\ HalfInv'
<1>1. /\ UNCHANGED <<source, handled, submitted, staged>> /\ HalfDone' = HalfDone
      /\ Len(history') = Len(history) + 1
      /\ \A k \in Successful' : k \in Successful \/ k = Len(history) + 1
  BY Growth DEF Finalize, durable, HalfDone
<1>2. /\ Len(history) \in Nat /\ Window \in Int /\ Window' = Window
      /\ Successful \subseteq 1 .. Len(history) /\ handled \subseteq 1 .. Len(history)
      /\ staged \subseteq 1 .. Len(history) /\ submitted \subseteq 1 .. Len(history)
  BY Sizes DEF Window, Least
<1>3. \A i \in 1 .. Len(history), k \in Successful' : k < i => k \in Successful
  BY <1>1, <1>2
<1>4. GapInv'
  BY <1>1, <1>2, <1>3 DEF GapInv, Gapless
<1>5. HalfInv'
  <2>1. HalfDone \subseteq 1 .. Len(history)
    BY <1>2 DEF HalfDone
  <2>. QED  BY <1>1, <1>2, <1>3, <2>1 DEF HalfInv
<1>6. WindowInv'
  <2>1. ASSUME source = "poll", handled = {}, NEW i \in staged \cup submitted,
               NEW k \in Successful', k \notin staged, k < i
        PROVE  Len(history') - k >= Window
    <3>1. k \in Successful
      BY <1>2, <1>3, <2>1
    <3>2. Len(history) - k >= Window
      BY <2>1, <3>1 DEF WindowInv
    <3>. QED  BY <1>1, <1>2, <3>1, <3>2
  <2>. QED  BY <1>1, <1>2, <2>1 DEF WindowInv
<1>. QED  BY <1>4, <1>5, <1>6

LEMMA GapTakes ==
  ASSUME TypeOK, BatchInv, GapInv, WindowInv, HalfInv, NEW B \in SUBSET Txs, Takes(B)
  PROVE  GapInv' /\ WindowInv' /\ HalfInv'
<1>1. /\ staged' = B /\ pc = "reading"
      /\ UNCHANGED <<source, history, handled, submitted>>
      /\ Successful' = Successful /\ HalfDone' = HalfDone
  BY DEF Takes, Hand, durable, Successful, HalfDone
<1>2. CASE source # "poll"
  BY <1>1, <1>2 DEF GapInv, WindowInv, HalfInv
<1>3. CASE source = "poll"
  <2>1. staged = {}
    BY <1>1, <1>3 DEF BatchInv, Between
  <2>2. PICK c \in Txs \cup {NoCursor} : ReadFrom(c, B)
    BY <1>3, <2>1 DEF Takes
  <2>3. /\ B \subseteq Successful /\ \A i \in B : c < i
        /\ c # NoCursor => \A k \in Successful : c < k => k \in B
        /\ c = NoCursor =>
              /\ \A k \in Successful : Len(history) - k < Window => k \in B
              /\ \A k \in B : Len(history) - k < Window
    BY <2>2, Reads DEF ReadFrom
  <2>4. /\ handled = {} => c = NoCursor
        /\ handled # {} => c \in handled /\ \A j \in handled : j <= c
    BY <2>2, CursorIsLast DEF ReadFrom
  <2>5. /\ Len(history) \in Nat /\ Window \in Int
        /\ Successful \subseteq Int /\ handled \subseteq Successful
        /\ submitted \subseteq Successful
    BY Sizes
  <2>6. c \in Int /\ (handled # {} => c # NoCursor)
    <3>1. handled \subseteq Txs
      BY DEF TypeOK
    <3>. QED  BY <2>4, <3>1 DEF Txs, NoCursor
  <2>7. ASSUME NEW k \in Successful, NEW j \in handled \cup B, j < k,
               NEW l \in handled \cup B, k < l
        PROVE  k \in handled \cup B
    <3>1. j \in Int /\ k \in Int
      BY <2>3, <2>5
    <3>2. CASE handled = {}
      BY <2>3, <2>4, <2>5, <2>7, <3>1, <3>2
    <3>3. CASE handled # {} /\ c < k
      BY <2>3, <2>6, <3>3
    <3>4. CASE handled # {} /\ k <= c
      <4>1. j \in handled
        BY <2>3, <2>6, <2>7, <3>1, <3>4
      <4>2. CASE k = c
        BY <2>4, <3>4, <4>2
      <4>3. CASE k < c
        BY <1>3, <2>4, <2>7, <3>4, <4>1, <4>3 DEF GapInv, Gapless
      <4>. QED  BY <2>6, <3>1, <3>4, <4>2, <4>3
    <3>. QED  BY <2>6, <3>1, <3>2, <3>3, <3>4
  <2>8. GapInv'
    BY <1>1, <1>3, <2>7 DEF GapInv, Gapless
  <2>9. ASSUME handled = {}
        PROVE  /\ \A i \in B \cup submitted : \A k \in Successful \ B :
                     k < i => Len(history) - k >= Window
               /\ \A i \in submitted, k \in B : i <= k
    <3>1. \A k \in Successful \ B : Len(history) - k >= Window
      BY <2>3, <2>4, <2>5, <2>9
    <3>2. ASSUME NEW i \in submitted, NEW k \in B  PROVE i <= k
      <4>1. k < i => Len(history) - k >= Window
        BY <1>3, <2>1, <2>3, <2>9, <3>2 DEF WindowInv
      <4>2. Len(history) - k < Window
        BY <2>3, <2>4, <2>9, <3>2
      <4>. QED  BY <2>3, <2>5, <3>2, <4>1, <4>2
    <3>. QED  BY <3>1, <3>2
  <2>10. WindowInv'
    BY <1>1, <2>9 DEF WindowInv
  <2>11. HalfInv'
    BY <1>1 DEF HalfInv
  <2>. QED  BY <2>8, <2>10, <2>11
<1>. QED  BY <1>2, <1>3

LEMMA GapSubmit ==
  ASSUME TypeOK, BatchInv, OrderInv, GapInv, WindowInv, HalfInv, Submit
  PROVE  GapInv' /\ WindowInv' /\ HalfInv'
<1>1. /\ pc \in Mid /\ submitted' = submitted \cup {current}
      /\ UNCHANGED <<source, history, handled, staged>> /\ Successful' = Successful
  BY DEF Submit, stream, Mid, Successful
<1>2. GapInv'
  BY <1>1 DEF GapInv, Gapless
<1>3. WindowInv'
  <2>. SUFFICES ASSUME source = "poll", handled = {}  PROVE WindowInv'
    BY <1>1 DEF WindowInv
  <2>1. current \in staged /\ staged \ todo \subseteq {} /\ \A j \in todo : current <= j
    BY <1>1 DEF BatchInv, Mid, Between
  <2>2. \A k \in staged : current <= k
    BY <2>1
  <2>. QED  BY <1>1, <2>1, <2>2 DEF WindowInv
<1>4. HalfInv'
  BY <1>1, NextRecorded DEF HalfInv, HalfDone
<1>. QED  BY <1>2, <1>3, <1>4

(* Once the next launch is recorded no launch is half done.                *)
LEMMA GapRecord ==
  ASSUME TypeOK, BatchInv, OrderInv, GapInv, WindowInv, HalfInv, Record
  PROVE  GapInv' /\ WindowInv' /\ HalfInv'
<1>1. /\ pc \in Mid /\ handled' = handled \cup {current}
      /\ UNCHANGED <<source, history, submitted, staged>> /\ Successful' = Successful
  BY DEF Record, stream, Mid, Successful
<1>2. /\ current \in staged /\ current \in Successful /\ current \notin handled
      /\ Above(current)
      /\ source = "poll" =>
           \A k \in Successful : k < current /\ (\E j \in handled : j < k) => k \in handled
  BY <1>1, NextRecorded
<1>3. /\ Successful \subseteq Int /\ handled \subseteq Successful
      /\ submitted \subseteq Successful
  BY Sizes
<1>4. GapInv'
  <2>. SUFFICES ASSUME source = "poll"  PROVE Gapless(handled)' /\ Gapless(handled \cup staged)'
    BY <1>1 DEF GapInv
  <2>1. ASSUME NEW k \in Successful, NEW j \in handled \cup {current}, j < k,
               NEW l \in handled \cup {current}, k < l
        PROVE  k \in handled
    <3>1. k \in Int /\ j \in Int /\ l \in Int /\ current \in Int
      BY <1>2, <1>3
    <3>2. l <= current
      BY <1>2, <3>1 DEF Above
    <3>3. k < current /\ j \in handled
      BY <2>1, <3>1, <3>2
    <3>. QED  BY <1>2, <2>1, <3>3
  <2>2. Gapless(handled)'
    BY <1>1, <2>1 DEF Gapless
  <2>3. handled' \cup staged' = handled \cup staged
    BY <1>1, <1>2
  <2>4. Gapless(handled \cup staged)'
    BY <1>1, <2>3 DEF GapInv, Gapless
  <2>. QED  BY <2>2, <2>4
<1>5. WindowInv'
  BY <1>1 DEF WindowInv
<1>6. ASSUME source = "poll", NEW i \in HalfDone'  PROVE FALSE
  <2>1. /\ i \in submitted /\ i \notin handled /\ i # current
        /\ \E j \in handled \cup {current} : j < i
    BY <1>1, <1>6 DEF HalfDone
  <2>2. i \in Int /\ current \in Int /\ i \in Successful /\ \A j \in handled : j < current
    BY <1>2, <1>3, <2>1 DEF Above
  <2>3. CASE \E j \in handled : j < i
    <3>1. ~(i < current)
      BY <1>2, <1>6, <2>1, <2>2, <2>3
    <3>2. current < i
      BY <2>1, <2>2, <3>1
    <3>3. i \in HalfDone
      BY <2>1, <2>3 DEF HalfDone
    <3>. QED  BY <1>2, <1>6, <2>2, <2>3, <3>2, <3>3 DEF HalfInv
  <2>4. CASE ~\E j \in handled : j < i
    <3>1. current < i
      BY <2>1, <2>4
    <3>2. handled = {}
      BY <1>3, <2>2, <2>4, <3>1
    <3>3. i <= current
      BY <1>2, <1>6, <2>1, <3>2 DEF WindowInv
    <3>. QED  BY <2>2, <3>1, <3>3
  <2>. QED  BY <2>3, <2>4
<1>7. HalfInv'
  BY <1>1, <1>6 DEF HalfInv
<1>. QED  BY <1>4, <1>5, <1>7

LEMMA GapStep ==
  ASSUME TypeOK, BatchInv, OrderInv, GapInv, WindowInv, HalfInv, [Next]_vars
  PROVE  GapInv' /\ WindowInv' /\ HalfInv'
<1>1. CASE Handling /\ ~Submit /\ ~Record
  <2>1. /\ UNCHANGED <<source, history, handled, submitted>>
        /\ staged' = staged \/ staged' = {}
    BY <1>1 DEF Handling, SkipHandled, Persist, AdvanceOpenPositions, NothingToBuy,
                SavePosition, Acknowledge, PollOpenPositions, durable, NoBatch
  <2>. QED  BY <2>1, GapKept
<1>2. CASE Crash \/ Ends \/ Sockets
  <2>1. /\ UNCHANGED <<source, history, handled, submitted>>
        /\ staged' = staged \/ staged' = {}
    BY <1>2 DEF Crash, Ends, EndAbstained, Sockets, kernel, durable, NoBatch
  <2>. QED  BY <2>1, GapKept
<1>. QED
  BY <1>1, <1>2, Cases, GapFinalize, GapTakes, GapSubmit, GapRecord

(* The trade of a launch comes before its record.                          *)
LEMMA TradeStep ==
  ASSUME TypeOK, BatchInv, TradeInv, [Next]_vars
  PROVE  TradeInv'
<1>1. ASSUME NEW kind \in TxKinds, Finalize(kind)  PROVE TradeInv'
  <2>1. /\ UNCHANGED <<source, pc, current, handled, submitted>>
        /\ \A i \in 1 .. Len(history) : history'[i] = history[i]
    BY <1>1, Growth DEF Finalize, durable
  <2>2. /\ handled \subseteq 1 .. Len(history)
        /\ pc = "recording" => current \in 1 .. Len(history)
    BY Sizes DEF BatchInv, Mid
  <2>. QED  BY <2>1, <2>2 DEF TradeInv
<1>2. CASE Handling
  <2>0. UNCHANGED <<source, history>>
    BY <1>2 DEF Handling, SkipHandled, Persist, AdvanceOpenPositions, NothingToBuy, Submit,
                SavePosition, Record, Acknowledge, PollOpenPositions
  <2>1. CASE Submit
    BY <2>0, <2>1 DEF Submit, TradeInv
  <2>2. CASE SavePosition
    BY <2>0, <2>2 DEF SavePosition, TradeInv
  <2>3. CASE NothingToBuy
    BY <2>0, <2>3 DEF NothingToBuy, TradeInv, Launches, durable
  <2>4. CASE Record
    BY <2>0, <2>4 DEF Record, TradeInv
  <2>5. CASE \/ \E i \in Txs : SkipHandled(i) \/ Persist(i)
             \/ AdvanceOpenPositions \/ Acknowledge \/ PollOpenPositions
    <3>1. /\ pc' \notin {"bought", "recording"} /\ UNCHANGED <<handled, submitted>>
      BY <2>5 DEF SkipHandled, Persist, AdvanceOpenPositions, Acknowledge,
                  PollOpenPositions, durable
    <3>. QED  BY <2>0, <3>1 DEF TradeInv
  <2>. QED  BY <1>2, <2>1, <2>2, <2>3, <2>4, <2>5 DEF Handling
<1>3. CASE Crash \/ Ends
  <2>1. /\ pc' = "reading" /\ UNCHANGED <<source, history, handled, submitted>>
    BY <1>3 DEF Crash, Ends, EndAbstained, durable
  <2>. QED  BY <2>1 DEF TradeInv
<1>4. CASE Sockets
  BY <1>4 DEF Sockets, kernel, TradeInv
<1>5. ASSUME NEW B \in SUBSET Txs, Takes(B)  PROVE TradeInv'
  <2>1. /\ pc' = "handling" /\ UNCHANGED <<source, history, handled, submitted>>
    BY <1>5 DEF Takes, Hand, durable
  <2>. QED  BY <2>1 DEF TradeInv
<1>. QED  BY <1>1, <1>2, <1>3, <1>4, <1>5, Cases

LoopInv ==
    /\ TypeOK /\ BatchInv /\ TradeInv /\ FeedInv /\ OrderInv
    /\ GapInv /\ WindowInv /\ HalfInv

LEMMA LoopAlways == Spec => []LoopInv
<1>1. Init => LoopInv
  <2>. SUFFICES ASSUME Init  PROVE LoopInv
    OBVIOUS
  <2>1. /\ history = <<>> /\ feed = <<>> /\ Len(history) = 0 /\ Len(feed) = 0
        /\ history \in Seq(TxKinds) /\ feed \in Seq(Txs \cup {Orphan})
    BY DEF Init
  <2>2. TypeOK
    <3>1. /\ source \in Sources /\ pc = "reading" /\ current = NoSignature
          /\ caughtUp = FALSE /\ connected = FALSE /\ pending = NoSignature
          /\ faults = 0
      BY DEF Init
    <3>2. /\ raw = {} /\ handled = {} /\ positions = {} /\ submitted = {}
          /\ staged = {} /\ todo = {} /\ bought = {}
      BY DEF Init, NoBatch
    <3>3. faults \in 0 .. MaxFaults /\ Len(history) <= MaxHistory
      BY <2>1, <3>1, LoopAssumption
    <3>4. caughtUp \in BOOLEAN /\ connected \in BOOLEAN /\ pc \in PCs
      BY <3>1 DEF PCs
    <3>5. /\ current \in Txs \cup {NoSignature}
          /\ pending \in Txs \cup {Orphan, NoSignature}
      BY <3>1
    <3>. QED  BY <2>1, <3>1, <3>2, <3>3, <3>4, <3>5 DEF TypeOK
  <2>3. BatchInv /\ TradeInv /\ FeedInv /\ OrderInv
    BY <2>1 DEF Init, NoBatch, BatchInv, TradeInv, FeedInv, OrderInv, Between, Mid
  <2>4. GapInv /\ WindowInv /\ HalfInv
    BY DEF Init, NoBatch, GapInv, Gapless, WindowInv, HalfInv, HalfDone
  <2>. QED  BY <2>2, <2>3, <2>4 DEF LoopInv
<1>2. LoopInv /\ [Next]_vars => LoopInv'
  BY TypeStep, FlowStep, GapStep, TradeStep DEF LoopInv
<1>. QED  BY <1>1, <1>2, PTL DEF Spec

-----------------------------------------------------------------------------
(* Every variable keeps its type, for any history and bounds of a read.    *)
THEOREM TypeCorrect == Spec => []TypeOK
BY LoopAlways, PTL DEF LoopInv

(* A polling watcher never leaves two trades half done, and never records a*)
(* launch past one that is: wherever it crashes, the launch it may have    *)
(* bought is the next one it reads.                                        *)
THEOREM TradesAreRecordedCorrect == Spec => []TradesAreRecorded
<1>1. LoopInv => TradesAreRecorded
  <2>. SUFFICES ASSUME LoopInv, source = "poll"  PROVE TradesAreRecorded
    BY DEF TradesAreRecorded
  <2>1. /\ HalfDone \subseteq Successful /\ Successful \subseteq Int
        /\ handled \subseteq Successful
    BY Sizes DEF LoopInv, HalfDone
  <2>2. ASSUME NEW i \in HalfDone, NEW j \in handled  PROVE j < i
    <3>1. i \notin handled /\ (\E l \in handled : l < i)
      BY DEF HalfDone
    <3>2. ~(i < j)
      BY <2>1, <3>1 DEF LoopInv, GapInv, Gapless
    <3>. QED  BY <2>1, <3>1, <3>2
  <2>3. ASSUME NEW i \in HalfDone, NEW j \in HalfDone  PROVE ~(j < i)
    <3>1. j \notin handled /\ (\E l \in handled : l < j)
      BY DEF HalfDone
    <3>. QED  BY <2>1, <3>1 DEF LoopInv, HalfInv
  <2>4. \A i, j \in HalfDone : j = i
    BY <2>1, <2>3
  <2>. QED  BY <2>2, <2>4 DEF LoopInv, TradeInv, TradesAreRecorded
<1>. QED  BY <1>1, LoopAlways, PTL

(* An open position is of a submitted launch whose observation is stored.  *)
THEOREM PositionsHaveEvidenceCorrect == Spec => []PositionsHaveEvidence
<1>1. LoopInv => PositionsHaveEvidence
  BY DEF LoopInv, BatchInv, PositionsHaveEvidence
<1>. QED  BY <1>1, LoopAlways, PTL

(* Every step of the loop is one of InOrderHandling or none of its         *)
(* business.                                                               *)
LEMMA PromiseStep ==
  ASSUME LoopInv, [Next]_vars
  PROVE  [Promise!Next]_(Promise!vars)
<1>1. ASSUME NEW kind \in TxKinds, Finalize(kind)  PROVE Promise!Finalize
  BY <1>1 DEF Finalize, Promise!Finalize, TxKinds, Kinds, durable
<1>2. CASE Record
  <2>1. pc \in Mid /\ handled' = handled \cup {current} /\ UNCHANGED <<source, history>>
    BY <1>2 DEF Record, Mid
  <2>2. /\ current \in Successful /\ Above(current)
        /\ source = "poll" =>
             \A k \in Successful : k < current /\ (\E j \in handled : j < k) => k \in handled
    BY <2>1, NextRecorded DEF LoopInv
  <2>3. current \in 1 .. Len(history) /\ Len(history) \in Nat
    BY <2>2, Lengths DEF LoopInv, Successful
  <2>4. ASSUME source = "poll", NEW k \in 1 .. current - 1, history[k] # "failed",
               \E j \in handled : j < k
        PROVE  k \in handled
    <3>1. k \in Successful /\ k < current
      BY <2>3, <2>4 DEF Successful
    <3>. QED  BY <2>2, <2>4, <3>1
  <2>5. Promise!Record(current)
    BY <2>1, <2>2, <2>4
       DEF Promise!Record, Promise!Successful, Successful, Above
  <2>. QED  BY <2>3, <2>5 DEF Promise!Next
<1>3. CASE UNCHANGED <<source, history, handled>>
  BY <1>3 DEF Promise!vars
<1>4. CASE Handling /\ ~Record
  <2>1. UNCHANGED <<source, history, handled>>
    BY <1>4 DEF Handling, SkipHandled, Persist, AdvanceOpenPositions, NothingToBuy, Submit,
                SavePosition, Acknowledge, PollOpenPositions, durable
  <2>. QED  BY <1>3, <2>1
<1>5. CASE Crash \/ Ends \/ Sockets
  <2>1. UNCHANGED <<source, history, handled>>
    BY <1>5 DEF Crash, Ends, EndAbstained, Sockets, kernel, durable
  <2>. QED  BY <1>3, <2>1
<1>6. ASSUME NEW B \in SUBSET Txs, Takes(B)  PROVE UNCHANGED <<source, history, handled>>
  BY <1>6 DEF Takes, durable
<1>. QED  BY <1>1, <1>2, <1>3, <1>4, <1>5, <1>6, Cases DEF LoopInv, Promise!Next

(* The loop implements InOrderHandling: transactions are recorded in chain *)
(* order, whatever crashes, fails, is read again or announced twice, and a *)
(* polling watcher leaves none out.                                        *)
THEOREM HandlesInOrderCorrect == Spec => HandlesInOrder
<1>1. Init => Promise!Init
  BY DEF Init, Promise!Init
<1>2. LoopInv /\ [Next]_vars => [Promise!Next]_(Promise!vars)
  BY PromiseStep
<1>. QED  BY <1>1, <1>2, LoopAlways, PTL DEF Spec, HandlesInOrder, Promise!Spec

-----------------------------------------------------------------------------
(* What the promise is worth: it is proved of InOrderHandling, and the loop *)
(* has it because it implements InOrderHandling.                           *)
ChainTyped == history \in Seq({"create", "refused", "other", "failed"})

LEMMA FinalizeBetween ==
  ASSUME ChainTyped, Promise!NothingBetween, Promise!Finalize
  PROVE  ChainTyped' /\ (Promise!NothingBetween)'
<1>1. PICK kind \in {"create", "refused", "other", "failed"} : history' = Append(history, kind)
  BY DEF Promise!Finalize
<1>2. /\ ChainTyped' /\ Len(history) \in Nat /\ Len(history') = Len(history) + 1
      /\ \A k \in 1 .. Len(history) : history'[k] = history[k]
  BY <1>1 DEF ChainTyped
<1>3. handled' = handled /\ (source' = "poll") = (source = "poll")
  BY DEF Promise!Finalize
<1>4. \A i \in handled : i \in 1 .. Len(history) /\ history[i] # "failed"
  BY DEF Promise!NothingBetween, Promise!Successful
<1>5. ASSUME NEW i \in handled'
      PROVE  i \in 1 .. Len(history') /\ history'[i] # "failed"
  BY <1>2, <1>3, <1>4, <1>5
<1>6. ASSUME source = "poll", NEW i \in handled, NEW j \in handled, NEW k \in i .. j,
             history'[k] # "failed"
      PROVE  k \in handled
  <2>1. k \in 1 .. Len(history)
    BY <1>2, <1>4, <1>6
  <2>2. history[k] # "failed"
    BY <1>2, <1>6, <2>1
  <2>. QED  BY <1>6, <2>2 DEF Promise!NothingBetween, Promise!Successful
<1>. QED  BY <1>2, <1>3, <1>5, <1>6 DEF Promise!NothingBetween, Promise!Successful

LEMMA RecordBetween ==
  ASSUME ChainTyped, Promise!NothingBetween,
         NEW r \in 1 .. Len(history), Promise!Record(r)
  PROVE  (Promise!NothingBetween)'
<1>1. /\ history[r] # "failed" /\ handled' = handled \cup {r}
      /\ history' = history /\ (source' = "poll") = (source = "poll")
      /\ \A j \in handled : j < r
  BY DEF Promise!Record, Promise!Successful
<1>2. Len(history) \in Nat
  BY DEF ChainTyped
<1>3. \A i \in handled : i \in 1 .. Len(history) /\ history[i] # "failed"
  BY DEF Promise!NothingBetween, Promise!Successful
<1>4. ASSUME source = "poll", NEW i \in handled', NEW j \in handled', NEW k \in i .. j,
             history[k] # "failed"
      PROVE  k \in handled'
  <2>1. k \in 1 .. Len(history) /\ i <= k /\ k <= j
    BY <1>1, <1>2, <1>3, <1>4
  <2>2. CASE j # r
    <3>1. i # r /\ j \in handled
      BY <1>1, <1>2, <1>3, <1>4, <2>1, <2>2
    <3>2. i \in handled
      BY <1>1, <1>4, <3>1
    <3>. QED  BY <1>1, <1>4, <3>1, <3>2 DEF Promise!NothingBetween, Promise!Successful
  <2>3. CASE j = r /\ (k = r \/ k = i)
    BY <1>1, <1>4, <2>3
  <2>4. CASE j = r /\ k # r /\ k # i
    <3>1. k \in 1 .. r - 1 /\ i < k
      BY <1>2, <1>3, <1>1, <1>4, <2>1, <2>4
    <3>2. i \in handled
      BY <1>1, <1>2, <1>4, <2>1, <2>4
    <3>3. (\E h \in handled : h < k) => k \in handled
      BY <1>4, <3>1 DEF Promise!Record, Promise!Successful
    <3>. QED  BY <1>1, <3>1, <3>2, <3>3
  <2>. QED  BY <2>2, <2>3, <2>4
<1>5. \A i \in handled' : i \in 1 .. Len(history) /\ history[i] # "failed"
  BY <1>1, <1>3
<1>. QED  BY <1>1, <1>4, <1>5 DEF Promise!NothingBetween, Promise!Successful

(* In-order handling leaves nothing out: the first record of a gapless     *)
(* source starts an unbroken run of every successful transaction up to the *)
(* newest record.                                                          *)
THEOREM PromiseLeavesNothingOut == Promise!Spec => []Promise!NothingBetween
<1>1. Promise!Init => ChainTyped /\ Promise!NothingBetween
  BY DEF Promise!Init, ChainTyped, Promise!NothingBetween
<1>2. ASSUME ChainTyped, Promise!NothingBetween, [Promise!Next]_(Promise!vars)
      PROVE  ChainTyped' /\ (Promise!NothingBetween)'
  <2>1. CASE Promise!Finalize
    BY <1>2, <2>1, FinalizeBetween
  <2>2. ASSUME NEW r \in 1 .. Len(history), Promise!Record(r)
        PROVE  ChainTyped' /\ (Promise!NothingBetween)'
    BY <1>2, <2>2, RecordBetween DEF Promise!Record, ChainTyped
  <2>3. CASE UNCHANGED Promise!vars
    BY <1>2, <2>3 DEF Promise!vars, ChainTyped, Promise!NothingBetween, Promise!Successful
  <2>. QED  BY <1>2, <2>1, <2>2, <2>3 DEF Promise!Next
<1>. QED  BY <1>1, <1>2, PTL DEF Promise!Spec

(* So does the loop: over crashes, rejected cycles, re-read pages and full *)
(* history bounds a polling watcher never records a launch past one it has *)
(* left out.                                                               *)
THEOREM NothingLeftOut == Spec => []Promise!NothingBetween
BY HandlesInOrderCorrect, PromiseLeavesNothingOut, PTL DEF HandlesInOrder

-----------------------------------------------------------------------------
(* The least of some numbers up to n: the finite sets 0 .. x have a smallest *)
(* one.  This is the induction over pages that the proofs below need.      *)
LEMMA LeastOf ==
  ASSUME NEW n \in Nat, NEW T, T \subseteq 0 .. n, T # {}
  PROVE  \E x \in T : \A y \in T : x <= y
  <1> DEFINE Below == {0 .. x : x \in T}
  <1>1. IsFiniteSet(0 .. n)  BY FS_Interval
  <1>2. IsWellFoundedOn(StrictSubsetOrdering(0 .. n), FiniteSubsetsOf(0 .. n))
    BY FS_StrictSubsetOrderingWellFounded
  <1>3. Below \subseteq FiniteSubsetsOf(0 .. n) /\ Below # {}
    <2>1. \A x \in 0 .. n : 0 .. x \in SUBSET (0 .. n) /\ IsFiniteSet(0 .. x)
      BY FS_Interval
    <2> QED BY <2>1 DEF FiniteSubsetsOf
  <1>4. PICK s \in Below : \A t \in Below : ~ (<<t, s>> \in StrictSubsetOrdering(0 .. n))
    BY <1>2, <1>3, WFMin
  <1>5. PICK x \in T : s = 0 .. x
    OBVIOUS
  <1>6. ASSUME NEW y \in T, ~(x <= y)
        PROVE  FALSE
    <2>0. x \in 0 .. n /\ y \in 0 .. n
      OBVIOUS
    <2>1. 0 .. y \in Below
      OBVIOUS
    <2>2. 0 .. y \subseteq 0 .. x /\ 0 .. x \subseteq 0 .. n
      BY <1>6, <2>0
    <2>3. x \in 0 .. x /\ x \notin 0 .. y
      BY <1>6, <2>0
    <2>4. <<0 .. y, 0 .. x>> \in StrictSubsetOrdering(0 .. n)
      BY <2>2, <2>3 DEF StrictSubsetOrdering
    <2> QED BY <2>1, <2>4, <1>4, <1>5
  <1> QED BY <1>6

(* A recursion down from the last page has one solution.                   *)
LEMMA OneSolution ==
  ASSUME NEW n \in Nat, NEW f, NEW g,
         \A k \in 1 .. n : f[k + 1] = g[k + 1] => f[k] = g[k],
         f[n + 1] = g[n + 1]
  PROVE  \A k \in 1 .. n + 1 : f[k] = g[k]
  <1> DEFINE Differ == {d \in 0 .. n : f[n + 1 - d] # g[n + 1 - d]}
  <1>1. SUFFICES ASSUME Differ # {}
                 PROVE  FALSE
    <2>1. ASSUME NEW k \in 1 .. n + 1
          PROVE  n + 1 - k \in 0 .. n /\ n + 1 - (n + 1 - k) = k
      OBVIOUS
    <2> QED BY <2>1
  <1>2. PICK d \in Differ : \A e \in Differ : d <= e
    <2>1. Differ \subseteq 0 .. n
      OBVIOUS
    <2> HIDE DEF Differ
    <2> QED BY <1>1, <2>1, LeastOf
  <1>3. CASE d = 0
    BY <1>3
  <1>4. CASE d # 0
    <2>1. d - 1 \in 0 .. n /\ d - 1 \notin Differ
      <3>1. d \in 0 .. n
        OBVIOUS
      <3>2. d - 1 \in 0 .. n /\ ~(d <= d - 1)
        BY <3>1, <1>4
      <3> HIDE DEF Differ
      <3> QED BY <3>2, <1>2
    <2>2. n + 1 - d \in 1 .. n /\ n + 1 - (d - 1) = n + 1 - d + 1
      BY <1>4
    <2>3. f[n + 1 - d + 1] = g[n + 1 - d + 1]
      BY <2>1, <2>2
    <2> QED BY <2>2, <2>3
  <1> QED BY <1>3, <1>4

(* Multiples of the page size.                                             *)
LEMMA Multiples ==
  ASSUME NEW M \in Nat \ {0}, NEW k \in Nat \ {0}, NEW P \in Nat
  PROVE  /\ k * M \in Nat /\ (k - 1) * M \in Nat /\ P * M \in Nat
         /\ (k + 1 - 1) * M = k * M
         /\ k * M = (k - 1) * M + M
         /\ k <= P => k * M <= P * M
         /\ P < k => P * M <= (k - 1) * M
  <1>1. k * M \in Nat /\ (k - 1) * M \in Nat /\ P * M \in Nat
    OBVIOUS
  <1>2. k * M = (k - 1) * M + M
    OBVIOUS
  <1>3. ASSUME k <= P
        PROVE  k * M <= P * M
    <2>1. P * M = k * M + (P - k) * M /\ (P - k) * M \in Nat
      BY <1>3
    <2> QED BY <2>1, <1>1
  <1>4. ASSUME P < k
        PROVE  P * M <= (k - 1) * M
    <2>1. (k - 1) * M = P * M + (k - 1 - P) * M /\ (k - 1 - P) * M \in Nat
      BY <1>4
    <2> QED BY <2>1, <1>1
  <1> QED BY <1>1, <1>2, <1>3, <1>4

(* Quotient and remainder.                                                 *)
LEMMA Quotient ==
  ASSUME NEW M \in Nat \ {0}, NEW n \in Nat
  PROVE  /\ n \div M \in Nat /\ n % M \in 0 .. M - 1
         /\ n = (n \div M) * M + (n % M)
  <1>1. n \div M \in Int /\ n % M \in 0 .. M - 1
    OBVIOUS
  <1>2. n = M * (n \div M) + (n % M)
    OBVIOUS
  <1>3. n \div M >= 0
    BY <1>1, <1>2
  <1> QED BY <1>1, <1>2, <1>3

(* A number between two pages is no multiple of the page size; one that    *)
(* ends a page is, and counts the pages before.                            *)
LEMMA EndOfPage ==
  ASSUME NEW M \in Nat \ {0}, NEW k \in Nat \ {0}, NEW n \in Nat
  PROVE  /\ n = k * M => n % M = 0 /\ n \div M = k
         /\ (k - 1) * M < n /\ n < k * M => n % M # 0
         /\ n % M = 0 /\ k * M < n => k < n \div M
  <1> DEFINE q == n \div M
             r == n % M
  <1>1. q \in Nat /\ r \in 0 .. M - 1 /\ n = q * M + r
    BY Quotient
  <1> HIDE DEF q, r
  <1>2. CASE q < k
    <2>1. q * M <= (k - 1) * M /\ k * M = (k - 1) * M + M /\ q * M \in Nat /\ (k - 1) * M \in Nat
      BY <1>1, <1>2, Multiples
    <2>2. n < k * M /\ (r = 0 => n <= (k - 1) * M)
      BY <2>1, <1>1
    <2> QED BY <2>2, <2>1 DEF r
  <1>3. CASE q = k
    <2>1. k * M \in Nat /\ n = k * M + r
      BY <1>1, <1>3, Multiples
    <2> QED BY <2>1, <1>1, <1>3 DEF q, r
  <1>4. CASE k < q
    <2>1. k + 1 \in Nat \ {0} /\ (k + 1 - 1) * M = k * M /\ (k + 1) * M = (k + 1 - 1) * M + M
          /\ (k + 1) * M <= q * M /\ q * M \in Nat /\ k * M \in Nat
      BY <1>1, <1>4, Multiples
    <2>2. k * M < n
      BY <2>1, <1>1
    <2> QED BY <2>1, <2>2, <1>4 DEF q
  <1> QED BY <1>1, <1>2, <1>3, <1>4

(* A read returns what the code's page loop returns, for every page size,  *)
(* bound on transactions and pages, kind of endpoint, history and cursor   *)
(* (_read_signature_history): everything newer than the cursor or nothing. *)
(* From(k) is what the turns from page k on return, in closed form; it     *)
(* solves the loop's recursion, which has one solution.                    *)
THEOREM PageLoopIsHistory ==
  ASSUME NEW M \in Nat \ {0}, NEW T \in Nat \ {0}, NEW P \in Nat \ {0}, NEW B \in BOOLEAN,
         NEW tip \in Nat, NEW cursor \in 1 .. tip
  PROVE  Reader(M, T, P, B)!SignatureHistory(tip, cursor)
           = Reader(M, T, P, B)!PageLoop(tip, cursor)
  <1> DEFINE unseen == tip - cursor
             listed == IF B THEN tip ELSE unseen
             Within == Reader(M, T, P, B)!WithinBounds(tip, cursor)
             Turn(k, rest) == Reader(M, T, P, B)!PageTurn(tip, cursor, k, rest)
             Nothing == Reader(M, T, P, B)!Abstain
             All(n) == Reader(M, T, P, B)!Entries(tip, n)
             From(k) == IF k > P THEN Nothing
                        ELSE IF listed <= (k - 1) * M THEN All((k - 1) * M)
                        ELSE IF Within THEN All(unseen) ELSE Nothing
             f == CHOOSE page : page = [k \in 1 .. P + 1 |-> Turn(k, page[k + 1])]
             g == [k \in 1 .. P + 1 |-> From(k)]
  <1>1. ASSUME NEW k \in 1 .. P
        PROVE  From(k) = Turn(k, From(k + 1))
    <2> DEFINE below == (k - 1) * M
               full == k * M
               last == Reader(M, T, P, B)!Least(full, listed)
    <2>1. /\ below \in Nat /\ full \in Nat /\ P * M \in Nat
          /\ (k + 1 - 1) * M = full /\ full = below + M /\ full <= P * M
          /\ P < k + 1 => P * M <= full
      BY Multiples
    <2>2. unseen \in Nat /\ listed \in Nat /\ unseen < tip
      OBVIOUS
    <2>3. /\ last = IF full <= listed THEN full ELSE listed
          /\ Reader(M, T, P, B)!Least(last, unseen + 1 - 1) = IF last <= unseen THEN last ELSE unseen
      BY <2>2 DEF Reader!Least
    <2>4. From(k) = IF listed <= below THEN All(below)
                    ELSE IF Within THEN All(unseen) ELSE Nothing
      OBVIOUS
    <2>5. From(k + 1) = IF k = P THEN Nothing
                        ELSE IF listed <= full THEN All(full)
                        ELSE IF Within THEN All(unseen) ELSE Nothing
      BY <2>1
    <2>6. \A rest : Turn(k, rest) =
            IF last <= below THEN All(below)
            ELSE IF (IF last <= unseen THEN last ELSE unseen) > T THEN Nothing
            ELSE IF unseen + 1 <= last THEN All(unseen)
            ELSE IF last < full THEN Nothing ELSE rest
      BY <2>3 DEF Reader!PageTurn
    <2>7. CASE B
      <3>1. listed = tip /\ (Within <=> unseen <= T /\ unseen + 1 <= P * M)
        BY <2>7 DEF Reader!WithinBounds
      <3> HIDE DEF full, below, last, listed, unseen, Within, From, Turn, All, Nothing
      <3> QED BY <2>1, <2>2, <2>3, <2>4, <2>5, <2>6, <3>1
    <2>8. CASE ~B
      <3>1. /\ listed = unseen
            /\ Within <=> unseen <= T /\ unseen % M = 0 /\ unseen \div M < P
        BY <2>8 DEF Reader!WithinBounds
      <3>2. /\ unseen = full => unseen % M = 0 /\ unseen \div M = k
            /\ below < unseen /\ unseen < full => unseen % M # 0
            /\ unseen % M = 0 /\ full < unseen => k < unseen \div M
            /\ unseen \div M \in Nat
        BY <2>2, EndOfPage, Quotient
      <3> HIDE DEF full, below, last, listed, unseen, Within, From, Turn, All, Nothing
      <3> QED BY <2>1, <2>2, <2>3, <2>4, <2>5, <2>6, <3>1, <3>2
    <2> QED BY <2>7, <2>8
  <1>2. /\ \A rest : Turn(P + 1, rest) = Nothing
        /\ From(P + 1) = Nothing
    BY DEF Reader!PageTurn
  <1>7. g = [k \in 1 .. P + 1 |-> Turn(k, g[k + 1])]
    <2>1. ASSUME NEW k \in 1 .. P + 1
          PROVE  From(k) = Turn(k, g[k + 1])
      <3>1. CASE k \in 1 .. P
        <4>1. g[k + 1] = From(k + 1)
          BY <3>1
        <4> QED BY <3>1, <4>1, <1>1
      <3>2. CASE k = P + 1
        BY <3>2, <1>2
      <3> QED BY <3>1, <3>2
    <2> QED BY <2>1
  <1>3. f = [k \in 1 .. P + 1 |-> Turn(k, f[k + 1])]
    <2> DEFINE Solves(page) == page = [k \in 1 .. P + 1 |-> Turn(k, page[k + 1])]
    <2>1. \E page : Solves(page)
      BY <1>7
    <2> HIDE DEF Solves
    <2>2. Solves(CHOOSE page : Solves(page))
      BY <2>1
    <2> QED BY <2>2 DEF Solves
  <1>4. f[1] = From(1)
    <2>3. \A k \in 1 .. P + 1 : g[k] = From(k)
      OBVIOUS
    <2> HIDE DEF f, g, Turn, From, Nothing
    <2>5. \A k \in 1 .. P + 1 : f[k] = Turn(k, f[k + 1]) /\ g[k] = Turn(k, g[k + 1])
      <3>1. ASSUME NEW k \in 1 .. P + 1
            PROVE  f[k] = Turn(k, f[k + 1])
        BY <1>3
      <3>2. ASSUME NEW k \in 1 .. P + 1
            PROVE  g[k] = Turn(k, g[k + 1])
        BY <1>7
      <3> QED BY <3>1, <3>2
    <2>1. f[P + 1] = Nothing /\ g[P + 1] = Nothing
      BY <2>5, <1>2
    <2>2. \A k \in 1 .. P : f[k] = Turn(k, f[k + 1]) /\ g[k] = Turn(k, g[k + 1])
      BY <2>5
    <2>4. \A k \in 1 .. P + 1 : f[k] = g[k]
      BY <2>1, <2>2, OneSolution
    <2> QED BY <2>3, <2>4
  <1>5. Reader(M, T, P, B)!PageLoop(tip, cursor) = f[1]
    BY DEF Reader!PageLoop
  <1>6. Reader(M, T, P, B)!SignatureHistory(tip, cursor) = From(1)
    <2>1. cursor # Reader(M, T, P, B)!NoCursor
      BY DEF Reader!NoCursor
    <2>2. (1 - 1) * M = 0
      OBVIOUS
    <2>3. Reader(M, T, P, B)!Newer(tip, cursor) = {tip - j + 1 : j \in 1 .. unseen}
      <3>1. ASSUME NEW i \in (cursor + 1) .. tip
            PROVE  tip - i + 1 \in 1 .. unseen /\ i = tip - (tip - i + 1) + 1
        OBVIOUS
      <3>2. ASSUME NEW j \in 1 .. unseen
            PROVE  tip - j + 1 \in (cursor + 1) .. tip
        OBVIOUS
      <3> QED BY <3>1, <3>2 DEF Reader!Newer
    <2>4. CASE listed <= 0
      <3>1. ~B /\ unseen = 0
        BY <2>4
      <3>2. 0 % M = 0 /\ 0 \div M = 0
        OBVIOUS
      <3>3. Within
        BY <3>1, <3>2 DEF Reader!WithinBounds
      <3>4. From(1) = All(unseen)
        BY <2>2, <2>4, <3>1
      <3> QED BY <2>1, <2>3, <3>3, <3>4 DEF Reader!SignatureHistory, Reader!Entries
    <2>5. CASE ~(listed <= 0)
      BY <2>1, <2>2, <2>3, <2>5 DEF Reader!SignatureHistory, Reader!Entries
    <2> QED BY <2>4, <2>5
  <1> QED BY <1>4, <1>5, <1>6

(* The bounds that ReadIsThePageLoop goes through are some of these.       *)
LEMMA PageLoopsAgree ==
  ASSUME NEW n \in Nat
  PROVE  \A pageSize \in 1 .. 3, transactions \in 1 .. 4, pages \in 1 .. 3 :
           \A inPage \in BOOLEAN :
             Reader(pageSize, transactions, pages, inPage)!PageLoopAgrees(n)
  <1> SUFFICES ASSUME NEW M \in Nat \ {0}, NEW T \in Nat \ {0}, NEW P \in Nat \ {0},
                      NEW B \in BOOLEAN
               PROVE  Reader(M, T, P, B)!PageLoopAgrees(n)
    OBVIOUS
  <1> QED BY PageLoopIsHistory DEF Reader!PageLoopAgrees

(* The closed form that the model reads with is what the page loop of      *)
(* _read_signature_history returns.                                        *)
THEOREM ReadIsThePageLoopCorrect == Spec => []ReadIsThePageLoop
<1>1. TypeOK => Len(history) \in Nat
  BY DEF TypeOK
<1>2. TypeOK => ReadIsThePageLoop
  BY <1>1, PageLoopsAgree DEF ReadIsThePageLoop
<1>. QED  BY <1>2, TypeCorrect, PTL
=============================================================================
