---------------------------- MODULE RpcCacheProofs ----------------------------
(***************************************************************************)
(* Proofs about RpcCache for any callers and requests, any number of        *)
(* endpoints, any time to live, latency and poll budget.                    *)
(***************************************************************************)
EXTENDS RpcCache, TLAPS

USE DEF Oldest, Age, Answer, Row, CallPc, LoopPc, Idle

CallType == [pc : CallPc, request : Requests \cup {None}, left : 0..Endpoints,
             age : 0..Latency, answer : Answer \cup {None}]
LoopType == [pc : LoopPc, polls : 0..MaxPolls, slept : BOOLEAN, late : BOOLEAN]

(***************************************************************************)
(* The inductive invariant: what an answer says of the node and how old it  *)
(* is, wherever it is.                                                      *)
(***************************************************************************)

\* An answer was true once: what it says of request k the node has reached.
Said(answer, k) == answer.version <= truth[k]

\* A row is older than the answer it keeps by no more than a request lasts.
RowFact(k) ==
  row[k] # NoRow =>
    /\ Said(row[k].answer, k)
    /\ row[k].forever <=> k \in Immutable
    /\ row[k].answer.age <= row[k].age + Latency

\* An answer on its way is no older than its request.
CallFact(c) ==
  /\ ~Idle(c) => call[c].request \in Requests
  /\ call[c].pc = "inFlight" =>
       /\ call[c].answer \in Answer
       /\ Said(call[c].answer, call[c].request)
       /\ call[c].answer.age <= call[c].age

GotFact(c) ==
  got[c] # None =>
    /\ call[c].request \in Requests
    /\ Said(got[c], call[c].request)
    /\ call[c].request \notin Immutable => got[c].age <= Ttl + Latency

LoopFact(c) ==
  /\ loop[c].pc # "none" => call[c].request \in Requests
  /\ loop[c].pc = "landed" => truth[call[c].request] = MaxVersion

RowInv  == \A k \in Requests : RowFact(k)
CallInv == \A c \in Callers : CallFact(c) /\ GotFact(c) /\ LoopFact(c)

IInv == TypeOK /\ RowInv /\ CallInv

(***************************************************************************)
(* post_rpc.                                                                *)
(***************************************************************************)

LEMMA OlderType ==
  ASSUME NEW age \in Age
  PROVE  Older(age) \in Age /\ Older(age) <= age + 1 /\ (age < Oldest => Older(age) = age + 1)
  BY BoundAssumption DEF Older

LEMMA FreshAnswer ==
  ASSUME TypeOK, RowInv, NEW k \in Requests, Fresh(k)
  PROVE  /\ row[k].answer \in Answer /\ Said(row[k].answer, k)
         /\ k \notin Immutable => row[k].answer.age <= Ttl + Latency
  <1>1. row[k] \in Row /\ RowFact(k) /\ row[k] # NoRow
    BY DEF TypeOK, RowInv, Fresh
  <1>2. k \notin Immutable => row[k].age <= Ttl
    BY <1>1 DEF RowFact, Fresh
  <1> QED
    BY <1>1, <1>2, BoundAssumption DEF RowFact

\* A post leaves the types and the facts of its caller behind it.
LEMMA PostType ==
  ASSUME TypeOK, RowInv, NEW c \in Callers, NEW k \in Requests, Post(c, k)
  PROVE  /\ row' \in [Requests -> Row \cup {NoRow}]
         /\ call' \in [Callers -> CallType]
         /\ got' \in [Callers -> Answer \cup {None}]
  <1>1. CASE Fresh(k) /\ got' = [got EXCEPT ![c] = row[k].answer]
             /\ call' = [call EXCEPT ![c] = NoCall(k)] /\ UNCHANGED row
    BY <1>1, FreshAnswer, BoundAssumption DEF TypeOK, NoCall, CallType
  <1>2. CASE /\ call' = [call EXCEPT ![c] = [pc |-> "waiting", request |-> k,
                           left |-> Endpoints, age |-> 0, answer |-> None]]
             /\ got' = [got EXCEPT ![c] = None]
             /\ row' = [row EXCEPT ![k] = NoRow] \/ UNCHANGED row
    BY <1>2, BoundAssumption DEF TypeOK, CallType
  <1> QED
    BY <1>1, <1>2 DEF Post

LEMMA PostFacts ==
  ASSUME TypeOK, RowInv, NEW c \in Callers, NEW k \in Requests, Post(c, k), truth' = truth
  PROVE  /\ RowInv' /\ CallFact(c)' /\ GotFact(c)'
         /\ call'[c].request = k
         /\ \A d \in Callers : d # c => call'[d] = call[d] /\ got'[d] = got[d]
  <1>1. CASE Fresh(k) /\ got' = [got EXCEPT ![c] = row[k].answer]
             /\ call' = [call EXCEPT ![c] = NoCall(k)] /\ UNCHANGED row
    <2>1. call'[c] = NoCall(k) /\ got'[c] = row[k].answer
      BY <1>1 DEF TypeOK
    <2>2. RowInv'
      BY <1>1 DEF RowInv, RowFact, Said
    <2>3. CallFact(c)' /\ GotFact(c)'
      BY <1>1, <2>1, FreshAnswer DEF CallFact, GotFact, NoCall, Said
    <2> QED
      BY <1>1, <2>1, <2>2, <2>3 DEF TypeOK, NoCall
  <1>2. CASE /\ call' = [call EXCEPT ![c] = [pc |-> "waiting", request |-> k,
                           left |-> Endpoints, age |-> 0, answer |-> None]]
             /\ got' = [got EXCEPT ![c] = None]
             /\ row' = [row EXCEPT ![k] = NoRow] \/ UNCHANGED row
    <2>1. call'[c] = [pc |-> "waiting", request |-> k, left |-> Endpoints,
                      age |-> 0, answer |-> None] /\ got'[c] = None
      BY <1>2 DEF TypeOK
    <2>2. RowInv'
      BY <1>2 DEF TypeOK, RowInv, RowFact, Said
    <2>3. CallFact(c)' /\ GotFact(c)'
      BY <2>1 DEF CallFact, GotFact
    <2> QED
      BY <1>2, <2>1, <2>2, <2>3 DEF TypeOK
  <1> QED
    BY <1>1, <1>2 DEF Post

(***************************************************************************)
(* The steps.                                                               *)
(***************************************************************************)

\* A caller that does not move keeps what is known of it.
LEMMA StillCaller ==
  ASSUME CallInv, NEW d \in Callers, truth' = truth,
         call'[d] = call[d], got'[d] = got[d], loop'[d] = loop[d]
  PROVE  CallFact(d)' /\ GotFact(d)' /\ LoopFact(d)'
  BY DEF CallInv, CallFact, GotFact, LoopFact, Said

LEMMA LookStep ==
  ASSUME IInv, NEW c \in Callers, NEW k \in Requests, NEW polls \in 0..MaxPolls,
         Look(c, k, polls)
  PROVE  IInv'
  <1>t. TypeOK /\ RowInv /\ CallInv /\ Post(c, k) /\ truth' = truth
    BY DEF IInv, Look
  <1>1. /\ loop'[c] = [pc |-> "polling", polls |-> polls, slept |-> FALSE,
                       late |-> truth[k] = MaxVersion]
        /\ loop' \in [Callers -> LoopType]
        /\ \A d \in Callers : d # c => loop'[d] = loop[d]
    <2>1. (truth[k] = MaxVersion) \in BOOLEAN
      OBVIOUS
    <2> QED
      BY <1>t, <2>1 DEF Look, TypeOK, LoopType
  <1>2. TypeOK'
    BY <1>t, <1>1, PostType DEF TypeOK, CallType, LoopType
  <1>3. LoopFact(c)'
    BY <1>t, <1>1, PostFacts DEF LoopFact
  <1>4. CallInv'
    BY <1>t, <1>1, <1>3, PostFacts, StillCaller DEF CallInv
  <1> QED
    BY <1>t, <1>2, <1>4, PostFacts DEF IInv

LEMMA PostRpcStep ==
  ASSUME IInv, NEW c \in Callers, NEW k \in Requests, PostRpc(c, k)
  PROVE  IInv'
  <1>t. TypeOK /\ RowInv /\ CallInv /\ Post(c, k) /\ truth' = truth
    BY DEF IInv, PostRpc
  <1>1. /\ loop'[c] = NoLoop /\ loop' \in [Callers -> LoopType]
        /\ \A d \in Callers : d # c => loop'[d] = loop[d]
    BY <1>t, BoundAssumption DEF PostRpc, TypeOK, LoopType, NoLoop
  <1>2. TypeOK'
    BY <1>t, <1>1, PostType DEF TypeOK, CallType, LoopType
  <1>3. LoopFact(c)'
    BY <1>1 DEF LoopFact, NoLoop
  <1>4. CallInv'
    BY <1>t, <1>1, <1>3, PostFacts, StillCaller DEF CallInv
  <1> QED
    BY <1>t, <1>2, <1>4, PostFacts DEF IInv

LEMMA NodeAnswersStep ==
  ASSUME IInv, NEW c \in Callers, NodeAnswers(c)
  PROVE  IInv'
  <1>t. TypeOK /\ RowInv /\ CallInv /\ CallFact(c)
    BY DEF IInv, CallInv
  <1>1. PICK failed \in BOOLEAN :
          call' = [call EXCEPT ![c].pc = "inFlight",
                     ![c].answer = [version |-> truth[call[c].request],
                                    error |-> failed, age |-> 0]]
    BY DEF NodeAnswers
  <1>2. call[c].request \in Requests
    BY <1>t DEF CallFact, NodeAnswers
  <1>3. [version |-> truth[call[c].request], error |-> failed, age |-> 0] \in Answer
    BY <1>t, <1>2, BoundAssumption DEF TypeOK
  <1>4. /\ call'[c].pc = "inFlight" /\ call'[c].request = call[c].request
        /\ call'[c].answer = [version |-> truth[call[c].request],
                              error |-> failed, age |-> 0]
        /\ call'[c].age = call[c].age
        /\ \A d \in Callers : d # c => call'[d] = call[d]
    BY <1>1, <1>t DEF TypeOK
  <1>5. TypeOK'
    <2>1. call[c] \in CallType
      BY <1>t DEF TypeOK, CallType
    <2> DEFINE a == [version |-> truth[call[c].request], error |-> failed, age |-> 0]
    <2>2. [call[c] EXCEPT !.pc = "inFlight", !.answer = a] \in CallType
      <3> HIDE DEF a
      <3> QED
        BY <2>1, <1>3 DEF CallType, a
    <2>3. call' = [call EXCEPT ![c] = [call[c] EXCEPT !.pc = "inFlight", !.answer = a]]
      BY <1>1, <1>t DEF TypeOK
    <2>4. call' \in [Callers -> CallType]
      <3> HIDE DEF a
      <3> QED
        BY <2>2, <2>3, <1>t DEF TypeOK, CallType
    <2> QED
      BY <2>4, <1>t DEF TypeOK, CallType, NodeAnswers
  <1>6. CallFact(c)' /\ GotFact(c)' /\ LoopFact(c)'
    BY <1>2, <1>3, <1>4, <1>t, BoundAssumption
    DEF CallInv, CallFact, GotFact, LoopFact, Said, NodeAnswers, TypeOK
  <1>7. CallInv'
    BY <1>4, <1>6, <1>t, StillCaller DEF CallInv, NodeAnswers
  <1>8. RowInv'
    BY <1>t DEF NodeAnswers, RowInv, RowFact, Said
  <1> QED
    BY <1>5, <1>7, <1>8 DEF IInv

\* A call that returns: the answer it carries is as young as the call.
LEMMA ReturnFacts ==
  ASSUME IInv, NEW c \in Callers, ~Idle(c), truth' = truth, loop' = loop,
         NEW answer \in Answer \cup {None}, Return(c, answer),
         answer # None =>
           /\ Said(answer, call[c].request)
           /\ answer.age <= Latency
  PROVE  /\ call' \in [Callers -> CallType] /\ got' \in [Callers -> Answer \cup {None}]
         /\ CallInv'
  <1>t. TypeOK /\ CallInv /\ call[c].request \in Requests /\ CallFact(c) /\ LoopFact(c)
    BY DEF IInv, CallInv, CallFact
  <1>1. call'[c] = NoCall(call[c].request) /\ got'[c] = answer
    BY <1>t DEF Return, TypeOK
  <1>2. \A d \in Callers : d # c => call'[d] = call[d] /\ got'[d] = got[d]
    BY <1>t DEF Return, TypeOK
  <1>3. call' \in [Callers -> CallType] /\ got' \in [Callers -> Answer \cup {None}]
    BY <1>t, BoundAssumption DEF Return, TypeOK, NoCall, CallType
  <1>4. CallFact(c)' /\ LoopFact(c)'
    BY <1>1, <1>t DEF CallFact, LoopFact, NoCall
  <1>5. GotFact(c)'
    <2>1. answer # None => answer.age \in Nat
      BY BoundAssumption
    <2> QED
      BY <1>1, <1>t, <2>1, BoundAssumption DEF GotFact, NoCall, Said
  <1>6. CallInv'
    BY <1>2, <1>4, <1>5, <1>t, StillCaller DEF CallInv
  <1> QED
    BY <1>3, <1>6

LEMMA ArriveStep ==
  ASSUME IInv, NEW c \in Callers, Arrive(c)
  PROVE  IInv'
  <1>t. TypeOK /\ RowInv /\ CallInv /\ CallFact(c) /\ call[c] \in CallType
    BY DEF IInv, CallInv, TypeOK, CallType
  <1> DEFINE k == call[c].request
             a == call[c].answer
  <1>1. /\ ~Idle(c) /\ truth' = truth /\ loop' = loop /\ Return(c, a)
        /\ row' = [row EXCEPT ![k] = NewRow(k, a)] \/ row' = row
    BY DEF Arrive
  <1>2. k \in Requests /\ a \in Answer /\ Said(a, k) /\ a.age <= Latency
    BY <1>t, BoundAssumption DEF CallFact, Arrive, CallType
  <1>3. /\ call' \in [Callers -> CallType] /\ got' \in [Callers -> Answer \cup {None}]
        /\ CallInv'
    BY <1>1, <1>2, ReturnFacts
  <1>4. row' \in [Requests -> Row \cup {NoRow}]
    <2>1. NewRow(k, a) \in Row
      BY <1>2, BoundAssumption DEF NewRow
    <2> QED
      BY <1>1, <1>t, <2>1 DEF TypeOK
  <1>5. RowInv'
    <2> SUFFICES ASSUME NEW r \in Requests
                 PROVE  RowFact(r)'
      BY DEF RowInv
    <2>1. CASE row'[r] = row[r]
      BY <2>1, <1>1, <1>t DEF RowInv, RowFact, Said
    <2>2. CASE r = k /\ row'[r] = NewRow(k, a)
      <3> HIDE DEF a
      <3>1. /\ row'[r].answer = a /\ row'[r].age = 0
            /\ row'[r].forever = (k \in Immutable)
        BY <2>2 DEF NewRow
      <3>2. a.version <= truth'[r]
        BY <2>2, <1>1, <1>2 DEF Said
      <3>3. row'[r].forever <=> r \in Immutable
        BY <2>2, <3>1, Zenon
      <3>4. a.age <= 0 + Latency
        BY <1>2, BoundAssumption
      <3> QED
        BY <3>1, <3>2, <3>3, <3>4, Zenon DEF RowFact, Said
    <2> QED
      BY <1>1, <1>t, <2>1, <2>2 DEF TypeOK
  <1>6. TypeOK'
    BY <1>1, <1>3, <1>4, <1>t DEF TypeOK, CallType
  <1> QED
    BY <1>3, <1>5, <1>6 DEF IInv

LEMMA EndpointFailsStep ==
  ASSUME IInv, NEW c \in Callers, EndpointFails(c)
  PROVE  IInv'
  <1>t. TypeOK /\ RowInv /\ CallInv /\ CallFact(c) /\ GotFact(c) /\ LoopFact(c)
    BY DEF IInv, CallInv
  <1>1. ~Idle(c) /\ truth' = truth /\ loop' = loop /\ row' = row
    BY DEF EndpointFails
  <1>2. RowInv'
    BY <1>1, <1>t DEF RowInv, RowFact, Said
  <1>3. CASE Return(c, None)
    <2>1. /\ call' \in [Callers -> CallType] /\ got' \in [Callers -> Answer \cup {None}]
          /\ CallInv'
      BY <1>1, <1>3, ReturnFacts
    <2> QED
      BY <1>1, <1>2, <1>t, <2>1 DEF IInv, TypeOK, CallType
  <1>4. CASE /\ call[c].left > 1 /\ got' = got
             /\ call' = [call EXCEPT ![c].pc = "waiting", ![c].left = @ - 1,
                                     ![c].age = 0, ![c].answer = None]
    <2>1. /\ call'[c].pc = "waiting" /\ call'[c].request = call[c].request
          /\ \A d \in Callers : d # c => call'[d] = call[d]
      BY <1>4, <1>t DEF TypeOK
    <2>2. TypeOK'
      BY <1>1, <1>4, <1>t, BoundAssumption DEF TypeOK
    <2>3. CallFact(c)' /\ GotFact(c)' /\ LoopFact(c)'
      BY <1>1, <1>4, <1>t, <2>1 DEF CallFact, GotFact, LoopFact, Said
    <2>4. CallInv'
      BY <1>1, <1>4, <1>t, <2>1, <2>3, StillCaller DEF CallInv
    <2> QED
      BY <1>2, <2>2, <2>4 DEF IInv
  <1> QED
    BY <1>3, <1>4 DEF EndpointFails

LEMMA JudgePollStep ==
  ASSUME IInv, NEW c \in Callers, JudgePoll(c)
  PROVE  IInv'
  <1>t. TypeOK /\ RowInv /\ CallInv /\ CallFact(c) /\ GotFact(c) /\ LoopFact(c)
    BY DEF IInv, CallInv
  <1>1. UNCHANGED <<truth, row, call, got>> /\ loop[c].pc = "polling"
    BY DEF JudgePoll
  <1>2. \A d \in Callers : d # c => loop'[d] = loop[d]
    BY <1>t DEF JudgePoll, TypeOK
  <1>3. TypeOK'
    BY <1>1, <1>t, BoundAssumption DEF TypeOK, JudgePoll
  <1>4. loop'[c].pc = "landed" => Settled(got[c])
    BY <1>t DEF JudgePoll, TypeOK
  <1>5. loop'[c].pc = "landed" => truth[call[c].request] = MaxVersion
    <2> SUFFICES ASSUME Settled(got[c])
                 PROVE  truth[call[c].request] = MaxVersion
      BY <1>4
    <2>1. call[c].request \in Requests /\ got[c].version <= truth[call[c].request]
      BY <1>t DEF Settled, GotFact, Said
    <2>2. truth[call[c].request] \in 0..MaxVersion
      BY <2>1, <1>t DEF TypeOK
    <2> QED
      BY <2>1, <2>2, BoundAssumption DEF Settled
  <1>6. CallFact(c)' /\ GotFact(c)' /\ LoopFact(c)'
    BY <1>1, <1>5, <1>t DEF CallFact, GotFact, LoopFact, Said
  <1>7. CallInv'
    BY <1>1, <1>2, <1>6, <1>t, StillCaller DEF CallInv
  <1>8. RowInv'
    BY <1>1, <1>t DEF RowInv, RowFact, Said
  <1> QED
    BY <1>3, <1>7, <1>8 DEF IInv

LEMMA TickStep ==
  ASSUME IInv, Tick
  PROVE  IInv'
  <1>t. TypeOK /\ RowInv /\ CallInv /\ truth' = truth /\ got' = got
    BY DEF IInv, Tick
  <1>1. ASSUME NEW k \in Requests
        PROVE  row'[k] \in Row \cup {NoRow} /\ RowFact(k)'
    <2>1. CASE row[k] = NoRow
      BY <2>1 DEF Tick, RowFact
    <2>2. CASE row[k] # NoRow
      <3>1. row[k] \in Row /\ RowFact(k)
        BY <2>2, <1>t DEF TypeOK, RowInv
      <3>2. row'[k] = [Aged(row[k]) EXCEPT !.answer = Aged(@)]
        BY <2>2 DEF Tick
      <3>3. /\ row'[k].age = Older(row[k].age)
            /\ row'[k].answer.age = Older(row[k].answer.age)
            /\ row'[k].answer.version = row[k].answer.version
            /\ row'[k].forever = row[k].forever
            /\ row'[k] \in Row
        <4>1. row'[k] = [answer |-> [version |-> row[k].answer.version,
                                     error |-> row[k].answer.error,
                                     age |-> Older(row[k].answer.age)],
                         forever |-> row[k].forever, age |-> Older(row[k].age)]
          BY <3>1, <3>2 DEF Aged
        <4>2. Older(row[k].age) \in Age /\ Older(row[k].answer.age) \in Age
          BY <3>1, OlderType
        <4> QED
          BY <4>1, <4>2, <3>1
      <3>4. row'[k].answer.age <= row'[k].age + Latency
        BY <2>2, <3>1, <3>3, BoundAssumption DEF Older, RowFact
      <3> QED
        BY <2>2, <3>1, <3>3, <3>4, <1>t DEF RowFact, Said
    <2> QED
      BY <2>1, <2>2
  <1>2. ASSUME NEW c \in Callers
        PROVE  call'[c] \in CallType /\ CallFact(c)' /\ call'[c].request = call[c].request
    <2>1. CASE Idle(c)
      BY <2>1, <1>t DEF Tick, TypeOK, CallType, CallFact
    <2>2. CASE ~Idle(c)
      <3>1. call[c] \in CallType /\ CallFact(c) /\ call[c].age < Latency
        BY <2>2, <1>t DEF Tick, TypeOK, CallType, CallInv
      <3>2. call'[c] = [call[c] EXCEPT !.age = @ + 1,
                                      !.answer = IF @ = None THEN None ELSE Aged(@)]
        BY <2>2 DEF Tick
      <3>3. /\ call'[c].pc = call[c].pc /\ call'[c].request = call[c].request
            /\ call'[c].age = call[c].age + 1
            /\ call'[c].answer = IF call[c].answer = None THEN None ELSE Aged(call[c].answer)
            /\ call'[c].left = call[c].left
        <4> DEFINE older == IF call[c].answer = None THEN None ELSE Aged(call[c].answer)
        <4>1. call'[c] = [call[c] EXCEPT !.age = call[c].age + 1, !.answer = older]
          BY <3>2
        <4> HIDE DEF older
        <4>2. /\ call'[c].pc = call[c].pc /\ call'[c].request = call[c].request
              /\ call'[c].age = call[c].age + 1 /\ call'[c].answer = older
              /\ call'[c].left = call[c].left
          BY <4>1, <3>1 DEF CallType
        <4> QED
          BY <4>2 DEF older
      <3>4. call[c].answer # None =>
              /\ call'[c].answer \in Answer
              /\ call'[c].answer.version = call[c].answer.version
              /\ call'[c].answer.age <= call[c].answer.age + 1
        BY <3>1, <3>3, OlderType DEF CallType, Aged
      <3>5. call'[c] \in CallType
        <4>1. call'[c].answer \in Answer \cup {None}
          BY <3>3, <3>4
        <4>2. call[c].age + 1 \in 0..Latency
          BY <3>1, BoundAssumption DEF CallType
        <4>3. call'[c] = [pc |-> call[c].pc, request |-> call[c].request,
                left |-> call[c].left, age |-> call[c].age + 1, answer |-> call'[c].answer]
          BY <3>1, <3>2, <3>3 DEF CallType
        <4> QED
          BY <4>1, <4>2, <4>3, <3>1 DEF CallType
      <3>6. CASE call[c].answer = None
        BY <3>1, <3>3, <3>5, <3>6, <1>t, BoundAssumption DEF CallFact, CallType, Said
      <3>7. CASE call[c].answer # None
        BY <3>1, <3>3, <3>4, <3>5, <3>7, <1>t, BoundAssumption DEF CallFact, CallType, Said
      <3> QED
        BY <3>3, <3>5, <3>6, <3>7
    <2> QED
      BY <2>1, <2>2
  <1>3. ASSUME NEW c \in Callers
        PROVE  GotFact(c)' /\ LoopFact(c)' /\ loop'[c] \in LoopType
    <2>1. loop'[c] = [loop[c] EXCEPT !.slept = loop[c].pc = "sleeping"]
      BY DEF Tick
    <2>2. loop[c] \in LoopType /\ GotFact(c) /\ LoopFact(c)
      BY <1>t DEF TypeOK, CallInv, LoopType
    <2>3. (loop[c].pc = "sleeping") \in BOOLEAN
      OBVIOUS
    <2>4. loop'[c] \in LoopType /\ loop'[c].pc = loop[c].pc
      BY <2>1, <2>2, <2>3 DEF LoopType
    <2> QED
      BY <2>2, <2>4, <1>2, <1>t DEF GotFact, LoopFact, Said
  <1>4. TypeOK'
    <2>1. /\ row' \in [Requests -> Row \cup {NoRow}]
          /\ call' \in [Callers -> CallType] /\ loop' \in [Callers -> LoopType]
      BY <1>1, <1>2, <1>3 DEF Tick
    <2> QED
      BY <2>1, <1>t DEF TypeOK, CallType, LoopType
  <1> QED
    BY <1>1, <1>2, <1>3, <1>4 DEF IInv, RowInv, CallInv

LEMMA ChangeStep ==
  ASSUME IInv, NEW k \in Requests, Change(k)
  PROVE  IInv'
  <1>t. TypeOK /\ RowInv /\ CallInv /\ UNCHANGED <<row, call, got, loop>>
    BY DEF IInv, Change
  <1>1. TypeOK'
    BY <1>t, BoundAssumption DEF TypeOK, Change
  <1>2. \A r \in Requests : /\ truth[r] \in Nat /\ truth'[r] \in Nat
                            /\ truth[r] <= truth'[r]
                            /\ truth[r] = MaxVersion => truth'[r] = truth[r]
    BY <1>t, BoundAssumption DEF TypeOK, Change
  <1>3. RowInv'
    <2> SUFFICES ASSUME NEW r \in Requests, row[r] # NoRow
                 PROVE  RowFact(r)'
      BY <1>t DEF RowInv, RowFact
    <2>1. row[r] \in Row /\ RowFact(r)
      BY <1>t DEF TypeOK, RowInv
    <2> QED
      BY <2>1, <1>t, <1>2, BoundAssumption DEF RowFact, Said
  <1>4. ASSUME NEW c \in Callers
        PROVE  CallFact(c)' /\ GotFact(c)' /\ LoopFact(c)'
    <2>1. CallFact(c) /\ GotFact(c) /\ LoopFact(c)
      BY <1>t DEF CallInv
    <2>2. CallFact(c)'
      BY <2>1, <1>t, <1>2, BoundAssumption DEF CallFact, Said
    <2>3. GotFact(c)'
      <3>1. got[c] # None => got[c] \in Answer
        BY <1>t DEF TypeOK
      <3> QED
        BY <3>1, <2>1, <1>t, <1>2, BoundAssumption DEF GotFact, Said
    <2>4. LoopFact(c)'
      BY <2>1, <1>t, <1>2 DEF LoopFact
    <2> QED
      BY <2>2, <2>3, <2>4
  <1> QED
    BY <1>1, <1>3, <1>4 DEF IInv, CallInv

(***************************************************************************)
(* The theorems.                                                            *)
(***************************************************************************)

LEMMA IInvInit == Init => IInv
  <1> SUFFICES ASSUME Init
               PROVE  IInv
    OBVIOUS
  <1>1. TypeOK
    BY BoundAssumption DEF Init, TypeOK, NoCall, NoLoop
  <1>2. RowInv
    BY DEF Init, RowInv, RowFact
  <1>3. CallInv
    BY DEF Init, CallInv, CallFact, GotFact, LoopFact, NoCall, NoLoop
  <1> QED
    BY <1>1, <1>2, <1>3 DEF IInv

LEMMA IInvNext ==
  ASSUME IInv, [Next]_vars
  PROVE  IInv'
  <1>1. ASSUME NEW c \in Callers, CallerStep(c)
        PROVE  IInv'
    <2>1. CASE PollAgain(c)
      <3>1. /\ call[c].request \in Requests /\ loop[c].polls \in 0..MaxPolls
            /\ Look(c, call[c].request, loop[c].polls)
        BY <2>1 DEF PollAgain, IInv, CallInv, LoopFact, TypeOK
      <3> QED
        BY <3>1, LookStep
    <2> QED
      BY <1>1, <2>1, NodeAnswersStep, ArriveStep, EndpointFailsStep, JudgePollStep
      DEF CallerStep
  <1>2. ASSUME NEW c \in Callers, NEW k \in Requests, StartWait(c, k)
        PROVE  IInv'
    <2>1. MaxPolls \in 0..MaxPolls
      BY BoundAssumption
    <2> QED
      BY <1>2, <2>1, LookStep DEF StartWait
  <1>3. CASE UNCHANGED vars
    BY <1>3 DEF vars, IInv, TypeOK, RowInv, RowFact, CallInv, CallFact, GotFact,
                LoopFact, Said
  <1> QED
    BY <1>1, <1>2, <1>3, PostRpcStep, TickStep, ChangeStep DEF Next

LEMMA Inductive == Spec => []IInv
  BY IInvInit, IInvNext, PTL DEF Spec

\* Every variable of the cache and its callers keeps its type
\* (solana_rpc.py post_rpc, landing.py wait_for_finalized_signatures).
THEOREM TypeCorrect == Spec => []TypeOK
  <1>1. IInv => TypeOK
    BY DEF IInv
  <1> QED
    BY <1>1, Inductive, PTL

\* Whoever stores and whoever reads, an answer is never older than the time
\* to live of its row and the timeout of one request together
\* (rpc_cache.py lookup, store).
THEOREM BoundedStalenessCorrect == Spec => []BoundedStaleness
  <1>1. IInv => BoundedStaleness
    BY DEF IInv, CallInv, GotFact, BoundedStaleness
  <1> QED
    BY <1>1, Inductive, PTL

\* A signature that a wait reports as landed is final, whoever's answer it was
\* (landing.py wait_for_finalized_signatures).
THEOREM WinnerIsFinalCorrect == Spec => []WinnerIsFinal
  <1>1. IInv => WinnerIsFinal
    BY DEF IInv, CallInv, LoopFact, WinnerIsFinal
  <1> QED
    BY <1>1, Inductive, PTL

(***************************************************************************)
(* Posts and waits are bounded.                                             *)
(***************************************************************************)

\* What is left to do of a post: two steps for each endpoint not tried yet.
PostWork(c) ==
  IF Idle(c) THEN 0 ELSE 2 * call[c].left + IF call[c].pc = "waiting" THEN 2 ELSE 1

\* More than one post and its judgement.
RoundWork == 2 * Endpoints + 4

\* What is left to do of a wait, its next post not counted.
LoopWork(c) ==
  CASE loop[c].pc = "polling"  -> RoundWork * loop[c].polls + 1
    [] loop[c].pc = "sleeping" -> RoundWork * loop[c].polls + RoundWork
    [] OTHER -> 0

Work(c) == PostWork(c) + LoopWork(c)

\* Every step of a caller brings it nearer to its return, and nothing else takes
\* it back: a post over n endpoints ends after at most 2n + 2 steps, a wait after
\* as many for each of its looks (solana_rpc.py post_rpc, landing.py
\* wait_for_finalized_signatures).
CallersMoveOn ==
  [][\A c \in Callers :
       /\ CallerStep(c) => Work(c)' < Work(c)
       /\ Busy(c) => Work(c)' <= Work(c)
       /\ Work(c)' <= RoundWork * MaxPolls + RoundWork]_vars

\* A sleeper has no post in progress.
SleepInv == \A c \in Callers : loop[c].pc = "sleeping" => Idle(c)

LEMMA SleepStep ==
  ASSUME TypeOK, SleepInv, [Next]_vars
  PROVE  SleepInv'
  <1> SUFFICES ASSUME NEW c \in Callers, loop'[c].pc = "sleeping"
               PROVE  call'[c].pc = "idle"
    BY DEF SleepInv
  <1>1. ASSUME NEW d \in Callers, NodeAnswers(d) \/ Arrive(d) \/ EndpointFails(d)
        PROVE  call'[c].pc = "idle"
    <2>1. loop' = loop /\ call[d].pc # "idle" /\ \A e \in Callers \ {d} : call'[e] = call[e]
      BY <1>1 DEF NodeAnswers, Arrive, EndpointFails, Return, TypeOK
    <2> QED
      BY <2>1 DEF SleepInv
  <1>2. ASSUME NEW d \in Callers, JudgePoll(d)
        PROVE  call'[c].pc = "idle"
    <2>1. call' = call /\ call[d].pc = "idle" /\ \A e \in Callers \ {d} : loop'[e] = loop[e]
      BY <1>2 DEF JudgePoll, TypeOK
    <2> QED
      BY <2>1 DEF SleepInv
  <1>3. ASSUME NEW d \in Callers, NEW k, NEW polls, Look(d, k, polls)
        PROVE  call'[c].pc = "idle"
    <2>1. /\ loop'[d].pc = "polling"
          /\ \A e \in Callers \ {d} : loop'[e] = loop[e] /\ call'[e] = call[e]
      BY <1>3 DEF Look, Post, TypeOK
    <2> QED
      BY <2>1 DEF SleepInv
  <1>4. ASSUME NEW d \in Callers, NEW k \in Requests, PostRpc(d, k)
        PROVE  call'[c].pc = "idle"
    <2>1. /\ loop'[d].pc = "none"
          /\ \A e \in Callers \ {d} : loop'[e] = loop[e] /\ call'[e] = call[e]
      BY <1>4 DEF PostRpc, Post, NoLoop, TypeOK
    <2> QED
      BY <2>1 DEF SleepInv
  <1>5. CASE Tick
    <2>1. loop'[c].pc = loop[c].pc /\ (call[c].pc = "idle" => call'[c] = call[c])
      BY <1>5 DEF Tick, TypeOK
    <2> QED
      BY <2>1 DEF SleepInv
  <1>6. CASE (\E k \in Requests : Change(k)) \/ UNCHANGED vars
    BY <1>6 DEF Change, vars, SleepInv
  <1> QED
    BY <1>1, <1>2, <1>3, <1>4, <1>5, <1>6 DEF Next, CallerStep, PollAgain, StartWait

\* The numbers involved, and the most there can be left to do.
LEMMA WorkType ==
  ASSUME TypeOK, SleepInv, NEW c \in Callers
  PROVE  /\ PostWork(c) \in 0..2 * Endpoints + 2
         /\ RoundWork * loop[c].polls \in Nat /\ RoundWork \in Nat
         /\ LoopWork(c) \in Nat /\ Work(c) \in Nat
         /\ Work(c) <= RoundWork * MaxPolls + RoundWork
  <1>1. call[c].left \in 0..Endpoints /\ loop[c].polls \in 0..MaxPolls
    BY DEF TypeOK
  <1>2. PostWork(c) \in 0..2 * Endpoints + 2
    BY <1>1, BoundAssumption DEF PostWork
  <1>3. /\ RoundWork \in Nat /\ RoundWork = 2 * Endpoints + 4
        /\ loop[c].polls \in Nat /\ MaxPolls \in Nat /\ loop[c].polls <= MaxPolls
    BY <1>1, BoundAssumption DEF RoundWork
  <1>4. /\ RoundWork * loop[c].polls \in Nat
        /\ RoundWork * loop[c].polls <= RoundWork * MaxPolls
    <2>1. \A w, p, q \in Nat : p <= q => w * p \in Nat /\ w * p <= w * q
      OBVIOUS
    <2> QED
      BY <1>3, <2>1
  <1>5. LoopWork(c) \in Nat
    BY <1>3, <1>4 DEF LoopWork
  <1>6. Work(c) <= RoundWork * MaxPolls + RoundWork
    <2>1. CASE loop[c].pc = "sleeping"
      <3>1. PostWork(c) = 0
        BY <2>1 DEF SleepInv, PostWork
      <3>2. LoopWork(c) = RoundWork * loop[c].polls + RoundWork
        BY <2>1 DEF LoopWork
      <3> QED
        BY <3>1, <3>2, <1>3, <1>4 DEF Work
    <2>2. CASE loop[c].pc = "polling"
      <3>1. LoopWork(c) = RoundWork * loop[c].polls + 1
        BY <2>2 DEF LoopWork
      <3> QED
        BY <3>1, <1>2, <1>3, <1>4, BoundAssumption DEF Work
    <2>3. CASE loop[c].pc \notin {"sleeping", "polling"}
      <3>1. LoopWork(c) = 0
        BY <2>3 DEF LoopWork
      <3>2. RoundWork * MaxPolls \in Nat
        <4>1. \A w, p \in Nat : w * p \in Nat
          OBVIOUS
        <4> QED
          BY <4>1, <1>3
      <3> QED
        BY <3>1, <3>2, <1>2, <1>3, BoundAssumption DEF Work
    <2> QED
      BY <2>1, <2>2, <2>3
  <1>7. Work(c) \in Nat
    BY <1>2, <1>5, BoundAssumption DEF Work
  <1> QED
    BY <1>2, <1>3, <1>4, <1>5, <1>6, <1>7

\* The same after a step.
WorkBounded ==
  \A c \in Callers : Work(c) \in Nat /\ Work(c) <= RoundWork * MaxPolls + RoundWork

LEMMA WorkTypeNext == (TypeOK /\ SleepInv => WorkBounded)'
  <1>1. TypeOK /\ SleepInv => WorkBounded
    BY WorkType DEF WorkBounded
  <1> QED
    BY <1>1, PTL

\* A step of the post of c.
LEMMA PostWorks ==
  ASSUME TypeOK, SleepInv, NEW c \in Callers,
         NodeAnswers(c) \/ Arrive(c) \/ EndpointFails(c)
  PROVE  Work(c)' < Work(c)
  <1>1. loop' = loop /\ LoopWork(c) \in Nat /\ call[c].left \in Nat
    BY WorkType, BoundAssumption DEF NodeAnswers, Arrive, EndpointFails, TypeOK
  <1>2. CASE NodeAnswers(c)
    <2>a. PICK failed \in BOOLEAN :
            call' = [call EXCEPT ![c].pc = "inFlight",
                       ![c].answer = [version |-> truth[call[c].request],
                                      error |-> failed, age |-> 0]]
      BY <1>2 DEF NodeAnswers
    <2>b. call[c].pc = "waiting"
      BY <1>2 DEF NodeAnswers
    <2> DEFINE a == [version |-> truth[call[c].request], error |-> failed, age |-> 0]
    <2>c. call'[c] = [call[c] EXCEPT !.pc = "inFlight", !.answer = a]
      BY <2>a DEF TypeOK
    <2>d. call[c] \in CallType
      BY DEF TypeOK, CallType
    <2>1. call'[c].pc = "inFlight" /\ call'[c].left = call[c].left
      <3> HIDE DEF a
      <3> QED
        BY <2>c, <2>d DEF CallType
    <2> QED
      BY <2>b, <2>1, <1>1 DEF Work, PostWork, LoopWork
  <1>3. CASE Arrive(c)
    <2>1. call[c].pc = "inFlight" /\ call'[c].pc = "idle"
      BY <1>3 DEF Arrive, Return, NoCall, TypeOK
    <2> QED
      BY <2>1, <1>1 DEF Work, PostWork, LoopWork
  <1>4. CASE EndpointFails(c)
    <2>1. /\ call[c].pc # "idle"
          /\ \/ call'[c].pc = "waiting" /\ call'[c].left = call[c].left - 1
                /\ call[c].left > 1
             \/ call'[c].pc = "idle"
      BY <1>4 DEF EndpointFails, Return, NoCall, TypeOK
    <2> QED
      BY <2>1, <1>1 DEF Work, PostWork, LoopWork
  <1> QED
    BY <1>2, <1>3, <1>4

\* A look is judged, or follows a sleep.
LEMMA LoopWorks ==
  ASSUME TypeOK, SleepInv, NEW c \in Callers, JudgePoll(c) \/ PollAgain(c)
  PROVE  Work(c)' < Work(c)
  <1>1. /\ loop[c].polls \in Nat /\ RoundWork * loop[c].polls \in Nat
        /\ RoundWork \in Nat /\ RoundWork = 2 * Endpoints + 4 /\ Endpoints \in Nat
    BY WorkType, BoundAssumption DEF TypeOK, RoundWork
  <1>2. CASE JudgePoll(c)
    <2>1. /\ loop[c].pc = "polling" /\ call[c].pc = "idle" /\ call' = call
          /\ \/ loop'[c].pc \in {"raised", "landed", "gaveUp"}
             \/ /\ loop'[c].pc = "sleeping"
                /\ loop'[c].polls = loop[c].polls - 1 /\ loop[c].polls > 0
      BY <1>2 DEF JudgePoll, TypeOK
    <2>2. Work(c) = RoundWork * loop[c].polls + 1
      BY <2>1, <1>1 DEF Work, PostWork, LoopWork
    <2>3. CASE loop'[c].pc \in {"raised", "landed", "gaveUp"}
      <3>1. Work(c)' = 0
        BY <2>1, <2>3 DEF Work, PostWork, LoopWork
      <3> QED
        BY <3>1, <2>2, <1>1
    <2>4. CASE /\ loop'[c].pc = "sleeping"
               /\ loop'[c].polls = loop[c].polls - 1 /\ loop[c].polls > 0
      <3>1. Work(c)' = RoundWork * (loop[c].polls - 1) + RoundWork
        <4>1. Work(c)' = 0 + (RoundWork * loop'[c].polls + RoundWork)
          BY <2>1, <2>4 DEF Work, PostWork, LoopWork, RoundWork
        <4>2. RoundWork * loop'[c].polls \in Nat
          <5>1. \A w \in Nat, p \in Nat : w * p \in Nat
            OBVIOUS
          <5>2. loop'[c].polls \in Nat
            BY <2>4, <1>1
          <5> QED
            BY <5>1, <5>2, <1>1
        <4> QED
          BY <4>1, <4>2, <2>4, <1>1
      <3>2. \A w, p \in Nat : w * (p - 1) + w = w * p
        OBVIOUS
      <3>3. Work(c)' = RoundWork * loop[c].polls
        BY <3>1, <3>2, <1>1
      <3> QED
        BY <3>3, <2>2, <1>1
    <2> QED
      BY <2>1, <2>3, <2>4
  <1>3. CASE PollAgain(c)
    <2>1. /\ loop[c].pc = "sleeping" /\ call[c].pc = "idle"
          /\ loop'[c].pc = "polling" /\ loop'[c].polls = loop[c].polls
          /\ \/ call'[c].pc = "idle"
             \/ call'[c].pc = "waiting" /\ call'[c].left = Endpoints
      BY <1>3 DEF PollAgain, Look, Post, NoCall, SleepInv, TypeOK
    <2>2. Work(c) = 0 + (RoundWork * loop[c].polls + RoundWork)
      BY <2>1 DEF Work, PostWork, LoopWork
    <2>3. PostWork(c)' \in 0..2 * Endpoints + 2
      BY <2>1, <1>1 DEF PostWork
    <2>4. Work(c)' = PostWork(c)' + (RoundWork * loop[c].polls + 1)
      BY <2>1 DEF Work, LoopWork, RoundWork
    <2> QED
      BY <2>2, <2>3, <2>4, <1>1
  <1> QED
    BY <1>2, <1>3

\* Whatever the others do, time and the chain included.
LEMMA OthersWork ==
  ASSUME TypeOK, SleepInv, NEW c \in Callers, [Next]_vars, Busy(c), ~CallerStep(c)
  PROVE  Work(c)' = Work(c)
  <1>1. ASSUME call'[c].pc = call[c].pc, call'[c].left = call[c].left,
               loop'[c].pc = loop[c].pc, loop'[c].polls = loop[c].polls
        PROVE  Work(c)' = Work(c)
    BY <1>1 DEF Work, PostWork, LoopWork, RoundWork
  <1>2. ASSUME NEW d \in Callers, CallerStep(d)
        PROVE  call'[c] = call[c] /\ loop'[c] = loop[c]
    <2>0. d # c
      BY <1>2
    <2>1. CASE NodeAnswers(d)
      BY <2>0, <2>1 DEF NodeAnswers, TypeOK
    <2>2. CASE Arrive(d) \/ EndpointFails(d)
      BY <2>0, <2>2 DEF Arrive, EndpointFails, Return, TypeOK
    <2>3. CASE JudgePoll(d)
      BY <2>0, <2>3 DEF JudgePoll, TypeOK
    <2>4. CASE PollAgain(d)
      BY <2>0, <2>4 DEF PollAgain, Look, Post, TypeOK
    <2> QED
      BY <1>2, <2>1, <2>2, <2>3, <2>4 DEF CallerStep
  <1>3. ASSUME NEW d \in Callers, NEW k \in Requests, PostRpc(d, k) \/ StartWait(d, k)
        PROVE  call'[c] = call[c] /\ loop'[c] = loop[c]
    BY <1>3 DEF PostRpc, StartWait, Look, Post, TypeOK
  <1>4. CASE Tick
    BY <1>1, <1>4 DEF Tick, TypeOK
  <1>5. CASE (\E k \in Requests : Change(k)) \/ UNCHANGED vars
    BY <1>1, <1>5 DEF Change, vars
  <1> QED
    BY <1>1, <1>2, <1>3, <1>4, <1>5 DEF Next

\* However the endpoints fail and the other callers, the clock and the chain
\* interleave, a post and a wait have a bounded number of steps: with the
\* fairness of the event loop they end.
THEOREM CallersMoveOnCorrect == Spec => CallersMoveOn
  <1>1. Init => SleepInv
    BY DEF Init, SleepInv, NoLoop
  <1>2. TypeOK /\ SleepInv /\ [Next]_vars => SleepInv'
    BY SleepStep
  <1>3. ASSUME TypeOK, TypeOK', SleepInv, SleepInv', [Next]_vars
        PROVE  [\A c \in Callers :
                  /\ CallerStep(c) => Work(c)' < Work(c)
                  /\ Busy(c) => Work(c)' <= Work(c)
                  /\ Work(c)' <= RoundWork * MaxPolls + RoundWork]_vars
    <2> SUFFICES ASSUME NEW c \in Callers
                 PROVE  /\ CallerStep(c) => Work(c)' < Work(c)
                        /\ Busy(c) => Work(c)' <= Work(c)
                        /\ Work(c)' <= RoundWork * MaxPolls + RoundWork
      OBVIOUS
    <2>1. CallerStep(c) => Work(c)' < Work(c)
      BY <1>3, PostWorks, LoopWorks DEF CallerStep
    <2>2. Work(c) \in Nat
      BY <1>3, WorkType
    <2>3. Work(c)' \in Nat /\ Work(c)' <= RoundWork * MaxPolls + RoundWork
      <3>1. WorkBounded'
        BY <1>3, WorkTypeNext
      <3> QED
        BY <3>1 DEF WorkBounded, RoundWork
    <2>4. Busy(c) /\ ~CallerStep(c) => Work(c)' = Work(c)
      BY <1>3, OthersWork
    <2>5. Busy(c) => Work(c)' <= Work(c)
      BY <2>1, <2>2, <2>3, <2>4
    <2> QED
      BY <2>1, <2>3, <2>5
  <1> QED
    BY <1>1, <1>2, <1>3, TypeCorrect, PTL DEF Spec, CallersMoveOn
=============================================================================
