------------------------------ MODULE RpcCache ------------------------------
(***************************************************************************)
(* SolanaClient.post_rpc (integrations/solana_rpc.py) over the persistent   *)
(* RpcResponseCache (integrations/rpc_cache.py), and the polling loop        *)
(* wait_for_finalized_signatures (execution/landing.py) that reads through   *)
(* it.  Callers are tasks of one event loop; the endpoints and the limiter   *)
(* in front of them are external.  One unit of time is one poll interval,    *)
(* and times are kept as ages, so the clock needs no bound.                  *)
(*                                                                          *)
(* What a node would answer to a request is a version number: 0 is the null  *)
(* result of something the node has not seen yet, MaxVersion the last answer *)
(* (for a signature: final).  An answer carries, as history, the time since  *)
(* the node computed it.                                                     *)
(***************************************************************************)
EXTENDS Naturals

CONSTANTS
  Callers,     \* tasks that call post_rpc
  Requests,    \* (method, params) pairs
  Immutable,   \* finalized getTransaction / getSignaturesForAddress requests
  Endpoints,   \* the primary endpoint and its fallbacks, counted
  Ttl,         \* VOLATILE_TTL_SECONDS
  Latency,     \* ClientTimeout(total=...)
  MaxPolls,    \* max_polls
  MaxVersion,  \* bound on the changes of an answer
  NoRow,       \* a request the table has no row for
  None         \* no answer, no request

ASSUME RequestAssumption == Immutable \subseteq Requests /\ None \notin Requests
ASSUME BoundAssumption ==
  /\ Endpoints \in Nat \ {0} /\ MaxPolls \in Nat \ {0}
  /\ Ttl \in Nat /\ Latency \in Nat /\ MaxVersion \in Nat

VARIABLES
  truth,   \* what a node answers to each request now
  row,     \* the rpc_cache table
  call,    \* each caller's post_rpc in progress
  got,     \* what its last post_rpc returned, as old as it was then
  loop     \* its wait_for_finalized_signatures

vars == <<truth, row, call, got, loop>>

\* Ages are counted up to the first one that no property and no guard tells
\* from the ones above it.
Oldest == Ttl + Latency + 1
Age    == 0..Oldest
Older(age) == IF age < Oldest THEN age + 1 ELSE age
Aged(record) == [record EXCEPT !.age = Older(@)]

Answer == [version : 0..MaxVersion, error : BOOLEAN, age : Age]

\* A row of an immutable request has no time to live.
Row == [answer : Answer, forever : BOOLEAN, age : Age]

CallPc == {"idle", "waiting", "inFlight"}
LoopPc == {"none", "polling", "sleeping", "landed", "gaveUp", "raised"}

NoCall(k) == [pc |-> "idle", request |-> k, left |-> 0, age |-> 0, answer |-> None]
NoLoop    == [pc |-> "none", polls |-> 0, slept |-> FALSE, late |-> FALSE]

TypeOK ==
  /\ truth \in [Requests -> 0..MaxVersion]
  /\ row \in [Requests -> Row \cup {NoRow}]
  /\ call \in [Callers -> [pc : CallPc, request : Requests \cup {None},
                           left : 0..Endpoints, age : 0..Latency,
                           answer : Answer \cup {None}]]
  /\ got \in [Callers -> Answer \cup {None}]
  /\ loop \in [Callers -> [pc : LoopPc, polls : 0..MaxPolls,
                           slept : BOOLEAN, late : BOOLEAN]]

Init ==
  /\ truth = [k \in Requests |-> 0]
  /\ row = [k \in Requests |-> NoRow]
  /\ call = [c \in Callers |-> NoCall(None)]
  /\ got = [c \in Callers |-> None]
  /\ loop = [c \in Callers |-> NoLoop]

(***************************************************************************)
(* RpcResponseCache                                                         *)
(***************************************************************************)

\* Mutant: a row is kept a unit too long.
FreshTooLong(k) ==
  row[k] # NoRow /\ (row[k].forever \/ row[k].age <= Ttl + 1)

\* lookup: the row is served unless its age exceeds its time to live.
Fresh(k) ==
  row[k] # NoRow /\ (row[k].forever \/ row[k].age <= Ttl)

\* store: a new row, whose time to live starts now.
NewRow(k, answer) ==
  [answer |-> answer, forever |-> k \in Immutable, age |-> 0]

(***************************************************************************)
(* post_rpc                                                                 *)
(***************************************************************************)

Idle(c) == call[c].pc = "idle"

Return(c, answer) ==
  /\ got' = [got EXCEPT ![c] = answer]
  /\ call' = [call EXCEPT ![c] = NoCall(@.request)]

\* A fresh row is the answer; otherwise the row is deleted and the first
\* endpoint is asked.  A lookup that fails is a miss that deletes nothing.
Post(c, k) ==
  \/ /\ Fresh(k)
     /\ got' = [got EXCEPT ![c] = row[k].answer]
     /\ call' = [call EXCEPT ![c] = NoCall(k)]
     /\ UNCHANGED row
  \/ /\ call' = [call EXCEPT ![c] = [pc |-> "waiting", request |-> k,
                    left |-> Endpoints, age |-> 0, answer |-> None]]
     /\ got' = [got EXCEPT ![c] = None]
     /\ \/ ~Fresh(k) /\ row' = [row EXCEPT ![k] = NoRow]
        \/ UNCHANGED row

\* A node evaluates the request: its answer, or a JSON-RPC error in a
\* response that is as well formed as an answer.
NodeAnswers(c) ==
  /\ call[c].pc = "waiting"
  /\ \E failed \in BOOLEAN :
       call' = [call EXCEPT ![c].pc = "inFlight",
                  ![c].answer = [version |-> truth[call[c].request],
                                 error |-> failed, age |-> 0]]
  /\ UNCHANGED <<truth, row, got, loop>>

\* The response is read: stored, best effort, and returned.
Arrive(c) ==
  /\ call[c].pc = "inFlight"
  /\ \/ row' = [row EXCEPT ![call[c].request] =
                  NewRow(call[c].request, call[c].answer)]
     \/ UNCHANGED row
  /\ Return(c, call[c].answer)
  /\ UNCHANGED <<truth, loop>>

\* Mutant: the same endpoint is asked until it answers.
EndpointFailsAgain(c) ==
  /\ ~Idle(c)
  /\ call' = [call EXCEPT ![c].pc = "waiting", ![c].age = 0, ![c].answer = None]
  /\ UNCHANGED <<truth, row, got, loop>>

\* 429, a transport error or the session's timeout: the next endpoint, or
\* None when there is none left.  Nothing is stored.
EndpointFails(c) ==
  /\ ~Idle(c)
  /\ \/ /\ call[c].left > 1
        /\ call' = [call EXCEPT ![c].pc = "waiting", ![c].left = @ - 1,
                                ![c].age = 0, ![c].answer = None]
        /\ UNCHANGED got
     \/ call[c].left = 1 /\ Return(c, None)
  /\ UNCHANGED <<truth, row, loop>>

(***************************************************************************)
(* wait_for_finalized_signatures: one look, then at most MaxPolls more, each *)
(* after a sleep.  "late" is history: the signature was final before the     *)
(* last look.                                                               *)
(***************************************************************************)

Waiting(c) == loop[c].pc \in {"polling", "sleeping"}

\* Inside post_rpc or inside the wait around it.
Busy(c) == ~Idle(c) \/ Waiting(c)

\* Mutant: a JSON-RPC error is not told from an answer.
SettledByError(answer) == answer # None /\ (answer.error \/ answer.version = MaxVersion)

Settled(answer) == answer # None /\ ~answer.error /\ answer.version = MaxVersion

Look(c, k, polls) ==
  /\ Post(c, k)
  /\ loop' = [loop EXCEPT ![c] = [pc |-> "polling", polls |-> polls, slept |-> FALSE,
                                  late |-> truth[k] = MaxVersion]]
  /\ UNCHANGED truth

\* Mutant: the budget is not counted down.
JudgePollNoBudget(c) ==
  /\ loop[c].pc = "polling" /\ Idle(c)
  /\ loop' = [loop EXCEPT ![c].pc = IF Settled(got[c]) THEN "landed" ELSE "sleeping"]
  /\ UNCHANGED <<truth, row, call, got>>

\* Mutant: one poll too many is taken from the budget.
JudgePollUnderflow(c) ==
  /\ loop[c].pc = "polling" /\ Idle(c)
  /\ loop' = [loop EXCEPT ![c].pc = IF Settled(got[c]) THEN "landed" ELSE "sleeping",
                         ![c].polls = @ - 1]
  /\ UNCHANGED <<truth, row, call, got>>

\* A look is judged: an answer that is missing or an error raises, a final
\* one ends the loop, any other is followed by a sleep while polls are left.
JudgePoll(c) ==
  /\ loop[c].pc = "polling" /\ Idle(c)
  /\ \/ /\ got[c] = None \/ (got[c] # None /\ got[c].error)
        /\ loop' = [loop EXCEPT ![c].pc = "raised"]
     \/ /\ Settled(got[c])
        /\ loop' = [loop EXCEPT ![c].pc = "landed"]
     \/ /\ got[c] # None /\ ~got[c].error /\ ~Settled(got[c])
        /\ \/ /\ loop[c].polls = 0
              /\ loop' = [loop EXCEPT ![c].pc = "gaveUp"]
           \/ /\ loop[c].polls > 0
              /\ loop' = [loop EXCEPT ![c].pc = "sleeping", ![c].polls = @ - 1]
  /\ UNCHANGED <<truth, row, call, got>>

\* The sleep is over: look again.
PollAgain(c) ==
  /\ loop[c].pc = "sleeping" /\ loop[c].slept
  /\ Look(c, call[c].request, loop[c].polls)

\* A caller starts a wait, for a status request.
StartWait(c, k) ==
  /\ ~Busy(c)
  /\ k \notin Immutable
  /\ Look(c, k, MaxPolls)

\* A caller reads once: an account, a slot, a transaction.
PostRpc(c, k) ==
  /\ ~Busy(c)
  /\ Post(c, k)
  /\ loop' = [loop EXCEPT ![c] = NoLoop]
  /\ UNCHANGED truth

(***************************************************************************)
(* The world.                                                               *)
(***************************************************************************)

\* Time passes for rows, answers on their way and sleepers.  A request does
\* not outlive the timeout of the session, and ready tasks run first.
Tick ==
  /\ \A c \in Callers :
       /\ ~Idle(c) => call[c].age < Latency
       /\ ~(loop[c].pc = "polling" /\ Idle(c))
       /\ ~loop[c].slept
  /\ row' = [k \in Requests |->
       IF row[k] = NoRow THEN NoRow
       ELSE [Aged(row[k]) EXCEPT !.answer = Aged(@)]]
  /\ call' = [c \in Callers |->
       IF Idle(c) THEN call[c]
       ELSE [call[c] EXCEPT !.age = @ + 1,
                            !.answer = IF @ = None THEN None ELSE Aged(@)]]
  /\ loop' = [c \in Callers |-> [loop[c] EXCEPT !.slept = loop[c].pc = "sleeping"]]
  /\ UNCHANGED <<truth, got>>

\* The chain moves on: the answer to a request changes.
Change(k) ==
  /\ truth[k] < MaxVersion
  /\ truth' = [truth EXCEPT ![k] = @ + 1]
  /\ UNCHANGED <<row, call, got, loop>>

CallerStep(c) ==
  NodeAnswers(c) \/ Arrive(c) \/ EndpointFails(c) \/ JudgePoll(c) \/ PollAgain(c)

Next ==
  \/ \E c \in Callers :
       CallerStep(c) \/ \E k \in Requests : PostRpc(c, k) \/ StartWait(c, k)
  \/ Tick
  \/ \E k \in Requests : Change(k)

Spec == Init /\ [][Next]_vars

\* The event loop runs its tasks, and time passes although a caller may start
\* again at once whenever it returns.  Nobody has to call and no answer has to
\* change.
FairSpec == Spec /\ SF_vars(Tick) /\ \A c \in Callers : WF_vars(CallerStep(c))

(***************************************************************************)
(* Properties.                                                              *)
(***************************************************************************)

\* How old an answer can be when it is served: the time to live of its row
\* counts from the moment it was stored, which the session's timeout bounds
\* from the moment the node computed it.  This is what the risk snapshot and
\* the exit worker really read through.
BoundedStaleness ==
  \A c \in Callers :
    got[c] # None /\ call[c].request \notin Immutable => got[c].age <= Ttl + Latency

\* A wait that reports a winner is right, although its answer may come from
\* a row that another caller or another process stored: the signature it
\* waited for is final.
WinnerIsFinal ==
  \A c \in Callers :
    loop[c].pc = "landed" => truth[call[c].request] = MaxVersion

\* A caller always gets back what it asked for: post_rpc walks the endpoints
\* once and returns, and a wait ends with a winner, by giving up or by raising,
\* whatever the nodes, the cache and the other callers do.
CallersReturn == \A c \in Callers : Busy(c) ~> ~Busy(c)

\* is_immutable_request(): what is kept for ever cannot change any more.
ForeverIsImmutable ==
  \A k \in Requests :
    row[k] # NoRow => (row[k].forever => row[k].answer.version = truth[k])

\* wait_for_finalized_signatures(): "Poll finalized status until a winner is
\* found or the budget expires": a wait does not give up on a signature that
\* was final before its last look.
PollsSeeTheLanding ==
  \A c \in Callers : loop[c].pc = "gaveUp" => ~loop[c].late
=============================================================================
