------------------------- MODULE AtMostOnceExecution -------------------------
(***************************************************************************)
(* What the execution side promises its callers, without calls, signatures, *)
(* polls or recovery: one intent_id is one economic decision.  It takes      *)
(* effect on the chain at most once, only while it is handed to the network, *)
(* and a decision reported as done did take effect.  A decision that is      *)
(* given up after it was handed over may have taken effect before, but does  *)
(* not any more: whatever the outcome, it is settled.                        *)
(***************************************************************************)
CONSTANTS
  Intents,  \* the economic decisions
  Txs       \* the signed transactions a decision could be carried by

VARIABLES
  phase,    \* phase of each decision
  effects   \* transactions of each decision that executed successfully

Phase == {"new", "handedOver", "done", "void", "givenUp"}

Init ==
  /\ phase = [i \in Intents |-> "new"]
  /\ effects = [i \in Intents |-> {}]

Become(i, from, to) ==
  phase[i] = from /\ phase' = [phase EXCEPT ![i] = to]

HandOver(i) == Become(i, "new", "handedOver") /\ UNCHANGED effects

\* Dropped before it was handed over, or executed with an error.
Void(i) ==
  /\ effects[i] = {}
  /\ Become(i, "new", "void") \/ Become(i, "handedOver", "void")
  /\ UNCHANGED effects

TakeEffect(i) ==
  /\ phase[i] = "handedOver"
  /\ effects[i] = {}
  /\ \E t \in Txs : effects' = [effects EXCEPT ![i] = {t}]
  /\ UNCHANGED phase

Done(i) ==
  /\ effects[i] # {}
  /\ Become(i, "handedOver", "done")
  /\ UNCHANGED effects

GiveUp(i) == Become(i, "handedOver", "givenUp") /\ UNCHANGED effects

Next ==
  \E i \in Intents :
    HandOver(i) \/ Void(i) \/ TakeEffect(i) \/ Done(i) \/ GiveUp(i)

Spec == Init /\ [][Next]_<<phase, effects>>

\* The promise in one formula: a decision has at most one effect, none while
\* it is not handed over or once it is void, and one when it is done.
AtMostOnce ==
  \A i \in Intents :
    /\ \A s, t \in effects[i] : s = t
    /\ phase[i] \in {"new", "void"} => effects[i] = {}
    /\ phase[i] = "done" => effects[i] # {}
=============================================================================
