------------------------ MODULE InOrderHandling ------------------------
(***************************************************************************)
(* What the observation loop promises: the successful transactions of the  *)
(* watched wallet are recorded as handled in the order of the chain, none  *)
(* between two recorded ones left out as long as the source is gapless.    *)
(* The first one recorded may be any: history older than the first read is *)
(* nobody's business.  How a transaction comes to be handled (the reads,   *)
(* the staging, the raw store, the retries, the crashes) is left out.      *)
(***************************************************************************)
EXTENDS Integers, Sequences

VARIABLES
    history,  \* the wallet's finalized transactions, oldest first
    handled,  \* the transactions durably recorded as handled
    gapless   \* the source reads the chain itself (FALSE: it is told of some)

vars == <<history, handled, gapless>>

Successful(i) == history[i] # "failed"

Init ==
    /\ history = <<>>
    /\ handled = {}
    /\ gapless \in BOOLEAN

Finalize ==
    /\ \E kind \in {"create", "refused", "other", "failed"} :
          history' = Append(history, kind)
    /\ UNCHANGED <<handled, gapless>>

(* A transaction is recorded after every recorded one; a gapless source    *)
(* leaves only failed ones between it and the last.                        *)
Record(i) ==
    /\ Successful(i)
    /\ \A j \in handled : j < i
    /\ gapless => \A k \in 1 .. i - 1 :
          Successful(k) /\ (\E j \in handled : j < k) => k \in handled
    /\ handled' = handled \cup {i}
    /\ UNCHANGED <<history, gapless>>

Next == Finalize \/ \E i \in 1 .. Len(history) : Record(i)

Spec == Init /\ [][Next]_vars

(* The promise in one formula: every record is of a successful transaction *)
(* of the chain, and between two records of a gapless source nothing that  *)
(* succeeded is left out.                                                  *)
NothingBetween ==
    /\ \A i \in handled : i \in 1 .. Len(history) /\ Successful(i)
    /\ gapless =>
          \A i, j \in handled :
             \A k \in i .. j : Successful(k) => k \in handled
=============================================================================
