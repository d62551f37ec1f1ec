------------------------- MODULE AddressHistory -------------------------
(***************************************************************************)
(* What one poll of an address returns (ingest/rpc_observer.py,            *)
(* observe_address and _read_signature_history).  The finalized history of *)
(* the address is a sequence of transactions, oldest first; a read walks   *)
(* it newest first, page by page, down to the transaction its cursor names.*)
(* The operators are pure: ObservationLoop and TrackedLaunches hold the    *)
(* history, the cursor and what is done with the result.                   *)
(***************************************************************************)
EXTENDS Integers, FiniteSets

CONSTANTS
    MaxSignatures,    \* page size of getSignaturesForAddress (max_signatures)
    MaxTransactions,  \* transactions one read may return (max_transactions)
    MaxPages,         \* pages one read may fetch (max_pages)
    BoundaryInPage    \* TRUE: pages run on past the cursor (no "until", as on a
                      \* Helius endpoint); FALSE: "until" ends them just above it

ASSUME HistoryAssumption ==
    /\ MaxSignatures \in Nat \ {0}
    /\ MaxTransactions \in Nat \ {0}
    /\ MaxPages \in Nat \ {0}
    /\ BoundaryInPage \in BOOLEAN

(* What a finalized transaction of the address is to the reader: a failed  *)
(* one is read and yields no observation.                                  *)
Kinds == {"create", "other", "failed"}

(* No cursor: nothing was acknowledged yet.                                *)
NoCursor == 0

Abstain == [read |-> FALSE, sigs |-> {}]
Returned(sigs) == [read |-> TRUE, sigs |-> sigs]

Least(a, b) == IF a <= b THEN a ELSE b

(* The signatures newer than a cursor.                                     *)
Newer(tip, cursor) == (cursor + 1) .. tip

(* Without a cursor the newest signatures of the first page.               *)
HeadOfHistory(tip) ==
    {i \in 1 .. tip : tip - i < Least(MaxSignatures, MaxTransactions)}

(* Mutant: the cursor itself is not counted among the signatures fetched.  *)
WithinBoundsButOne(tip, cursor) ==
    LET pending == tip - cursor IN
    /\ pending <= MaxTransactions
    /\ IF BoundaryInPage
       THEN pending <= MaxPages * MaxSignatures
       ELSE /\ pending % MaxSignatures = 0
            /\ pending \div MaxSignatures < MaxPages

(* With a cursor, everything newer than it or nothing: too many signatures,*)
(* too many pages, or a last page that neither is full nor shows the       *)
(* boundary make the read abstain.                                         *)
WithinBounds(tip, cursor) ==
    LET pending == tip - cursor IN
    /\ pending <= MaxTransactions
    /\ IF BoundaryInPage
       THEN pending + 1 <= MaxPages * MaxSignatures
       ELSE /\ pending % MaxSignatures = 0
            /\ pending \div MaxSignatures < MaxPages

SignatureHistory(tip, cursor) ==
    IF cursor = NoCursor THEN Returned(HeadOfHistory(tip))
    ELSE IF WithinBounds(tip, cursor) THEN Returned(Newer(tip, cursor))
    ELSE Abstain

(* The observations among the signatures of a read.                        *)
Observed(history, sigs) == {i \in sigs : history[i] # "failed"}

-----------------------------------------------------------------------------
(***************************************************************************)
(* The loop of the code, page after page, that SignatureHistory sums up.   *)
(* Entry j of the listing is transaction tip - j + 1.                      *)
(***************************************************************************)
Entries(tip, n) == Returned({tip - j + 1 : j \in 1 .. n})

(* One turn of the loop, with what the turns after it return.              *)
PageTurn(tip, cursor, k, rest) ==
    LET listed == IF BoundaryInPage THEN tip ELSE tip - cursor
        boundary == tip - cursor + 1
        before == (k - 1) * MaxSignatures
        last == Least(k * MaxSignatures, listed)
    IN  IF k > MaxPages THEN Abstain
        ELSE IF last <= before THEN Entries(tip, before)
        ELSE IF Least(last, boundary - 1) > MaxTransactions THEN Abstain
        ELSE IF boundary <= last THEN Entries(tip, boundary - 1)
        ELSE IF last < k * MaxSignatures THEN Abstain
        ELSE rest

PageLoop(tip, cursor) ==
    LET page[k \in 1 .. MaxPages + 1] == PageTurn(tip, cursor, k, page[k + 1])
    IN  page[1]

(* The closed form is the loop's result, for every cursor on the history.  *)
PageLoopAgrees(tip) ==
    \A cursor \in 1 .. tip : SignatureHistory(tip, cursor) = PageLoop(tip, cursor)
=============================================================================
