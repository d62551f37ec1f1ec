----------------------- MODULE MCObservationLoop -----------------------
(* Instances of ObservationLoop for TLC, and the reader of AddressHistory  *)
(* compared with its page loop for more bounds than one instance has.      *)
EXTENDS ObservationLoop

Reader(pageSize, transactions, pages, inPage) ==
    INSTANCE AddressHistory WITH
        MaxSignatures <- pageSize, MaxTransactions <- transactions,
        MaxPages <- pages, BoundaryInPage <- inPage

(* _read_signature_history: the closed form the model reads with is what   *)
(* the code's page loop returns, for every cursor on the history.  Only    *)
(* the length of the history matters: one state of each length is enough.  *)
ReadIsThePageLoop ==
    pc = "reading" /\ raw = {} /\ faults = 0 /\ caughtUp = FALSE =>
    \A pageSize \in 1 .. 3, transactions \in 1 .. 4, pages \in 1 .. 3 :
        \A inPage \in BOOLEAN :
            Reader(pageSize, transactions, pages, inPage)
                !PageLoopAgrees(Len(history))
=============================================================================
