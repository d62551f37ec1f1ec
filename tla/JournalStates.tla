---------------------------- MODULE JournalStates ----------------------------
(***************************************************************************)
(* The vocabulary of the durable transaction journal                       *)
(* (storage/transaction_state.py): the states of one intent, the states    *)
(* that restart recovery picks up, and, for each state a store method      *)
(* moves an intent into, the states that method accepts as its source.     *)
(***************************************************************************)

\* No row with this intent_id exists yet.
Absent == "ABSENT"

\* The enumeration TransactionState.
TransactionState ==
  {"INTENT", "SIGNED", "SUBMITTED", "CONFIRMED",
   "RECONCILED", "FAILED", "EXPIRED", "CANCELLED"}

JournalState == TransactionState \cup {Absent}

\* The states list_recovery_pending selects.
RecoveryStates == {"INTENT", "SIGNED", "SUBMITTED", "CONFIRMED"}

TerminalStates == TransactionState \ RecoveryStates

\* States in which no byte of the transaction has been handed to a sender.
UnsentStates == {"INTENT", "SIGNED"}

\* Mutants: store_signed accepts a submitted record; mark_confirmed accepts
\* an expired one.
ResignSources ==
  [ SIGNED     |-> {"INTENT", "SUBMITTED"},
    SUBMITTED  |-> {"SIGNED"},
    CONFIRMED  |-> {"SUBMITTED"},
    RECONCILED |-> {"CONFIRMED"},
    FAILED     |-> {"INTENT", "SIGNED", "SUBMITTED"},
    EXPIRED    |-> {"SIGNED", "SUBMITTED"},
    CANCELLED  |-> {"INTENT", "SIGNED"} ]

ReviveSources ==
  [ SIGNED     |-> {"INTENT"},
    SUBMITTED  |-> {"SIGNED"},
    CONFIRMED  |-> {"SUBMITTED", "EXPIRED"},
    RECONCILED |-> {"CONFIRMED"},
    FAILED     |-> {"INTENT", "SIGNED", "SUBMITTED"},
    EXPIRED    |-> {"SIGNED", "SUBMITTED"},
    CANCELLED  |-> {"INTENT", "SIGNED"} ]

\* The source_states each mark_* method passes to _transition.
SourceStates ==
  [ SIGNED     |-> {"INTENT"},
    SUBMITTED  |-> {"SIGNED"},
    CONFIRMED  |-> {"SUBMITTED"},
    RECONCILED |-> {"CONFIRMED"},
    FAILED     |-> {"INTENT", "SIGNED", "SUBMITTED"},
    EXPIRED    |-> {"SIGNED", "SUBMITTED"},
    CANCELLED  |-> {"INTENT", "SIGNED"} ]

\* _transition lets the move through; otherwise it raises.
MayMove(from, to) == from \in SourceStates[to]
=============================================================================
