SPECIFICATION FairSpec
CONSTANTS
  Intents = {i1}
  Calls = {c1, c2}
  MaxHeight = 1
  Validity = 0
  MaxCrashes = 2
  NoSig = NoSig
  NoIntent = NoIntent
INVARIANTS
  TypeOK
  OneDurableBroadcast
  JournalMatchesChain
  OneWinner
  AcceptedIsFinal
  RecoveryLeavesOnlySubmitted
PROPERTIES
  RecordsAreStable
  KeepsPromise
  SubmitReturns
  UnsentDecidedAfterCrash
