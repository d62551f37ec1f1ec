SPECIFICATION Spec
CONSTANTS
  Intents = {i1}
  Calls = {c1}
  MaxHeight = 1
  Validity = 0
  MaxCrashes = 1
  NoSig = NoSig
  NoIntent = NoIntent
INVARIANTS
  ExpiredMeansAbsent
