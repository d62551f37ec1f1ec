SPECIFICATION FairSpec
CONSTANTS
  Callers = {c1}
  Requests = {status, tx}
  Immutable = {tx}
  Endpoints = 2
  Ttl = 1
  Latency = 1
  MaxPolls = 2
  MaxVersion = 1
  NoRow = NoRow
  None = None
INVARIANTS
  TypeOK
  BoundedStaleness
  WinnerIsFinal
PROPERTIES
  CallersReturn
