SPECIFICATION PlaygroundSpec
CONSTANTS
  Requests = {1, 2}
  Callers = {proxy}
  RATE_LIMIT_MAX = 1
  RATE_LIMIT_WINDOW = 2
  TxPerRun = 2
  MaxTime = 3
  MaxRestarts = 1
  None = None
  Cards = {card}
  Pages = {page}
INVARIANTS
  AdmissionExact
  NothingSignedIsStale
  ViewsShowTheirRun
PROPERTY NobodyWaitsForEver
CHECK_DEADLOCK FALSE
