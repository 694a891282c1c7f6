SPECIFICATION DemoSpec
CONSTANTS
  Claims = {c1, c2}
  Challenges = {h1}
  Accounts = {invA, invB, op, other}
  Contracts = {}
  EvidenceIds = {e1}
  Roots = {own, alien}
  Amounts = {5}
  None = None
  DEFAULT_CHALLENGE_WINDOW = 2
  MaxTime = 3
  MaxEvidence = 3
  Investigators = {v1, v2}
  MaxKeys = 1
  Challenger = op
  InvestigatorA = invA
  InvestigatorB = invB
  Operator = op
  SecondKey = invB
  Strangers = {other}
  OwnRoot = own
  OwnEvidence = e1
  Fee = 5
  DEVNET_SKIP = 2
  MAX_WINDOW_WAIT = 1
  RETRIES = 1
  MaxFaults = 2
  MaxStrangerCalls = 1
INVARIANT WindowOverWhenResolving
