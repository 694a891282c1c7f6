SPECIFICATION SystemSpec
CONSTANTS
  Claims = {c1}
  Challenges = {h1}
  Accounts = {alice, bot}
  Contracts = {bot}
  Callers = {bot}
  EvidenceIds = {e1}
  Roots = {r1}
  Amounts = {5}
  None = None
  DEFAULT_CHALLENGE_WINDOW = 0
  MaxTime = 2
  MaxEvidence = 1
  Investigators = {v1, v2}
  MaxKeys = 3
  MaxRegistryLog = 3
INVARIANTS
  LinksNameOneReport
  LineageEndorsed
  RecordFollowsKeys
  ReadModelExact
  WorkIndexed
  IdentitiesIndexed
  CalibrationPerReport
SYMMETRY Symmetric
CONSTRAINT Bounded
