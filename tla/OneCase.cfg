SPECIFICATION FairSpec
CONSTANTS
  Claims = {c1}
  Challenges = {d1}
  Accounts = {alice, bob, carol, dave}
  Contracts = {dave}
  EvidenceIds = {}
  Roots = {r1}
  Amounts = {0, 4, 11}
  None = None
  DEFAULT_CHALLENGE_WINDOW = 1
  MaxTime = 2
  MaxEvidence = 1
  MaxTransfers = 2
INVARIANTS
  TypeOK
  TalliesMatchReports
  VerdictMatchesReports
  BondAccounted
PROPERTIES
  VerdictsFinal
  CasesGetDecided
