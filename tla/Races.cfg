SPECIFICATION Spec
CONSTANTS
  Claims = {c1, c2}
  Challenges = {d1, d2}
  Accounts = {alice}
  Contracts = {alice}
  EvidenceIds = {}
  Roots = {r1}
  Amounts = {5}
  None = None
  DEFAULT_CHALLENGE_WINDOW = 1
  MaxTime = 2
  MaxEvidence = 1
INVARIANTS
  StatusesAgree
  OneCasePerClaim
  Solvent
PROPERTIES
  LifecycleKept
  ValidTimeClosedOnce
SYMMETRY Symmetric
