SPECIFICATION FairSpec
CONSTANTS
  Rebuilds = {r1, r2}
  Investigators = {v1}
  MaxChain = 2
  MaxRestarts = 1
INVARIANTS
  ServedLinksResolve
PROPERTIES
  RebuildSeesItsStart
  Converges
