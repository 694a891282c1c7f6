SPECIFICATION OffChainSpec
CONSTANTS
  Parts = {"desk"}
  ModelProviders = {pa}
  MaxReports = 0
  Bonds = {0}
  Nodes = {n1}
  MaxEdges = 0
  MaxUpdates = 0
  Content = {Original}
  Original = Original
  Altered = Altered
  Absent = Absent
  Torn = Torn
  MaxJobs = 0
  MaxCrashes = 0
  Leaves = 1
  MaxHashes = 1
  Amount = {12, 40}
  NoAmount = {0}
  AsOfFigure = {24}
  MaxParts = 3
INVARIANTS
  MisreadNeverFights
CHECK_DEADLOCK FALSE
