SPECIFICATION OffChainSpec
CONSTANTS
  Parts = {"reports", "graph", "history", "storage", "desk"}
  ModelProviders = {pa, pb}
  MaxReports = 4
  Bonds = {0, 1, 4, 5, 11, 24}
  Nodes = {n1, n2, n3}
  MaxEdges = 3
  MaxUpdates = 4
  Content = {Original, Altered}
  Original = Original
  Altered = Altered
  Absent = Absent
  Torn = Torn
  MaxJobs = 2
  MaxCrashes = 1
  Leaves = 3
  MaxHashes = 4
  Amount = {12, 49, 50}
  NoAmount = {0}
  AsOfFigure = {24}
  MaxParts = 3
INVARIANTS
  ContractMatchesProcedure
  PredictionExact
  NobodyGainsByMajority
  DependenciesAcyclic
  LiveMeansLive
  TamperingShows
  MirrorKept
  RootsIdentifyContents
  FightsAreEarned
  LabelsNameTheAnswer
PROPERTIES
  HistoryKept
CHECK_DEADLOCK FALSE
