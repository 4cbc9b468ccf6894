CONSTANTS
  Switch = {1, 2, 3, 4}
  Topology <- MCTopology
  Lab <- MCLab
  NoPort = 0
  MaxHellos = 2
  CostSurvives = TRUE
SPECIFICATION FairSpec
INVARIANTS CostsAreReal RootPortLeadsCloser
PROPERTIES RootOnlyImproves Converges
