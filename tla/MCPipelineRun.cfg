CONSTANTS
  app = app
  sub = sub
  a1 = a1
  s1 = s1
  s2 = s2
  NoCommit = NoCommit
  Repos <- MCRepos
  Commits <- MCCommits
  Trees <- MCCommits
  RepoOf <- MCRepoOf
  TreeOf <- MCTreeOf
  Checkouts <- MCCheckouts
  Tasks <- MCTasks
  Stages <- MCStages
  RegistryHosts = {"prod"}
  AquaGate = TRUE
  MaxRuns = 3
  MaxFaults = 1
SPECIFICATION Spec
SYMMETRY MCSymmetry
INVARIANTS
  TypeOK
  NexusHonest
  ChildrenSucceeded
  ReusedBuildComplete
  RecordedDigestCurrent
  GreenCommitBuilt
  ShippedAsRecorded
  DeployedChartCurrent
PROPERTIES
  GateOfOwnAnalysis
  FinishedRunArchived
  ImplementsPromotion
CHECK_DEADLOCK FALSE
