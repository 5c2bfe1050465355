\* An umbrella and its component, one version, two commits; runs may end at any call,
\* lists may be cut off or answered with an error.
SPECIFICATION Spec
CONSTANTS
  umbrella = umbrella
  component = component
  top = top
  sub = sub
  v1 = v1
  v10 = v10
  c1 = c1
  c2 = c2
  NoVersion = NoVersion
  Pipelines <- BothPipelines
  Repos = {top, sub}
  RepoOrder <- BothOrder
  Commits = {c1, c2}
  Versions = {v1}
  Matches <- OwnMatches
  PageSize = 2
  ListErrors = TRUE
  MaxRuns = 3
SYMMETRY CommitSymmetry
INVARIANTS TypeOK FinalsOnCandidates NamesOfOneRun NumbersGrow CandidatesCountRuns FinalIsLast ReleaseDownloadable
CHECK_DEADLOCK FALSE
