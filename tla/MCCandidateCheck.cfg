\* One repository; the filter of version v1 lists the tags of version v10 as well.
SPECIFICATION Spec
CONSTANTS
  umbrella = umbrella
  component = component
  top = top
  sub = sub
  v1 = v1
  v10 = v10
  c1 = c1
  c2 = c2
  NoVersion = NoVersion
  Pipelines = {component}
  Repos = {sub}
  RepoOrder <- ComponentOrder
  Commits = {c1, c2}
  Versions = {v1, v10}
  Matches <- PrefixMatches
  PageSize = 25
  ListErrors = FALSE
  MaxRuns = 3
SYMMETRY CommitSymmetry
INVARIANT FinalsOnCandidates
CHECK_DEADLOCK FALSE
