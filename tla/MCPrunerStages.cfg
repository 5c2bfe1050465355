\* One prune at a time, no call fails; pipeline pa has runs of two stages.
SPECIFICATION Spec
CONSTANTS
  r1 = r1
  r2 = r2
  r3 = r3
  r4 = r4
  a = a
  pa = pa
  pb = pb
  dev = dev
  qa = qa
  j1 = j1
  j2 = j2
  NoRepo = NoRepo
  NoStage = NoStage
  Runs <- ThreeRuns
  Repos = {a}
  RepoOf <- ThreeRepoOf
  Pipelines = {pa, pb}
  PipelineOf <- MovedPipelineOf
  Stages = {dev, qa}
  StageOf <- MovedStageOf
  MinKeepHours = 1
  MaxKeepRuns = 1
  Prunes = {j1}
  MaxTime = 2
  RunsDepend = FALSE
  CallsFail = FALSE
PROPERTIES ProtectedRunsSurvive
