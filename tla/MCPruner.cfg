\* Four runs; a pipeline with two runs of one stage and one of another, and a pipeline of one run.
\* Two prunes may overlap, calls fail.
SPECIFICATION FairSpec
CONSTANTS
  r1 = r1
  r2 = r2
  r3 = r3
  r4 = r4
  a = a
  pa = pa
  pb = pb
  dev = dev
  qa = qa
  j1 = j1
  j2 = j2
  NoRepo = NoRepo
  NoStage = NoStage
  Runs <- FourRuns
  Repos = {a}
  RepoOf <- FourRepoOf
  Pipelines = {pa, pb}
  PipelineOf <- FourPipelineOf
  Stages = {dev, qa}
  StageOf <- FourStageOf
  MinKeepHours = 1
  MaxKeepRuns = 1
  Prunes = {j1, j2}
  MaxTime = 2
  RunsDepend = TRUE
  CallsFail = TRUE
INVARIANTS TypeOK TriggerCovered
PROPERTIES KeptUnlessMoved OnlyOldRunsGo TriggerPruned
