\* Two requests of repository a, another repository that the boot scan reaches,
\* two restarts; the calls of the scheduler may fail, those by which the watcher
\* learns of pending runs do not.
SPECIFICATION FairSpec
CONSTANTS
  r1 = r1
  r2 = r2
  r3 = r3
  a = a
  b = b
  pa = pa
  pb = pb
  NoReq = NoReq
  NoRepo = NoRepo
  Reqs <- TwoReqs
  Repos = {a, b}
  RepoOf <- TwoRepoOf
  Pipelines = {pa, pb}
  PipelineOf <- TwoPipelineOf
  ChannelBufferSize = 1
  Faults = {"getPipeline", "writePipeline", "pvc", "listRuns", "createRun"}
  Listed = {a, b}
  MaxRestarts = 2
INVARIANTS NoPendingForgotten
PROPERTIES TriggerEventuallyRuns
