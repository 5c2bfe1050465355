\* Three requests for one repository; creating a run may fail.
SPECIFICATION FairSpec
CONSTANTS
  r1 = r1
  r2 = r2
  r3 = r3
  a = a
  b = b
  pa = pa
  pb = pb
  NoReq = NoReq
  NoRepo = NoRepo
  Reqs <- ThreeReqs
  Repos = {a}
  RepoOf <- ThreeRepoOf
  Pipelines = {pa, pb}
  PipelineOf <- ThreePipelineOf
  ChannelBufferSize = 1
  Faults = {"createRun"}
  Listed = {a}
  MaxRestarts = 0
PROPERTIES TriggerEventuallyRuns PollingEnds
