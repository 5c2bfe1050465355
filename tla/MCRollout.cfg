\* No API call fails; the two pods overlap.
SPECIFICATION Spec
CONSTANTS
  r1 = r1
  r2 = r2
  a = a
  pa = pa
  pb = pb
  NoReq = NoReq
  NoRepo = NoRepo
  Reqs <- TwoReqs
  Repos = {a}
  RepoOf <- TwoRepoOf
  Pipelines = {pa, pb}
  PipelineOf <- TwoPipelineOf
  ChannelBufferSize = 1
  Faults = {}
  Listed = {a}
  MaxRestarts = 0
INVARIANTS NoConcurrentRuns
CHECK_DEADLOCK FALSE
