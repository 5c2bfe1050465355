\* Two requests for one repository; the watcher's list may fail once or more.
SPECIFICATION Spec
CONSTANTS
  r1 = r1
  r2 = r2
  r3 = r3
  a = a
  b = b
  pa = pa
  pb = pb
  NoReq = NoReq
  NoRepo = NoRepo
  Reqs <- TwoReqs
  Repos = {a}
  RepoOf <- TwoRepoOf
  Pipelines = {pa, pb}
  PipelineOf <- TwoPipelineOf
  ChannelBufferSize = 1
  Faults = {"listQueue"}
  Listed = {a}
  MaxRestarts = 0
INVARIANTS NoPendingForgotten
