\* Three requests for one repository, every remote call may fail, one restart.
SPECIFICATION Spec
CONSTANTS
  r1 = r1
  r2 = r2
  r3 = r3
  a = a
  b = b
  pa = pa
  pb = pb
  NoReq = NoReq
  NoRepo = NoRepo
  Reqs <- ThreeReqs
  Repos = {a}
  RepoOf <- ThreeRepoOf
  Pipelines = {pa, pb}
  PipelineOf <- ThreePipelineOf
  ChannelBufferSize = 1
  Faults = {"getPipeline", "writePipeline", "pvc", "listRuns", "createRun", "createReply", "listQueue", "startOldest", "repoList"}
  Listed = {a}
  MaxRestarts = 1
INVARIANTS TypeOK ManagerInv AtMostOneProgressing TriggerAccountedFor DefinitionNotOlder
PROPERTIES CreatedFromOwnDefinition StartsInOrder ImplementsRunQueue
