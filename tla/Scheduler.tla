----------------------------- MODULE Scheduler -----------------------------
(***************************************************************************)
(* The scheduler goroutine of the pipeline manager: it takes triggers from *)
(* the TriggeredPipelines channel one at a time, writes the Pipeline, makes *)
(* sure of the PVC, and creates a PipelineRun, pending if the repository   *)
(* already has a pending or a progressing one.                             *)
(*                                                                         *)
(* Every call of the Kubernetes API is a step of its own, so that Tekton,  *)
(* the watcher and the users can act between any two of them.              *)
(***************************************************************************)
EXTENDS TektonRuns, Sequences

CONSTANTS
  Pipelines,          \* the names makePipelineName gives: one per branch
  PipelineOf,         \* the pipeline of each request
  ChannelBufferSize   \* the capacity of each Go channel

ASSUME SchedulerAssumption ==
  /\ PipelineOf \in [Reqs -> Pipelines]
  /\ ChannelBufferSize \in Nat \ {0}

VARIABLES
  triggeredPipelines,  \* the channel from the receiver to the scheduler
  pendingRunRepos,     \* the channel from the scheduler to the watcher
  pipelineDef,         \* the request each Pipeline resource was last written for
  pvcs,                \* the repositories that have a PVC
  schedPc,             \* where the scheduler is
  pData,               \* the request it is scheduling
  resourceVersion,     \* the version of the Pipeline that it has read
  needQueueing,        \* whether its list showed a pending or progressing run
  dropped              \* history: accepted triggers that will never run

channels == <<triggeredPipelines, pendingRunRepos>>
resources == <<pipelineDef, pvcs>>
schedLocals == <<schedPc, pData, resourceVersion, needQueueing>>
schedVars == <<channels, resources, schedLocals, dropped>>

SchedPcs == {"receive", "getPipeline", "writePipeline", "pvc", "list", "create", "send"}

SchedulerTypeOK ==
  /\ triggeredPipelines \in Seq(Reqs)
  /\ pendingRunRepos \in Seq(Repos)
  /\ pipelineDef \in [Pipelines -> Reqs \cup {NoReq}]
  /\ pvcs \subseteq Repos
  /\ schedPc \in SchedPcs
  /\ pData \in Reqs \cup {NoReq}
  /\ (schedPc # "receive") => pData \in Reqs
  /\ resourceVersion \in Reqs \cup {NoReq}
  /\ needQueueing \in BOOLEAN
  /\ dropped \subseteq Reqs

SchedulerInit ==
  /\ triggeredPipelines = <<>>
  /\ pendingRunRepos = <<>>
  /\ pipelineDef = [p \in Pipelines |-> NoReq]
  /\ pvcs = {}
  /\ dropped = {}
  /\ schedPc = "receive"
  /\ pData = NoReq
  /\ resourceVersion = NoReq
  /\ needQueueing = FALSE

(* Mutant: a buffer with one slot too many. *)
HasRoomOffByOne(channel) == Len(channel) <= ChannelBufferSize

HasRoom(channel) == Len(channel) < ChannelBufferSize

Repository == RepoOf[pData]

(* schedule returns and the select of Run is reached again.                *)
AwaitNext ==
  /\ schedPc' = "receive"
  /\ pData' = NoReq
  /\ resourceVersion' = NoReq
  /\ needQueueing' = FALSE

(* An API error is logged, schedule returns false, and nobody retries ...  *)
Drop ==
  /\ AwaitNext
  /\ dropped' = dropped \cup (IF phase'[pData] = "absent" THEN {pData} ELSE {})
  /\ UNCHANGED channels

(* ... usually with nothing changed.                                       *)
LogAndReturn == Drop /\ UNCHANGED resources

GoTo(pc) == schedPc' = pc

(***************************************************************************)
(* Actions                                                                 *)
(***************************************************************************)
ReceiveTrigger ==
  /\ schedPc = "receive"
  /\ triggeredPipelines # <<>>
  /\ pData' = Head(triggeredPipelines)
  /\ triggeredPipelines' = Tail(triggeredPipelines)
  /\ GoTo("getPipeline")
  /\ UNCHANGED <<runVars, pendingRunRepos, resources, resourceVersion, needQueueing, dropped>>

(* Any error of GetPipeline is read as "does not exist".                   *)
GetPipeline ==
  /\ schedPc = "getPipeline"
  /\ \/ resourceVersion' = pipelineDef[PipelineOf[pData]]
     \/ /\ "getPipeline" \in Faults
        /\ resourceVersion' = NoReq
  /\ GoTo("writePipeline")
  /\ UNCHANGED <<runVars, channels, resources, pData, needQueueing, dropped>>

(* Mutant: an error of the write is logged and otherwise ignored. *)
WritePipelineIgnoringErrors ==
  LET p == PipelineOf[pData] IN
  /\ schedPc = "writePipeline"
  /\ \/ /\ pipelineDef[p] = resourceVersion
        /\ pipelineDef' = [pipelineDef EXCEPT ![p] = pData]
     \/ /\ pipelineDef[p] # resourceVersion \/ "writePipeline" \in Faults
        /\ UNCHANGED pipelineDef
  /\ GoTo("pvc")
  /\ UNCHANGED <<runVars, channels, pvcs, pData, resourceVersion, needQueueing, dropped>>

(* A create is refused when the Pipeline exists, an update when it is no   *)
(* longer the version that was read; the reply to either may be lost.      *)
WritePipeline ==
  LET p == PipelineOf[pData] IN
  /\ schedPc = "writePipeline"
  /\ UNCHANGED runVars
  /\ \/ /\ pipelineDef[p] = resourceVersion
        /\ pipelineDef' = [pipelineDef EXCEPT ![p] = pData]
        /\ UNCHANGED pvcs
        /\ \/ /\ GoTo("pvc")
              /\ UNCHANGED <<channels, pData, resourceVersion, needQueueing, dropped>>
           \/ "writePipeline" \in Faults /\ Drop
     \/ /\ pipelineDef[p] # resourceVersion \/ "writePipeline" \in Faults
        /\ LogAndReturn

(* Nobody else creates or deletes the PVC between the get and the create.  *)
CreatePVCIfRequired ==
  /\ schedPc = "pvc"
  /\ UNCHANGED runVars
  /\ \/ /\ pvcs' = pvcs \cup {Repository}
        /\ UNCHANGED pipelineDef
        /\ \/ /\ GoTo("list")
              /\ UNCHANGED <<channels, pData, resourceVersion, needQueueing, dropped>>
           \/ "pvc" \in Faults /\ Drop
     \/ /\ "pvc" \in Faults
        /\ LogAndReturn

(* Mutant: pending runs are overlooked. *)
NeedsQueueingProgressingOnly(repo) == Progressing(repo) # {}

NeedsQueueing(repo) == Pending(repo) # {} \/ Progressing(repo) # {}

ListRuns ==
  /\ schedPc = "list"
  /\ UNCHANGED runVars
  /\ \/ /\ needQueueing' = NeedsQueueing(Repository)
        /\ GoTo("create")
        /\ UNCHANGED <<channels, resources, pData, resourceVersion, dropped>>
     \/ /\ "listRuns" \in Faults
        /\ LogAndReturn

(* A call that times out may have created the run ("createReply").         *)
CreatePipelineRun ==
  /\ schedPc = "create"
  /\ \/ /\ CreateRunAs(pData, IF needQueueing THEN "pending" ELSE "progressing")
        /\ \/ IF needQueueing
              THEN /\ GoTo("send")
                   /\ UNCHANGED <<channels, resources, pData, resourceVersion, needQueueing, dropped>>
              ELSE /\ AwaitNext
                   /\ UNCHANGED <<channels, resources, dropped>>
           \/ /\ "createReply" \in Faults
              /\ LogAndReturn
     \/ /\ "createRun" \in Faults
        /\ UNCHANGED runVars
        /\ LogAndReturn

(* Blocks while the watcher's channel is full.                             *)
SendPendingRepo ==
  /\ schedPc = "send"
  /\ HasRoom(pendingRunRepos)
  /\ pendingRunRepos' = Append(pendingRunRepos, Repository)
  /\ AwaitNext
  /\ UNCHANGED <<runVars, triggeredPipelines, resources, dropped>>

=============================================================================
