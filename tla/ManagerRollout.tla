--------------------------- MODULE ManagerRollout ---------------------------
(***************************************************************************)
(* Two pods of the pipeline manager at once.  The Deployment leaves the    *)
(* update strategy at its default, RollingUpdate: the new pod serves       *)
(* webhooks and schedules before the old one is terminated.  Each pod is a *)
(* PipelineManager with channels, queues and goroutines of its own; they   *)
(* share the runs, pipelines and PVCs of the namespace.                    *)
(***************************************************************************)
EXTENDS TektonRuns, Sequences

CONSTANTS Pipelines, PipelineOf, ChannelBufferSize, NoRepo, Listed, MaxRestarts

VARIABLES pipelineDef, pvcs

VARIABLES  \* the old pod
  triggeredPipelines1, pendingRunRepos1, schedPc1, pData1,
  resourceVersion1, needQueueing1, dropped1, queues1, timer1, watchPc1,
  todo1, queue1, oldestPR1, more1, hook1, bootScan1, bootTodo1, restarts1

VARIABLES  \* the new pod
  triggeredPipelines2, pendingRunRepos2, schedPc2, pData2,
  resourceVersion2, needQueueing2, dropped2, queues2, timer2, watchPc2,
  todo2, queue2, oldestPR2, more2, hook2, bootScan2, bootTodo2, restarts2

VARIABLE oldRuns  \* whether the old pod has not been terminated yet

oldVars == <<
  triggeredPipelines1, pendingRunRepos1, schedPc1, pData1,
  resourceVersion1, needQueueing1, dropped1, queues1, timer1, watchPc1,
  todo1, queue1, oldestPR1, more1, hook1, bootScan1, bootTodo1, restarts1 >>

newVars == <<
  triggeredPipelines2, pendingRunRepos2, schedPc2, pData2,
  resourceVersion2, needQueueing2, dropped2, queues2, timer2, watchPc2,
  todo2, queue2, oldestPR2, more2, hook2, bootScan2, bootTodo2, restarts2 >>

vars == <<runVars, pipelineDef, pvcs, oldVars, newVars, oldRuns>>

Old == INSTANCE PipelineManager WITH
  triggeredPipelines <- triggeredPipelines1,
  pendingRunRepos <- pendingRunRepos1,
  schedPc <- schedPc1,
  pData <- pData1,
  resourceVersion <- resourceVersion1,
  needQueueing <- needQueueing1,
  dropped <- dropped1,
  queues <- queues1,
  timer <- timer1,
  watchPc <- watchPc1,
  todo <- todo1,
  queue <- queue1,
  oldestPR <- oldestPR1,
  more <- more1,
  hook <- hook1,
  bootScan <- bootScan1,
  bootTodo <- bootTodo1,
  restarts <- restarts1

New == INSTANCE PipelineManager WITH
  triggeredPipelines <- triggeredPipelines2,
  pendingRunRepos <- pendingRunRepos2,
  schedPc <- schedPc2,
  pData <- pData2,
  resourceVersion <- resourceVersion2,
  needQueueing <- needQueueing2,
  dropped <- dropped2,
  queues <- queues2,
  timer <- timer2,
  watchPc <- watchPc2,
  todo <- todo2,
  queue <- queue2,
  oldestPR <- oldestPR2,
  more <- more2,
  hook <- hook2,
  bootScan <- bootScan2,
  bootTodo <- bootTodo2,
  restarts <- restarts2

Init == Old!Init /\ New!Init /\ oldRuns = TRUE

(* The service routes each webhook to one of the pods.                     *)
RoutedOnce == \A r \in Reqs : hook1'[r] = "new" \/ hook2'[r] = "new"

OldPodStep == oldRuns /\ Old!ManagerStep /\ UNCHANGED <<newVars, oldRuns>> /\ RoutedOnce

NewPodStep == New!ManagerStep /\ UNCHANGED <<oldVars, oldRuns>> /\ RoutedOnce

OldPodTerminates ==
  /\ oldRuns
  /\ oldRuns' = FALSE
  /\ UNCHANGED <<runVars, pipelineDef, pvcs, oldVars, newVars>>

Next ==
  \/ OldPodStep
  \/ NewPodStep
  \/ OldPodTerminates
  \/ \E r \in Reqs : /\ Complete(r) \/ CancelOrTimeOut(r)
                     /\ UNCHANGED <<pipelineDef, pvcs, oldVars, newVars, oldRuns>>

Spec == Init /\ [][Next]_vars

(* SRS-PIPELINE-MANAGER-6, "shall prevent concurrent pipeline runs for one *)
(* repository": no two runs of a repository progress, during a rollout of  *)
(* the manager either.                                                     *)
NoConcurrentRuns == \A q \in Repos : \A r, s \in Progressing(q) : r = s

=============================================================================
