------------------------- MODULE ManagerTypeProofs -------------------------
(***************************************************************************)
(* Type correctness of PipelineManager, for every value of its constants.  *)
(***************************************************************************)
EXTENDS PipelineManager, TLAPS

USE RunsAssumption, SchedulerAssumption, WatcherAssumption, ManagerAssumption
USE DEF vars, runVars, schedVars, channels, resources, schedLocals, watchVars,
        receiverVars, bootVars

(* Creating a run keeps the type of the runs.                              *)
LEMMA CreateRunType ==
  ASSUME RunsTypeOK, NEW r \in Reqs, NEW ph \in Phases, CreateRunAs(r, ph)
  PROVE  RunsTypeOK'
  BY DEF RunsTypeOK, CreateRunAs

(* Receiving from a channel and sending on one that has room keep it a     *)
(* sequence within its capacity.                                           *)
LEMMA ReceiveType ==
  ASSUME NEW S, NEW channel \in Seq(S), channel # <<>>, Len(channel) <= ChannelBufferSize
  PROVE  /\ Head(channel) \in S
         /\ Tail(channel) \in Seq(S)
         /\ Len(Tail(channel)) <= ChannelBufferSize
  OBVIOUS

LEMMA SendType ==
  ASSUME NEW S, NEW channel \in Seq(S), NEW e \in S, HasRoom(channel)
  PROVE  /\ Append(channel, e) \in Seq(S)
         /\ Len(Append(channel, e)) <= ChannelBufferSize
  BY DEF HasRoom

LEMMA EmptyType == ASSUME NEW S PROVE <<>> \in Seq(S) /\ Len(<<>>) <= ChannelBufferSize
  OBVIOUS

(* Each step of the scheduler keeps the types of the runs, its own         *)
(* variables and the channels.                                             *)
LEMMA SchedulerType ==
  ASSUME TypeOK, SchedulerStep
  PROVE  TypeOK'
  <1> USE DEF TypeOK, SchedulerTypeOK, SchedPcs
  <1>0. WatcherTypeOK'
    BY DEF SchedulerStep, WatcherTypeOK, RunsOf
  <1>1. CASE ReceiveTrigger
    <2>1. /\ Head(triggeredPipelines) \in Reqs
          /\ Tail(triggeredPipelines) \in Seq(Reqs)
          /\ Len(Tail(triggeredPipelines)) <= ChannelBufferSize
      BY <1>1, ReceiveType DEF ReceiveTrigger
    <2>2. QED
      BY <1>0, <1>1, <2>1 DEF ReceiveTrigger, SchedulerStep, GoTo, RunsTypeOK
  <1>2. CASE GetPipeline
    BY <1>0, <1>2 DEF GetPipeline, SchedulerStep, GoTo, RunsTypeOK
  <1>3. CASE WritePipeline
    <2>1. pipelineDef' \in [Pipelines -> Reqs \cup {NoReq}]
      BY <1>3 DEF WritePipeline, LogAndReturn
    <2>2. /\ UNCHANGED <<runVars, channels, pvcs>>
          /\ \/ schedPc' = "pvc" /\ UNCHANGED <<pData, resourceVersion, needQueueing, dropped>>
             \/ Drop
      BY <1>3 DEF WritePipeline, GoTo, LogAndReturn, Drop
    <2>3. QED
      BY <1>0, <1>3, <2>1, <2>2 DEF WritePipeline, SchedulerStep, Drop, AwaitNext, RunsTypeOK
  <1>4. CASE CreatePVCIfRequired
    BY <1>0, <1>4 DEF CreatePVCIfRequired, SchedulerStep, GoTo, LogAndReturn, Drop, AwaitNext,
                      Repository, RunsTypeOK
  <1>5. CASE ListRuns
    BY <1>0, <1>5 DEF ListRuns, NeedsQueueing, SchedulerStep, GoTo, LogAndReturn, Drop, AwaitNext,
                      RunsTypeOK
  <1>6. CASE CreatePipelineRun
    <2>1. RunsTypeOK'
      <3>1. pData \in Reqs
        BY <1>6 DEF CreatePipelineRun
      <3>2. CASE CreateRunAs(pData, IF needQueueing THEN "pending" ELSE "progressing")
        BY <3>1, <3>2, CreateRunType DEF Phases
      <3>3. CASE UNCHANGED runVars
        BY <3>3 DEF RunsTypeOK
      <3>4. QED
        BY <1>6, <3>2, <3>3 DEF CreatePipelineRun
    <2>2. QED
      BY <1>0, <1>6, <2>1 DEF CreatePipelineRun, SchedulerStep, GoTo, LogAndReturn, Drop, AwaitNext
  <1>7. CASE SendPendingRepo
    <2>1. Repository \in Repos
      BY <1>7 DEF SendPendingRepo, Repository
    <2>2. /\ pendingRunRepos' \in Seq(Repos)
          /\ Len(pendingRunRepos') <= ChannelBufferSize
      BY <1>7, <2>1, SendType DEF SendPendingRepo
    <2>3. QED
      BY <1>0, <1>7, <2>2 DEF SendPendingRepo, SchedulerStep, AwaitNext, RunsTypeOK
  <1>8. QED
    BY <1>1, <1>2, <1>3, <1>4, <1>5, <1>6, <1>7 DEF SchedulerStep

(* The end of the advance of one queue keeps the watcher's types.          *)
LEMMA QueueAdvancedType ==
  ASSUME WatcherTypeOK, NEW q \in Repos, NEW remaining \in BOOLEAN,
         QueueAdvanced(q, remaining)
  PROVE  WatcherTypeOK'
  BY DEF WatcherTypeOK, QueueAdvanced, RearmTimer

(* So does each of its steps.                                              *)
LEMMA WatcherType ==
  ASSUME TypeOK, ReceiveRepo \/ AdvanceQueues \/ WatchTimerFires
  PROVE  TypeOK'
  <1> USE DEF TypeOK, SchedulerTypeOK
  <1>1. CASE ReceiveRepo
    <2>1. /\ Head(pendingRunRepos) \in Repos
          /\ Tail(pendingRunRepos) \in Seq(Repos)
          /\ Len(Tail(pendingRunRepos)) <= ChannelBufferSize
      BY <1>1, ReceiveType DEF ReceiveRepo
    <2>2. WatcherTypeOK'
      BY <1>1, <2>1 DEF ReceiveRepo, WatchRepo, RearmTimer, WatcherTypeOK, RunsOf
    <2>3. QED
      BY <1>1, <2>1, <2>2 DEF ReceiveRepo, WatchRepo, RunsTypeOK
  <1>2. CASE WatchTimerFires
    BY <1>2 DEF WatchTimerFires, TimerFires, RunsTypeOK, WatcherTypeOK, RunsOf
  <1>3. CASE AdvanceQueues
    <2>1. CASE ReceiveTick
      BY <1>3, <2>1 DEF AdvanceQueues, ReceiveTick, Active, RunsTypeOK, WatcherTypeOK, RunsOf
    <2>2. ASSUME NEW q \in Repos, ListQueue(q)
          PROVE  TypeOK'
      <3>1. RunsTypeOK'
        BY <2>2 DEF ListQueue, RunsTypeOK
      <3>2. WatcherTypeOK'
        <4>1. CASE \E remaining \in BOOLEAN : QueueAdvanced(q, remaining)
          BY <4>1, QueueAdvancedType
        <4>2. CASE /\ queue' = q
                   /\ oldestPR' \in OldestPending(q)
                   /\ more' = (Pending(q) # {oldestPR'})
                   /\ watchPc' = "update"
                   /\ UNCHANGED <<queues, timer, todo>>
          BY <2>2, <4>2 DEF ListQueue, WatcherTypeOK, OldestPending, Pending, RunsOf
        <4>3. QED
          BY <2>2, <4>1, <4>2 DEF ListQueue
      <3>3. QED
        BY <1>3, <3>1, <3>2 DEF AdvanceQueues
    <2>3. CASE StartOldest
      <3>1. RunsTypeOK'
        BY <2>3 DEF StartOldest, RunsTypeOK, Phases
      <3>2. WatcherTypeOK'
        BY <2>3, QueueAdvancedType DEF StartOldest, WatcherTypeOK
      <3>3. QED
        BY <1>3, <3>1, <3>2 DEF AdvanceQueues
    <2>4. QED
      BY <1>3, <2>1, <2>2, <2>3 DEF AdvanceQueues
  <1>4. QED
    BY <1>1, <1>2, <1>3

(* Every reachable state of the pipeline manager is well typed; both       *)
(* channels stay within their capacity.                                    *)
THEOREM TypeCorrect == Spec => []TypeOK
  <1>1. Init => TypeOK
    <2> SUFFICES ASSUME Init PROVE TypeOK
      OBVIOUS
    <2>1. RunsTypeOK
      BY DEF Init, RunsInit, RunsTypeOK, Phases
    <2>2. SchedulerTypeOK
      BY EmptyType DEF Init, SchedulerInit, SchedulerTypeOK, SchedPcs
    <2>3. WatcherTypeOK
      BY DEF Init, WatcherInit, WatcherTypeOK
    <2>4. QED
      BY <2>1, <2>2, <2>3, EmptyType DEF Init, SchedulerInit, TypeOK
  <1>2. TypeOK /\ [Next]_vars => TypeOK'
    <2> SUFFICES ASSUME TypeOK, [Next]_vars
                 PROVE  TypeOK'
      OBVIOUS
    <2>1. ASSUME NEW r \in Reqs, HandleWebhook(r)
          PROVE  TypeOK'
      BY <2>1 DEF HandleWebhook, TypeOK, RunsTypeOK, SchedulerTypeOK, WatcherTypeOK, RunsOf
    <2>2. ASSUME NEW r \in Reqs, SendTrigger(r)
          PROVE  TypeOK'
      <3>1. /\ triggeredPipelines' \in Seq(Reqs)
            /\ Len(triggeredPipelines') <= ChannelBufferSize
        BY <2>2, SendType DEF SendTrigger, TypeOK, SchedulerTypeOK
      <3>2. QED
        BY <2>2, <3>1 DEF SendTrigger, TypeOK, RunsTypeOK, SchedulerTypeOK, WatcherTypeOK, RunsOf
    <2>3. CASE GetRepoNames
      <3>1. RunsTypeOK'
        BY <2>3 DEF GetRepoNames, TypeOK, RunsTypeOK, RunsOf
      <3>2. SchedulerTypeOK'
        BY <2>3 DEF GetRepoNames, TypeOK, SchedulerTypeOK
      <3>3. WatcherTypeOK'
        BY <2>3 DEF GetRepoNames, TypeOK, WatcherTypeOK
      <3>4. QED
        BY <2>3, <3>1, <3>2, <3>3 DEF GetRepoNames, TypeOK
    <2>4. ASSUME NEW q \in Repos, SendBootRepo(q)
          PROVE  TypeOK'
      <3>1. /\ pendingRunRepos' \in Seq(Repos)
            /\ Len(pendingRunRepos') <= ChannelBufferSize
        BY <2>4, SendType DEF SendBootRepo, TypeOK, SchedulerTypeOK
      <3>2. QED
        BY <2>4, <3>1 DEF SendBootRepo, TypeOK, RunsTypeOK, SchedulerTypeOK, WatcherTypeOK, RunsOf
    <2>5. CASE SchedulerStep
      BY <2>5, SchedulerType
    <2>6. CASE ReceiveRepo \/ AdvanceQueues \/ WatchTimerFires
      BY <2>6, WatcherType
    <2>7. CASE Restart
      <3>1. RunsTypeOK'
        BY <2>7 DEF Restart, TypeOK, RunsTypeOK
      <3>2. SchedulerTypeOK'
        BY <2>7, EmptyType DEF Restart, AwaitNext, TypeOK, SchedulerTypeOK, SchedPcs
      <3>3. WatcherTypeOK'
        BY <2>7 DEF Restart, WatcherBoots, WatcherTypeOK
      <3>4. QED
        BY <2>7, <3>1, <3>2, <3>3, EmptyType DEF Restart, TypeOK
    <2>8. ASSUME NEW r \in Reqs, ClusterStep(r)
          PROVE  TypeOK'
      <3>1. RunsTypeOK'
        BY <2>8 DEF ClusterStep, Complete, CancelOrTimeOut, TypeOK, RunsTypeOK, Phases
      <3>2. QED
        BY <2>8, <3>1 DEF ClusterStep, TypeOK, SchedulerTypeOK, WatcherTypeOK, RunsOf
    <2>9. CASE UNCHANGED vars
      BY <2>9 DEF TypeOK, RunsTypeOK, SchedulerTypeOK, WatcherTypeOK, RunsOf
    <2>10. QED
      BY <2>1, <2>2, <2>3, <2>4, <2>5, <2>6, <2>7, <2>8, <2>9 DEF Next, ManagerStep, Rest
  <1>3. QED
    BY <1>1, <1>2, PTL DEF Spec

=============================================================================
