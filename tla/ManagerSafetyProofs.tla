------------------------ MODULE ManagerSafetyProofs ------------------------
(***************************************************************************)
(* ManagerInv is an invariant of PipelineManager, whatever remote calls    *)
(* fail and however often the process restarts; what follows from it.      *)
(*                                                                         *)
(* The argument: given ManagerInv, each step is a step of RunQueue or      *)
(* leaves the runs alone (StepRefines).  That alone keeps the part of the  *)
(* invariant that speaks of the runs (RunQueueKeeps).  What the scheduler  *)
(* and the watcher have read is kept because only the scheduler creates    *)
(* runs, and never one that progresses beside a pending one.               *)
(***************************************************************************)
EXTENDS ManagerTypeProofs

USE RunsAssumption, SchedulerAssumption, WatcherAssumption, ManagerAssumption
USE DEF vars, runVars, schedVars, channels, resources, schedLocals, watchVars,
        receiverVars, bootVars

(***************************************************************************)
(* Runs                                                                    *)
(***************************************************************************)

(* RunQueue reads the runs as the manager does.                            *)
LEMMA SameView ==
  /\ \A q : RQ!Pending(q) = Pending(q) /\ RQ!Progressing(q) = Progressing(q)
  /\ \A q : RQ!OldestPending(q) = OldestPending(q)
  <1>1. \A q : RQ!Pending(q) = Pending(q)
    BY DEF Pending, RunsOf, RQ!Pending, RQ!RunsOf
  <1>2. \A q : RQ!Progressing(q) = Progressing(q)
    BY DEF Progressing, RunsOf, RQ!Progressing, RQ!RunsOf
  <1>3. \A q : RQ!OldestPending(q) = OldestPending(q)
    BY <1>1 DEF OldestPending, RQ!OldestPending
  <1>4. QED
    BY <1>1, <1>2, <1>3

(* A list shows what it showed before as long as no run changes.           *)
LEMMA SameList ==
  ASSUME UNCHANGED runVars
  PROVE  /\ \A q \in Repos : Pending(q)' = Pending(q)
         /\ \A q \in Repos : Progressing(q)' = Progressing(q)
         /\ \A q \in Repos : OldestPending(q)' = OldestPending(q)
  <1>1. \A q \in Repos : Pending(q)' = Pending(q)
    BY DEF Pending, RunsOf
  <1>2. \A q \in Repos : Progressing(q)' = Progressing(q)
    BY DEF Progressing, RunsOf
  <1>3. \A q \in Repos : OldestPending(q)' = OldestPending(q)
    BY <1>1 DEF OldestPending
  <1>4. QED
    BY <1>1, <1>2, <1>3

(***************************************************************************)
(* Refinement                                                              *)
(***************************************************************************)

(* The scheduler's create is an atomic submission: a run is created        *)
(* progressing only if the list that justified it still holds.             *)
LEMMA CreateRefines ==
  ASSUME TypeOK, ManagerInv, CreatePipelineRun
  PROVE  UNCHANGED runVars \/ (pData \in Reqs /\ RQ!Submit(pData))
  <1>1. pData \in Reqs /\ phase[pData] = "absent"
    BY DEF CreatePipelineRun, TypeOK, SchedulerTypeOK, ManagerInv, TriggeredOnce
  <1>2. CASE CreateRunAs(pData, IF needQueueing THEN "pending" ELSE "progressing")
    <2>1. CASE needQueueing
      BY <1>1, <1>2, <2>1 DEF RQ!Submit, RQ!CreateRunAs, CreateRunAs
    <2>2. CASE ~needQueueing
      <3>1. Pending(RepoOf[pData]) = {} /\ Progressing(RepoOf[pData]) = {}
        BY <2>2 DEF CreatePipelineRun, ManagerInv, EmptyListHolds, Repository
      <3>2. QED
        BY <1>1, <1>2, <2>2, <3>1, SameView DEF RQ!Submit, RQ!CreateRunAs, CreateRunAs
    <2>3. QED
      BY <2>1, <2>2
  <1>3. QED
    BY <1>1, <1>2 DEF CreatePipelineRun

(* The watcher's update starts the oldest pending run while none           *)
(* progresses, or is refused.                                              *)
LEMMA StartRefines ==
  ASSUME TypeOK, ManagerInv, StartOldest
  PROVE  UNCHANGED runVars \/ (oldestPR \in Reqs /\ RQ!Start(oldestPR))
  <1>1. oldestPR \in Reqs /\ RepoOf[oldestPR] = queue
    BY DEF StartOldest, TypeOK, WatcherTypeOK, RunsOf
  <1>2. CASE /\ phase[oldestPR] = "pending"
             /\ phase' = [phase EXCEPT ![oldestPR] = "progressing"]
    <2>1. Progressing(queue) = {} /\ oldestPR \in OldestPending(queue)
      BY <1>2 DEF StartOldest, ManagerInv, SnapshotHolds
    <2>2. QED
      BY <1>1, <1>2, <2>1, SameView DEF RQ!Start, StartOldest
  <1>3. QED
    BY <1>2 DEF StartOldest

(* Every step of the manager, of Tekton and of the users is a step of the  *)
(* run queue, or leaves the runs alone.                                    *)
LEMMA StepRefines ==
  ASSUME TypeOK, ManagerInv, [Next]_vars
  PROVE  [RQ!Next]_runVars
  <1>1. CASE CreatePipelineRun
    BY <1>1, CreateRefines DEF RQ!Next
  <1>2. CASE StartOldest
    BY <1>2, StartRefines DEF RQ!Next
  <1>3. ASSUME NEW r \in Reqs, Complete(r) \/ CancelOrTimeOut(r)
        PROVE  RQ!Next
    BY <1>3 DEF RQ!Next, RQ!Complete, RQ!CancelOrTimeOut, Complete, CancelOrTimeOut
  <1>4. CASE SchedulerStep /\ ~CreatePipelineRun
    BY <1>4 DEF SchedulerStep, ReceiveTrigger, GetPipeline, WritePipeline,
                CreatePVCIfRequired, ListRuns, SendPendingRepo
  <1>5. CASE AdvanceQueues /\ ~StartOldest
    BY <1>5 DEF AdvanceQueues, ReceiveTick, ListQueue
  <1>6. CASE ReceiveRepo \/ WatchTimerFires \/ GetRepoNames \/ Restart \/ UNCHANGED vars
    BY <1>6 DEF ReceiveRepo, WatchRepo, WatchTimerFires, TimerFires, GetRepoNames, Restart
  <1>7. CASE \E r \in Reqs : HandleWebhook(r) \/ SendTrigger(r)
    BY <1>7 DEF HandleWebhook, SendTrigger
  <1>8. CASE \E q \in Repos : SendBootRepo(q)
    BY <1>8 DEF SendBootRepo
  <1>9. QED
    BY <1>1, <1>2, <1>3, <1>4, <1>5, <1>6, <1>7, <1>8
       DEF Next, ManagerStep, Rest, ClusterStep

(* A run queue never has two runs of a repository progressing, and its     *)
(* timestamps are past.                                                    *)
LEMMA RunQueueKeeps ==
  ASSUME RunsTypeOK, AtMostOneProgressing, TimestampsPast, [RQ!Next]_runVars
  PROVE  AtMostOneProgressing' /\ TimestampsPast'
  <1> USE DEF AtMostOneProgressing, TimestampsPast, Progressing, Pending, RunsOf, RunsTypeOK
  <1>1. CASE UNCHANGED runVars
    BY <1>1
  <1>2. ASSUME NEW r \in Reqs, RQ!Submit(r)
        PROVE  AtMostOneProgressing' /\ TimestampsPast'
    <2>1. TimestampsPast'
      BY <1>2 DEF RQ!Submit, RQ!CreateRunAs
    <2>2. CASE RQ!CreateRunAs(r, "pending")
      BY <2>1, <2>2 DEF RQ!CreateRunAs
    <2>3. CASE Progressing(RepoOf[r]) = {} /\ RQ!CreateRunAs(r, "progressing")
      BY <2>1, <2>3 DEF RQ!CreateRunAs
    <2>4. QED
      BY <1>2, <2>2, <2>3, SameView DEF RQ!Submit
  <1>3. ASSUME NEW r \in Reqs, RQ!Start(r)
        PROVE  AtMostOneProgressing' /\ TimestampsPast'
    <2>1. Progressing(RepoOf[r]) = {}
      BY <1>3, SameView DEF RQ!Start
    <2>2. QED
      BY <1>3, <2>1 DEF RQ!Start
  <1>4. ASSUME NEW r \in Reqs, RQ!Complete(r) \/ RQ!CancelOrTimeOut(r)
        PROVE  AtMostOneProgressing' /\ TimestampsPast'
    BY <1>4 DEF RQ!Complete, RQ!CancelOrTimeOut
  <1>5. QED
    BY <1>1, <1>2, <1>3, <1>4 DEF RQ!Next

(***************************************************************************)
(* Triggers                                                                *)
(***************************************************************************)

(* Taking a trigger from the channel moves it into the scheduler's hands.  *)
LEMMA ReceiveTriggerKeeps ==
  ASSUME TypeOK, TriggeredOnce, ReceiveTrigger, UNCHANGED receiverVars
  PROVE  TriggeredOnce'
  <1> DEFINE t == triggeredPipelines
  <1>1. t \in Seq(Reqs) /\ t # <<>> /\ pData' = Head(t) /\ t' = Tail(t)
    BY DEF ReceiveTrigger, TypeOK, SchedulerTypeOK
  <1>2. pData' = t[1] /\ 1 \in 1..Len(t)
    BY <1>1
  <1>3. \A i \in 1..Len(t') : i + 1 \in 1..Len(t) /\ t'[i] = t[i + 1]
    BY <1>1
  <1>4. schedPc' = "getPipeline" /\ UNCHANGED <<hook, phase>>
    BY DEF ReceiveTrigger, GoTo
  <1>5. \A i, j \in 1..Len(t) : t[i] = t[j] => i = j
    BY DEF TriggeredOnce
  <1>6. \A i, j \in 1..Len(t') : t'[i] = t'[j] => i = j
    BY <1>3, <1>5
  <1>7. \A i \in 1..Len(t') : /\ hook'[t'[i]] = "accepted"
                              /\ phase'[t'[i]] = "absent"
                              /\ t'[i] # pData'
    BY <1>2, <1>3, <1>4, <1>5 DEF TriggeredOnce
  <1>8. hook'[pData'] = "accepted" /\ phase'[pData'] = "absent"
    BY <1>2, <1>4 DEF TriggeredOnce
  <1>9. QED
    BY <1>4, <1>6, <1>7, <1>8 DEF TriggeredOnce

(* A handler sends its trigger once.                                       *)
LEMMA SendTriggerKeeps ==
  ASSUME TypeOK, TriggeredOnce, NEW r \in Reqs, SendTrigger(r)
  PROVE  TriggeredOnce'
  <1> DEFINE t == triggeredPipelines
  <1>1. t \in Seq(Reqs) /\ t' = Append(t, r)
    BY DEF SendTrigger, TypeOK, SchedulerTypeOK
  <1>2. /\ Len(t') = Len(t) + 1
        /\ t'[Len(t) + 1] = r
        /\ \A i \in 1..Len(t) : t'[i] = t[i]
    BY <1>1
  <1>3. hook' = [hook EXCEPT ![r] = "accepted"] /\ hook \in [Reqs -> {"new", "sending", "accepted", "refused"}]
    BY DEF SendTrigger, TypeOK
  <1>4. hook[r] = "sending" /\ phase[r] = "absent" /\ pData # r /\ pData \in Reqs \cup {NoReq}
    BY DEF SendTrigger, TriggeredOnce, TypeOK, SchedulerTypeOK
  <1>5. UNCHANGED <<phase, pData, schedPc>>
    BY DEF SendTrigger
  <1>6. \A i \in 1..Len(t) : /\ t[i] \in Reqs
                             /\ hook[t[i]] = "accepted"
                             /\ phase[t[i]] = "absent"
                             /\ t[i] # pData
                             /\ t[i] # r
    BY <1>1, <1>4 DEF TriggeredOnce
  <1>7. \A i \in 1..Len(t') : /\ hook'[t'[i]] = "accepted"
                              /\ phase'[t'[i]] = "absent"
                              /\ t'[i] # pData'
    BY <1>1, <1>2, <1>3, <1>4, <1>5, <1>6
  <1>8. \A i, j \in 1..Len(t') : t'[i] = t'[j] => i = j
    BY <1>1, <1>2, <1>6 DEF TriggeredOnce
  <1>9. QED
    BY <1>3, <1>4, <1>5, <1>7, <1>8 DEF TriggeredOnce

(* The scheduler creates a run for the request in its hands, which is not  *)
(* in the channel any more.                                                *)
LEMMA SchedulerKeepsTriggers ==
  ASSUME TypeOK, TriggeredOnce, SchedulerStep
  PROVE  TriggeredOnce'
  <1>1. CASE ReceiveTrigger
    BY <1>1, ReceiveTriggerKeeps DEF SchedulerStep
  <1>2. CASE GetPipeline \/ SendPendingRepo
    BY <1>2 DEF SchedulerStep, GetPipeline, SendPendingRepo, AwaitNext, GoTo,
                TriggeredOnce, TypeOK, SchedulerTypeOK
  <1>3. CASE WritePipeline \/ CreatePVCIfRequired \/ ListRuns
    <2>1. /\ UNCHANGED <<triggeredPipelines, hook, phase>>
          /\ \/ pData' = NoReq /\ schedPc' = "receive"
             \/ /\ pData' = pData /\ schedPc \notin {"receive", "send"}
                /\ schedPc' \in {"pvc", "list", "create"}
      BY <1>3 DEF SchedulerStep, WritePipeline, CreatePVCIfRequired, ListRuns, LogAndReturn, Drop,
                  AwaitNext, GoTo
    <2>2. \A j \in 1..Len(triggeredPipelines) : triggeredPipelines[j] \in Reqs
      BY DEF TypeOK, SchedulerTypeOK
    <2>3. QED
      BY <2>1, <2>2 DEF TriggeredOnce
  <1>4. CASE CreatePipelineRun
    <2>1. /\ UNCHANGED <<triggeredPipelines, hook>>
          /\ \/ pData' = NoReq /\ schedPc' = "receive"
             \/ pData' = pData /\ schedPc' = "send"
             \/ pData' = NoReq /\ schedPc' = "receive"
      BY <1>4 DEF SchedulerStep, CreatePipelineRun, LogAndReturn, Drop, AwaitNext, GoTo
    <2>2. pData \in Reqs /\ hook[pData] = "accepted"
      BY <1>4 DEF CreatePipelineRun, TriggeredOnce, TypeOK, SchedulerTypeOK
    <2>3. \A r \in Reqs : r # pData => phase'[r] = phase[r]
      BY <1>4, <2>2 DEF CreatePipelineRun, CreateRunAs, TypeOK, RunsTypeOK
    <2>4. \A j \in 1..Len(triggeredPipelines) :
            triggeredPipelines[j] \in Reqs /\ triggeredPipelines[j] # pData
      BY DEF TypeOK, SchedulerTypeOK, TriggeredOnce
    <2>5. QED
      BY <2>1, <2>2, <2>3, <2>4 DEF TriggeredOnce
  <1>5. QED
    BY <1>1, <1>2, <1>3, <1>4 DEF SchedulerStep

(* Nobody else creates a run or touches the trigger channel, except that a *)
(* restart empties it.                                                     *)
LEMMA TriggeredOnceStep ==
  ASSUME TypeOK, TriggeredOnce, SnapshotHolds, [Next]_vars
  PROVE  TriggeredOnce'
  <1>1. CASE SchedulerStep
    BY <1>1, SchedulerKeepsTriggers
  <1>2. ASSUME NEW r \in Reqs, SendTrigger(r)
        PROVE  TriggeredOnce'
    BY <1>2, SendTriggerKeeps
  <1>3. CASE Restart
    BY <1>3 DEF Restart, AwaitNext, TriggeredOnce, TypeOK
  <1>4. CASE /\ UNCHANGED <<triggeredPipelines, pData, schedPc>>
             /\ \A r \in Reqs : hook'[r] = "accepted" <=> hook[r] = "accepted"
             /\ \A r \in Reqs : phase'[r] = "absent" <=> phase[r] = "absent"
    <2>1. \A j \in 1..Len(triggeredPipelines) : triggeredPipelines[j] \in Reqs
      BY DEF TypeOK, SchedulerTypeOK
    <2>2. QED
      BY <1>4, <2>1 DEF TriggeredOnce, TypeOK, SchedulerTypeOK
  <1>5. ASSUME NEW r \in Reqs, HandleWebhook(r)
        PROVE  TriggeredOnce'
    BY <1>4, <1>5 DEF HandleWebhook, TypeOK
  <1>6. CASE StartOldest /\ AdvanceQueues
    <2>1. oldestPR \in Reqs
      BY <1>6 DEF StartOldest, TypeOK, WatcherTypeOK, RunsOf
    <2>2. QED
      BY <1>4, <1>6, <2>1 DEF StartOldest, AdvanceQueues, SnapshotHolds, TypeOK, RunsTypeOK
  <1>7. CASE AdvanceQueues /\ ~StartOldest
    BY <1>4, <1>7 DEF AdvanceQueues, ReceiveTick, ListQueue
  <1>8. CASE ReceiveRepo \/ WatchTimerFires \/ GetRepoNames \/ UNCHANGED vars
    BY <1>4, <1>8 DEF ReceiveRepo, WatchRepo, WatchTimerFires, TimerFires, GetRepoNames
  <1>9. CASE \E q \in Repos : SendBootRepo(q)
    BY <1>4, <1>9 DEF SendBootRepo
  <1>10. ASSUME NEW r \in Reqs, ClusterStep(r)
         PROVE  TriggeredOnce'
    BY <1>4, <1>10 DEF ClusterStep, Complete, CancelOrTimeOut, TypeOK, RunsTypeOK
  <1>11. QED
    BY <1>1, <1>2, <1>3, <1>5, <1>6, <1>7, <1>8, <1>9, <1>10 DEF Next, ManagerStep, Rest

(***************************************************************************)
(* What has been read stays true                                           *)
(***************************************************************************)

(* Only the scheduler writes Pipelines, and nobody deletes a PVC.          *)
LEMMA ResourcesWrittenStep ==
  ASSUME TypeOK, ResourcesWritten, [Next]_vars
  PROVE  ResourcesWritten'
  <1> USE DEF ResourcesWritten, Repository
  <1>1. CASE ReceiveTrigger \/ GetPipeline \/ SendPendingRepo
    BY <1>1 DEF ReceiveTrigger, GetPipeline, SendPendingRepo, AwaitNext, GoTo
  <1>2. CASE WritePipeline
    BY <1>2 DEF WritePipeline, LogAndReturn, Drop, AwaitNext, GoTo, TypeOK, SchedulerTypeOK
  <1>3. CASE CreatePVCIfRequired
    BY <1>3 DEF CreatePVCIfRequired, LogAndReturn, Drop, AwaitNext, GoTo
  <1>4. CASE ListRuns
    BY <1>4 DEF ListRuns, LogAndReturn, Drop, AwaitNext, GoTo
  <1>5. CASE CreatePipelineRun
    BY <1>5 DEF CreatePipelineRun, LogAndReturn, Drop, AwaitNext, GoTo
  <1>6. CASE Restart
    BY <1>6 DEF Restart, AwaitNext
  <1>7. CASE UNCHANGED <<schedPc, pData, resources>>
    BY <1>7
  <1>8. QED
    BY <1>1, <1>2, <1>3, <1>4, <1>5, <1>6, <1>7
       DEF Next, ManagerStep, Rest, SchedulerStep, HandleWebhook, SendTrigger, GetRepoNames,
           SendBootRepo, ReceiveRepo, AdvanceQueues, WatchTimerFires, ClusterStep

(* Steps of the others end runs and start pending ones, so an empty list   *)
(* stays empty.                                                            *)
LEMMA OthersCreateNothing ==
  ASSUME TypeOK, SnapshotHolds, [Next]_vars, ~SchedulerStep
  PROVE  \A r \in Reqs : phase'[r] \in {"pending", "progressing"}
                           => phase[r] \in {"pending", "progressing"}
  <1>1. CASE StartOldest
    BY <1>1 DEF StartOldest, SnapshotHolds, TypeOK, RunsTypeOK, Phases, WatcherTypeOK, RunsOf
  <1>2. ASSUME NEW r \in Reqs, ClusterStep(r)
        PROVE  \A s \in Reqs : phase'[s] \in {"pending", "progressing"} => phase'[s] = phase[s]
    BY <1>2 DEF ClusterStep, Complete, CancelOrTimeOut, TypeOK, RunsTypeOK
  <1>3. CASE UNCHANGED phase
    BY <1>3
  <1>4. QED
    BY <1>1, <1>2, <1>3
       DEF Next, ManagerStep, Rest, HandleWebhook, SendTrigger, GetRepoNames, SendBootRepo,
           ReceiveRepo, WatchRepo, AdvanceQueues, ReceiveTick, ListQueue, WatchTimerFires,
           TimerFires, Restart

(* The scheduler relies on an empty list only until it creates the run.    *)
LEMMA EmptyListStep ==
  ASSUME TypeOK, EmptyListHolds, SnapshotHolds, [Next]_vars
  PROVE  EmptyListHolds'
  <1>1. CASE ListRuns
    <2>1. UNCHANGED runVars
      BY <1>1 DEF ListRuns
    <2>2. CASE /\ needQueueing' = NeedsQueueing(Repository)
               /\ UNCHANGED pData
      <3>1. Repository' = Repository /\ Repository \in Repos
        BY <1>1, <2>2 DEF Repository, ListRuns, TypeOK, SchedulerTypeOK
      <3>2. QED
        BY <2>1, <2>2, <3>1, SameList DEF EmptyListHolds, NeedsQueueing
    <2>3. QED
      BY <1>1, <2>2 DEF ListRuns, LogAndReturn, Drop, AwaitNext, EmptyListHolds
  <1>2. CASE SchedulerStep /\ ~ListRuns
    BY <1>2 DEF SchedulerStep, ReceiveTrigger, GetPipeline, WritePipeline, CreatePVCIfRequired,
                CreatePipelineRun, SendPendingRepo, LogAndReturn, Drop, AwaitNext, GoTo,
                EmptyListHolds
  <1>3. CASE ~SchedulerStep /\ UNCHANGED schedLocals
    BY <1>3, OthersCreateNothing DEF EmptyListHolds, Repository, Pending, Progressing, RunsOf
  <1>4. CASE Restart
    BY <1>4 DEF Restart, AwaitNext, EmptyListHolds
  <1>5. QED
    BY <1>1, <1>2, <1>3, <1>4
       DEF Next, ManagerStep, Rest, HandleWebhook, SendTrigger, GetRepoNames, SendBootRepo,
           ReceiveRepo, AdvanceQueues, WatchTimerFires, ClusterStep

(* While the watcher's update is under way, the run it starts stays the    *)
(* oldest pending one: a run created meanwhile is younger, and progresses  *)
(* only if none was pending.                                               *)
LEMMA SnapshotStep ==
  ASSUME TypeOK, TypeOK', ManagerInv, [Next]_vars
  PROVE  SnapshotHolds'
  <1>1. CASE SchedulerStep
    <2>1. UNCHANGED watchVars
      BY <1>1 DEF SchedulerStep
    <2>2. CASE UNCHANGED runVars
      <3>1. watchPc = "update" => queue \in Repos
        BY DEF TypeOK, WatcherTypeOK
      <3>2. QED
        BY <2>1, <2>2, <3>1, SameList DEF ManagerInv, SnapshotHolds
    <2>3. CASE pData \in Reqs /\ RQ!Submit(pData) /\ watchPc = "update"
      <3>1. oldestPR \in Reqs /\ RepoOf[oldestPR] = queue
        BY <2>3 DEF TypeOK, WatcherTypeOK, RunsOf
      <3>2. phase[oldestPR] # "absent" /\ phase[pData] = "absent"
        BY <2>3 DEF RQ!Submit, ManagerInv, SnapshotHolds
      <3>3. phase'[oldestPR] = phase[oldestPR] /\ created'[oldestPR] = created[oldestPR]
        BY <2>3, <3>1, <3>2 DEF RQ!Submit, RQ!CreateRunAs, TypeOK, RunsTypeOK
      <3>4. ASSUME phase[oldestPR] = "pending"
            PROVE  Progressing(queue)' = {} /\ (oldestPR \in OldestPending(queue))'
        <4>1. Progressing(queue) = {} /\ oldestPR \in OldestPending(queue)
          BY <2>3, <3>4 DEF ManagerInv, SnapshotHolds
        <4>2. RepoOf[pData] = queue => RQ!CreateRunAs(pData, "pending")
          BY <2>3, <4>1, SameView DEF RQ!Submit, OldestPending
        <4>3. \A s \in Reqs : s # pData =>
                phase'[s] = phase[s] /\ created'[s] = created[s] /\ created[s] <= created'[pData]
          BY <2>3 DEF RQ!Submit, RQ!CreateRunAs, ManagerInv, TimestampsPast, TypeOK, RunsTypeOK
        <4>4. RepoOf[pData] = queue => phase'[pData] = "pending"
          BY <2>3, <4>2 DEF RQ!CreateRunAs, TypeOK, RunsTypeOK
        <4>5. Progressing(queue)' = {}
          BY <2>1, <4>1, <4>3, <4>4 DEF Progressing, RunsOf
        <4>6. (oldestPR \in OldestPending(queue))'
          BY <2>1, <3>1, <3>2, <3>3, <3>4, <4>1, <4>3 DEF OldestPending, Pending, RunsOf
        <4>7. QED
          BY <4>5, <4>6
      <3>5. QED
        BY <2>1, <3>2, <3>3, <3>4 DEF SnapshotHolds
    <2>4. QED
      BY <1>1, <2>1, <2>2, <2>3, CreateRefines
         DEF SchedulerStep, ReceiveTrigger, GetPipeline, WritePipeline, CreatePVCIfRequired,
             ListRuns, SendPendingRepo, SnapshotHolds
  <1>2. CASE AdvanceQueues
    <2>1. ASSUME NEW q \in Repos, queue' = q, Progressing(q) = {},
                 oldestPR' \in OldestPending(q), UNCHANGED runVars
          PROVE  SnapshotHolds'
      BY <2>1, SameList DEF SnapshotHolds, OldestPending, Pending
    <2>2. QED
      BY <1>2, <2>1 DEF AdvanceQueues, ReceiveTick, ListQueue, StartOldest, QueueAdvanced,
                        SnapshotHolds
  <1>3. ASSUME NEW r \in Reqs, ClusterStep(r)
        PROVE  SnapshotHolds'
    <2>1. UNCHANGED watchVars /\ UNCHANGED created
      BY <1>3 DEF ClusterStep, Complete, CancelOrTimeOut
    <2>2. \A s \in Reqs : /\ phase'[s] \in {"pending", "progressing"} => phase'[s] = phase[s]
                          /\ phase'[s] = "absent" <=> phase[s] = "absent"
      BY <1>3 DEF ClusterStep, Complete, CancelOrTimeOut, TypeOK, RunsTypeOK
    <2>3. QED
      BY <2>1, <2>2 DEF ManagerInv, SnapshotHolds, Progressing, OldestPending, Pending, RunsOf,
                        TypeOK, WatcherTypeOK
  <1>4. CASE Restart \/ ReceiveRepo
    BY <1>4 DEF Restart, ReceiveRepo, WatcherBoots, WatchRepo, SnapshotHolds
  <1>5. CASE UNCHANGED <<runVars, watchPc, queue, oldestPR>>
    <2>1. watchPc = "update" => queue \in Repos
      BY DEF TypeOK, WatcherTypeOK
    <2>2. QED
      BY <1>5, <2>1, SameList DEF ManagerInv, SnapshotHolds
  <1>6. QED
    BY <1>1, <1>2, <1>3, <1>4, <1>5
       DEF Next, ManagerStep, Rest, HandleWebhook, SendTrigger, GetRepoNames, SendBootRepo,
           WatchTimerFires, TimerFires

(***************************************************************************)
(* Theorems                                                                *)
(***************************************************************************)

(* The manager starts with nothing read and nothing triggered.             *)
LEMMA ManagerInvInit ==
  ASSUME Init
  PROVE  ManagerInv
  <1> USE DEF Init, RunsInit, SchedulerInit, WatcherInit
  <1>1. AtMostOneProgressing /\ TimestampsPast
    BY DEF AtMostOneProgressing, TimestampsPast, Progressing, RunsOf
  <1>2. TriggeredOnce
    BY DEF TriggeredOnce
  <1>3. ResourcesWritten /\ EmptyListHolds /\ SnapshotHolds
    BY DEF ResourcesWritten, EmptyListHolds, SnapshotHolds
  <1>4. QED
    BY <1>1, <1>2, <1>3 DEF ManagerInv

LEMMA ManagerInvStep ==
  ASSUME TypeOK, TypeOK', ManagerInv, [Next]_vars
  PROVE  ManagerInv'
  <1>1. AtMostOneProgressing' /\ TimestampsPast'
    BY StepRefines, RunQueueKeeps DEF ManagerInv, TypeOK
  <1>2. TriggeredOnce'
    BY TriggeredOnceStep DEF ManagerInv
  <1>3. ResourcesWritten'
    BY ResourcesWrittenStep DEF ManagerInv
  <1>4. EmptyListHolds'
    BY EmptyListStep DEF ManagerInv
  <1>5. SnapshotHolds'
    BY SnapshotStep
  <1>6. QED
    BY <1>1, <1>2, <1>3, <1>4, <1>5 DEF ManagerInv

(* Whatever calls fail and however often the process restarts, what the    *)
(* scheduler and the watcher have read stays true while they rely on it.   *)
THEOREM ManagerInvariant == Spec => []ManagerInv
  <1>1. Init => ManagerInv
    BY ManagerInvInit
  <1>2. TypeOK /\ TypeOK' /\ ManagerInv /\ [Next]_vars => ManagerInv'
    BY ManagerInvStep
  <1>3. QED
    BY <1>1, <1>2, TypeCorrect, PTL DEF Spec

(* No two runs of a repository progress at the same time: the list and the *)
(* write of the scheduler and those of the watcher may interleave freely.  *)
THEOREM NoConcurrentRuns == Spec => []AtMostOneProgressing
  <1>1. ManagerInv => AtMostOneProgressing
    BY DEF ManagerInv
  <1>2. QED
    BY <1>1, ManagerInvariant, PTL

(* The manager, with its goroutines, channels, failing calls and restarts, *)
(* implements the atomic run queue.                                        *)
THEOREM Refinement == Spec => ImplementsRunQueue
  <1>1. Init => RQ!RunsInit
    BY DEF Init, RunsInit, RQ!RunsInit
  <1>2. TypeOK /\ ManagerInv /\ [Next]_vars => [RQ!Next]_(RQ!runVars)
    BY StepRefines DEF RQ!runVars
  <1>3. QED
    BY <1>1, <1>2, TypeCorrect, ManagerInvariant, PTL DEF Spec, ImplementsRunQueue, RQ!Spec

(* Runs start in the order in which they were created.                     *)
THEOREM OrderOfStarts == Spec => StartsInOrder
  <1> DEFINE InOrder ==
        \A r \in Reqs : phase[r] # "progressing" /\ phase'[r] = "progressing" =>
          \A s \in Pending(RepoOf[r]) : phase[r] = "pending" /\ created[r] <= created[s]
  <1>1. TypeOK /\ ManagerInv /\ [Next]_vars => [InOrder]_vars
    <2> SUFFICES ASSUME TypeOK, ManagerInv, [Next]_vars
                 PROVE  InOrder
      OBVIOUS
    <2>1. CASE UNCHANGED runVars
      BY <2>1
    <2>2. ASSUME NEW r \in Reqs, RQ!Submit(r)
          PROVE  InOrder
      BY <2>2, SameView DEF RQ!Submit, RQ!CreateRunAs, TypeOK, RunsTypeOK
    <2>3. ASSUME NEW r \in Reqs, RQ!Start(r)
          PROVE  InOrder
      <3>1. r \in OldestPending(RepoOf[r]) /\ phase' = [phase EXCEPT ![r] = "progressing"]
        BY <2>3, SameView DEF RQ!Start
      <3>2. QED
        BY <3>1 DEF OldestPending, Pending, TypeOK, RunsTypeOK
    <2>4. ASSUME NEW r \in Reqs, RQ!Complete(r) \/ RQ!CancelOrTimeOut(r)
          PROVE  InOrder
      BY <2>4 DEF RQ!Complete, RQ!CancelOrTimeOut, TypeOK, RunsTypeOK
    <2>5. QED
      BY <2>1, <2>2, <2>3, <2>4, StepRefines DEF RQ!Next
  <1>2. QED
    BY <1>1, TypeCorrect, ManagerInvariant, PTL DEF Spec, StartsInOrder

(* A run is created only for a Pipeline that was written for its request.  *)
THEOREM DefinitionOfRuns == Spec => CreatedFromOwnDefinition
  <1> DEFINE FromOwn ==
        \A r \in Reqs : phase[r] = "absent" /\ phase'[r] # "absent" =>
          pipelineDef[PipelineOf[r]] = r /\ RepoOf[r] \in pvcs
  <1>1. TypeOK /\ ManagerInv /\ [Next]_vars => [FromOwn]_vars
    <2> SUFFICES ASSUME TypeOK, ManagerInv, [Next]_vars
                 PROVE  FromOwn
      OBVIOUS
    <2>1. CASE CreatePipelineRun
      <3>1. pData \in Reqs /\ pipelineDef[PipelineOf[pData]] = pData /\ RepoOf[pData] \in pvcs
        BY <2>1 DEF CreatePipelineRun, ManagerInv, ResourcesWritten, Repository, TypeOK,
                    SchedulerTypeOK
      <3>2. \A r \in Reqs : r # pData => phase'[r] = phase[r]
        BY <2>1, <3>1 DEF CreatePipelineRun, CreateRunAs, TypeOK, RunsTypeOK
      <3>3. QED
        BY <3>1, <3>2
    <2>2. CASE ~CreatePipelineRun
      <3>1. CASE StartOldest
        BY <3>1 DEF StartOldest, TypeOK, RunsTypeOK
      <3>2. ASSUME NEW r \in Reqs, ClusterStep(r)
            PROVE  FromOwn
        BY <3>2 DEF ClusterStep, Complete, CancelOrTimeOut, TypeOK, RunsTypeOK
      <3>3. CASE UNCHANGED phase
        BY <3>3
      <3>4. QED
        BY <2>2, <3>1, <3>2, <3>3
           DEF Next, ManagerStep, Rest, HandleWebhook, SendTrigger, GetRepoNames, SendBootRepo,
               SchedulerStep, ReceiveTrigger, GetPipeline, WritePipeline, CreatePVCIfRequired,
               ListRuns, SendPendingRepo, ReceiveRepo, WatchRepo, AdvanceQueues, ReceiveTick,
               ListQueue, WatchTimerFires, TimerFires, Restart
    <2>3. QED
      BY <2>1, <2>2
  <1>2. QED
    BY <1>1, TypeCorrect, ManagerInvariant, PTL DEF Spec, CreatedFromOwnDefinition

(***************************************************************************)
(* The definition of a pending run                                         *)
(***************************************************************************)

(* Of the steps that write no Pipeline and create no run, none makes a run *)
(* pending or removes one.                                                 *)
LEMMA OthersKeepDefinitions ==
  ASSUME TypeOK, ManagerInv, [Next]_vars, ~WritePipeline, ~CreatePipelineRun
  PROVE  /\ UNCHANGED <<pipelineDef, created>>
         /\ \A r \in Reqs : /\ phase'[r] = "pending" => phase[r] = "pending"
                            /\ phase[r] = "absent" => phase'[r] = "absent"
  <1>1. CASE StartOldest /\ UNCHANGED schedVars
    BY <1>1 DEF StartOldest, TypeOK, RunsTypeOK, Phases
  <1>2. ASSUME NEW r \in Reqs, ClusterStep(r)
        PROVE  /\ UNCHANGED <<pipelineDef, created>>
               /\ \A s \in Reqs : /\ phase'[s] = "pending" => phase[s] = "pending"
                                  /\ phase[s] = "absent" => phase'[s] = "absent"
    BY <1>2 DEF ClusterStep, Complete, CancelOrTimeOut, TypeOK, RunsTypeOK
  <1>3. CASE UNCHANGED <<pipelineDef, created, phase>>
    BY <1>3
  <1>4. QED
    BY <1>1, <1>2, <1>3
       DEF Next, ManagerStep, Rest, HandleWebhook, SendTrigger, GetRepoNames, SendBootRepo,
           SchedulerStep, ReceiveTrigger, GetPipeline, CreatePVCIfRequired, ListRuns,
           SendPendingRepo, LogAndReturn, Drop, ReceiveRepo, WatchRepo, AdvanceQueues, ReceiveTick,
           ListQueue, WatchTimerFires, TimerFires, Restart

LEMMA DefinitionStep ==
  ASSUME TypeOK, ManagerInv, DefinitionNotOlder, [Next]_vars
  PROVE  DefinitionNotOlder'
  <1> DEFINE NotOlder(r, d) == /\ d \in Reqs /\ PipelineOf[d] = PipelineOf[r]
                               /\ d = r \/ phase[d] = "absent" \/ created[d] >= created[r]
  <1>1. \A r \in Reqs : phase[r] = "pending" => NotOlder(r, pipelineDef[PipelineOf[r]])
    BY DEF DefinitionNotOlder
  <1>2. CASE WritePipeline
    <2>1. UNCHANGED runVars
      BY <1>2 DEF WritePipeline
    <2>2. CASE pipelineDef' = [pipelineDef EXCEPT ![PipelineOf[pData]] = pData]
      <3>1. pData \in Reqs /\ phase[pData] = "absent"
        BY <1>2 DEF WritePipeline, ManagerInv, TriggeredOnce, TypeOK, SchedulerTypeOK
      <3>2. \A r \in Reqs : pipelineDef'[PipelineOf[r]] =
              IF PipelineOf[r] = PipelineOf[pData] THEN pData ELSE pipelineDef[PipelineOf[r]]
        BY <2>2, <3>1 DEF TypeOK, SchedulerTypeOK
      <3>3. QED
        BY <2>1, <3>1, <3>2 DEF DefinitionNotOlder
    <2>3. CASE UNCHANGED pipelineDef
      BY <2>1, <2>3 DEF DefinitionNotOlder
    <2>4. QED
      BY <1>2, <2>2, <2>3 DEF WritePipeline, LogAndReturn, Drop
  <1>3. CASE CreatePipelineRun
    <2>1. /\ UNCHANGED pipelineDef
          /\ UNCHANGED runVars \/ \E ph \in {"pending", "progressing"} : CreateRunAs(pData, ph)
      BY <1>3 DEF CreatePipelineRun, LogAndReturn, Drop
    <2>2. CASE UNCHANGED runVars
      BY <2>1, <2>2 DEF DefinitionNotOlder
    <2>3. CASE ~UNCHANGED runVars
      <3>1. PICK t \in {clock, clock + 1}, ph \in {"pending", "progressing"} :
              /\ created' = [created EXCEPT ![pData] = t]
              /\ phase' = [phase EXCEPT ![pData] = ph]
        BY <2>1, <2>3 DEF CreateRunAs
      <3>2. pData \in Reqs /\ pipelineDef[PipelineOf[pData]] = pData
        BY <1>3 DEF CreatePipelineRun, ManagerInv, ResourcesWritten, TypeOK, SchedulerTypeOK
      <3>3. created'[pData] = t /\ t \in Nat /\ t >= clock
        BY <3>1, <3>2 DEF TypeOK, RunsTypeOK
      <3>4. \A r \in Reqs : created[r] \in Nat /\ created[r] <= t
        BY <3>3 DEF ManagerInv, TimestampsPast, TypeOK, RunsTypeOK
      <3>5. \A r \in Reqs : r # pData => phase'[r] = phase[r] /\ created'[r] = created[r]
        BY <3>1, <3>2 DEF TypeOK, RunsTypeOK
      <3>6. ASSUME NEW r \in Reqs, phase'[r] = "pending"
            PROVE  NotOlder(r, pipelineDef[PipelineOf[r]])'
        <4>1. CASE r = pData
          BY <2>1, <3>2, <4>1
        <4>2. CASE r # pData
          BY <1>1, <2>1, <3>2, <3>3, <3>4, <3>5, <3>6, <4>2
        <4>3. QED
          BY <4>1, <4>2
      <3>7. QED
        BY <3>6 DEF DefinitionNotOlder
    <2>4. QED
      BY <2>2, <2>3
  <1>4. CASE ~WritePipeline /\ ~CreatePipelineRun
    BY <1>4, OthersKeepDefinitions DEF DefinitionNotOlder
  <1>5. QED
    BY <1>2, <1>3, <1>4

(* What a pending run will execute was written for its own request, or for *)
(* one of the same branch whose run is not older.                          *)
THEOREM DefinitionOfPending == Spec => []DefinitionNotOlder
  <1>1. Init => DefinitionNotOlder
    BY DEF Init, RunsInit, DefinitionNotOlder
  <1>2. TypeOK /\ ManagerInv /\ DefinitionNotOlder /\ [Next]_vars => DefinitionNotOlder'
    BY DefinitionStep
  <1>3. QED
    BY <1>1, <1>2, TypeCorrect, ManagerInvariant, PTL DEF Spec

=============================================================================
