----------------------- MODULE ManagerRecoveryProofs -----------------------
(***************************************************************************)
(* Nothing is forgotten by PipelineManager: neither an accepted trigger,   *)
(* whatever fails, nor a pending run, as long as the calls that would let  *)
(* the watcher learn of it do not fail.                                    *)
(***************************************************************************)
EXTENDS ManagerTypeProofs

USE RunsAssumption, SchedulerAssumption, WatcherAssumption, ManagerAssumption
USE DEF vars, runVars, schedVars, channels, resources, schedLocals, watchVars,
        receiverVars, bootVars

(***************************************************************************)
(* Triggers                                                                *)
(***************************************************************************)

(* Between two triggers the scheduler holds none, and the trigger whose    *)
(* repository it announces has its run.                                    *)
TriggerInv ==
  /\ TriggerAccountedFor
  /\ schedPc = "receive" => pData = NoReq
  /\ schedPc = "send" => phase[pData] # "absent"

InChannel(r) == \E i \in 1..Len(triggeredPipelines) : triggeredPipelines[i] = r

(* A run never disappears.                                                 *)
LEMMA RunsStay ==
  ASSUME TypeOK, [Next]_vars
  PROVE  \A r \in Reqs : phase[r] # "absent" => phase'[r] # "absent"
  <1>1. CASE CreatePipelineRun
    <2>1. pData \in Reqs
      BY <1>1 DEF CreatePipelineRun, TypeOK, SchedulerTypeOK
    <2>2. QED
      BY <1>1, <2>1 DEF CreatePipelineRun, CreateRunAs, TypeOK, RunsTypeOK
  <1>2. CASE StartOldest
    BY <1>2 DEF StartOldest, TypeOK, RunsTypeOK
  <1>3. ASSUME NEW r \in Reqs, ClusterStep(r)
        PROVE  \A s \in Reqs : phase[s] # "absent" => phase'[s] # "absent"
    BY <1>3 DEF ClusterStep, Complete, CancelOrTimeOut, TypeOK, RunsTypeOK
  <1>4. CASE UNCHANGED phase
    BY <1>4
  <1>5. QED
    BY <1>1, <1>2, <1>3, <1>4
       DEF Next, ManagerStep, Rest, HandleWebhook, SendTrigger, GetRepoNames, SendBootRepo,
           SchedulerStep, ReceiveTrigger, GetPipeline, WritePipeline, CreatePVCIfRequired,
           ListRuns, SendPendingRepo, ReceiveRepo, WatchRepo, AdvanceQueues, ReceiveTick,
           ListQueue, WatchTimerFires, TimerFires, Restart

(* The scheduler lets go of a trigger only when it has become a run or is  *)
(* dropped.                                                                *)
LEMMA SchedulerAccounts ==
  ASSUME TypeOK, TriggerInv, SchedulerStep
  PROVE  TriggerInv'
  <1>0. /\ \A r \in Reqs : phase[r] # "absent" => phase'[r] # "absent"
        /\ hook' = hook
    BY RunsStay DEF SchedulerStep, Next, ManagerStep
  <1>1. CASE ReceiveTrigger
    <2> DEFINE t == triggeredPipelines
    <2>1. t \in Seq(Reqs) /\ t # <<>> /\ pData' = Head(t) /\ t' = Tail(t) /\ pData = NoReq
      BY <1>1 DEF ReceiveTrigger, TypeOK, SchedulerTypeOK, TriggerInv
    <2>2. ASSUME NEW r \in Reqs, InChannel(r)
          PROVE  pData' = r \/ InChannel(r)'
      <3>1. PICK i \in 1..Len(t) : t[i] = r
        BY <2>2 DEF InChannel
      <3>2. CASE i = 1
        BY <2>1, <3>1, <3>2
      <3>3. CASE i # 1
        <4>1. i - 1 \in 1..Len(t') /\ t'[i - 1] = r
          BY <2>1, <3>1, <3>3
        <4>2. QED
          BY <4>1 DEF InChannel
      <3>4. QED
        BY <3>2, <3>3
    <2>3. schedPc' = "getPipeline" /\ UNCHANGED <<phase, dropped>>
      BY <1>1 DEF ReceiveTrigger, GoTo
    <2>4. QED
      BY <1>0, <2>1, <2>2, <2>3 DEF TriggerInv, TriggerAccountedFor, InChannel
  <1>2. CASE GetPipeline \/ WritePipeline \/ CreatePVCIfRequired \/ ListRuns
    <2>1. /\ UNCHANGED <<triggeredPipelines, phase>>
          /\ schedPc' # "send"
          /\ \/ UNCHANGED <<pData, dropped>> /\ schedPc' # "receive"
             \/ /\ pData' = NoReq
                /\ dropped' = dropped \cup (IF phase'[pData] = "absent" THEN {pData} ELSE {})
      BY <1>2 DEF GetPipeline, WritePipeline, CreatePVCIfRequired, ListRuns, LogAndReturn, Drop,
                  AwaitNext, GoTo
    <2>2. QED
      BY <1>0, <2>1 DEF TriggerInv, TriggerAccountedFor
  <1>3. CASE CreatePipelineRun
    <2>1. pData \in Reqs
      BY <1>3 DEF CreatePipelineRun, TypeOK, SchedulerTypeOK
    <2>2. /\ UNCHANGED triggeredPipelines
          /\ \/ phase'[pData] # "absent" /\ dropped' = dropped
             \/ dropped' = dropped \cup (IF phase'[pData] = "absent" THEN {pData} ELSE {})
          /\ \/ pData' = NoReq /\ schedPc' = "receive"
             \/ pData' = pData /\ schedPc' = "send" /\ phase'[pData] # "absent"
      BY <1>3, <2>1 DEF CreatePipelineRun, CreateRunAs, LogAndReturn, Drop, AwaitNext, GoTo, TypeOK,
                        RunsTypeOK
    <2>3. QED
      BY <1>0, <2>1, <2>2 DEF TriggerInv, TriggerAccountedFor
  <1>4. CASE SendPendingRepo
    BY <1>0, <1>4 DEF SendPendingRepo, AwaitNext, TriggerInv, TriggerAccountedFor
  <1>5. QED
    BY <1>1, <1>2, <1>3, <1>4 DEF SchedulerStep

LEMMA TriggerInvariant == Spec => []TriggerInv
  <1>1. Init => TriggerInv
    BY DEF Init, RunsInit, SchedulerInit, TriggerInv, TriggerAccountedFor
  <1>2. TypeOK /\ TriggerInv /\ [Next]_vars => TriggerInv'
    <2> SUFFICES ASSUME TypeOK, TriggerInv, [Next]_vars
                 PROVE  TriggerInv'
      OBVIOUS
    <2>0. \A r \in Reqs : phase[r] # "absent" => phase'[r] # "absent"
      BY RunsStay
    <2>1. CASE SchedulerStep
      BY <2>1, SchedulerAccounts
    <2>2. ASSUME NEW r \in Reqs, SendTrigger(r)
          PROVE  TriggerInv'
      <3> DEFINE t == triggeredPipelines
      <3>1. t \in Seq(Reqs) /\ t' = Append(t, r)
        BY <2>2 DEF SendTrigger, TypeOK, SchedulerTypeOK
      <3>2. /\ Len(t) + 1 \in 1..Len(t') /\ t'[Len(t) + 1] = r
            /\ \A i \in 1..Len(t) : i \in 1..Len(t') /\ t'[i] = t[i]
        BY <3>1
      <3>3. \A s \in Reqs : s = r \/ InChannel(s) => InChannel(s)'
        BY <3>2 DEF InChannel
      <3>4. \A s \in Reqs : hook'[s] = "accepted" => s = r \/ hook[s] = "accepted"
        BY <2>2 DEF SendTrigger, TypeOK
      <3>5. QED
        BY <2>2, <3>3, <3>4 DEF SendTrigger, TriggerInv, TriggerAccountedFor, InChannel
    <2>3. CASE Restart
      BY <2>3 DEF Restart, AwaitNext, TriggerInv, TriggerAccountedFor, TypeOK
    <2>4. CASE /\ UNCHANGED <<triggeredPipelines, pData, schedPc, dropped>>
               /\ \A r \in Reqs : hook'[r] = "accepted" => hook[r] = "accepted"
      BY <2>0, <2>4 DEF TriggerInv, TriggerAccountedFor, TypeOK, SchedulerTypeOK
    <2>5. ASSUME NEW r \in Reqs, HandleWebhook(r)
          PROVE  TriggerInv'
      BY <2>4, <2>5 DEF HandleWebhook, TypeOK
    <2>6. QED
      BY <2>1, <2>2, <2>3, <2>4, <2>5
         DEF Next, ManagerStep, Rest, GetRepoNames, SendBootRepo, ReceiveRepo, AdvanceQueues,
             WatchTimerFires, ClusterStep
  <1>3. QED
    BY <1>1, <1>2, TypeCorrect, PTL DEF Spec

(* An accepted trigger is in the channel, in the scheduler's hands, a run, *)
(* or dropped by an API error or a restart.                                *)
THEOREM TriggersAccounted == Spec => []TriggerAccountedFor
  <1>1. TriggerInv => TriggerAccountedFor
    BY DEF TriggerInv
  <1>2. QED
    BY <1>1, TriggerInvariant, PTL

(***************************************************************************)
(* The handlers of the manager, with the restarts that cut them off, are   *)
(* those of TriggerIntake, which Receiver implements call by call.         *)
(***************************************************************************)
Intake == INSTANCE TriggerIntake WITH Requests <- Reqs, Capacity <- ChannelBufferSize,
                                      request <- hook, channel <- triggeredPipelines

(* For the receiver the scheduler does nothing but take triggers, one at a *)
(* time, and a restart is all that loses any.                              *)
THEOREM ManagerTakesIn == Spec => Intake!Spec
  <1>1. Init => Intake!Init
    BY DEF Init, SchedulerInit, Intake!Init
  <1>2. [Next]_vars => [Intake!Next]_(Intake!intakeVars)
    <2> SUFFICES ASSUME [Next]_vars
                 PROVE  [Intake!Next]_(Intake!intakeVars)
      OBVIOUS
    <2> USE DEF Intake!Next, Intake!intakeVars
    <2>1. ASSUME NEW r \in Reqs, HandleWebhook(r) \/ SendTrigger(r)
          PROVE  Intake!Next
      BY <2>1 DEF HandleWebhook, SendTrigger, HasRoom, Intake!Answer, Intake!Accept
    <2>2. CASE SchedulerStep /\ ReceiveTrigger
      BY <2>2 DEF SchedulerStep, ReceiveTrigger, Intake!Take
    <2>3. CASE Restart
      <3>1. /\ triggeredPipelines' = <<>>
            /\ hook' = [r \in Reqs |-> IF hook[r] = "sending" \/ r \in {}
                                       THEN "refused" ELSE hook[r]]
        BY <2>3 DEF Restart
      <3>2. {} \in SUBSET {r \in Reqs : hook[r] = "new"}
        OBVIOUS
      <3>3. Intake!Lose
        BY <3>1, <3>2 DEF Intake!Lose
      <3>4. QED
        BY <3>3
    <2>4. CASE SchedulerStep /\ ~ReceiveTrigger
      BY <2>4 DEF SchedulerStep, GetPipeline, WritePipeline, CreatePVCIfRequired, ListRuns,
                  CreatePipelineRun, SendPendingRepo, LogAndReturn, Drop
    <2>5. CASE UNCHANGED <<hook, triggeredPipelines>>
      BY <2>5
    <2>6. QED
      BY <2>1, <2>2, <2>3, <2>4, <2>5
         DEF Next, ManagerStep, Rest, GetRepoNames, SendBootRepo, ReceiveRepo, AdvanceQueues,
             WatchTimerFires, ClusterStep
  <1>3. QED
    BY <1>1, <1>2, PTL DEF Spec, Intake!Spec

(***************************************************************************)
(* Pending runs                                                            *)
(***************************************************************************)

(* The repository is on its way to the watcher.                            *)
Announced(q) ==
  \/ \E i \in 1..Len(pendingRunRepos) : pendingRunRepos[i] = q
  \/ schedPc = "send" /\ Repository = q
  \/ bootScan /\ q \in Listed
  \/ q \in bootTodo

(* What the proof assumes of the calls: those by which the watcher learns  *)
(* of pending runs do not fail.                                            *)
WatcherLearns ==
  Faults \cap {"createReply", "repoList", "listQueue", "startOldest"} = {}

(* The process has not forgotten q by a restart, or the boot scan makes up *)
(* for it.                                                                 *)
Reached(q) == q \in Listed \/ restarts = 0

(* A pending run of a repository that is reached will be looked at.        *)
ReachedNotForgotten ==
  \A r \in Reqs : phase[r] = "pending" /\ Reached(RepoOf[r]) =>
    Polled(RepoOf[r]) \/ Announced(RepoOf[r])

(* The boot scan sends what is listed.  If the watcher has seen no other   *)
(* pending run than the one it starts, a pending run of that repository is *)
(* one that is being announced.                                            *)
PendingInv ==
  /\ ReachedNotForgotten
  /\ bootTodo \subseteq Listed
  /\ watchPc = "update" /\ ~more =>
       \A r \in Pending(queue) : r = oldestPR \/ Announced(queue)

(* What is announced stays so until the watcher receives it.               *)
LEMMA AnnouncedStays ==
  ASSUME WatcherLearns, TypeOK, [Next]_vars, ~ReceiveRepo, ~Restart,
         bootTodo \subseteq Listed, NEW q \in Repos, Announced(q)
  PROVE  Announced(q)'
  <1> DEFINE t == pendingRunRepos
  <1>1. t \in Seq(Repos)
    BY DEF TypeOK, SchedulerTypeOK
  <1>2. CASE SendPendingRepo /\ SchedulerStep
    <2>1. t' = Append(t, Repository) /\ Repository \in Repos
      BY <1>2 DEF SendPendingRepo, Repository, TypeOK, SchedulerTypeOK
    <2>2. /\ Len(t) + 1 \in 1..Len(t') /\ t'[Len(t) + 1] = Repository
          /\ \A i \in 1..Len(t) : i \in 1..Len(t') /\ t'[i] = t[i]
      BY <1>1, <2>1
    <2>3. QED
      BY <1>2, <2>2 DEF SchedulerStep, Announced
  <1>3. ASSUME NEW p \in Repos, SendBootRepo(p)
        PROVE  Announced(q)'
    <2>1. t' = Append(t, p)
      BY <1>3 DEF SendBootRepo
    <2>2. /\ Len(t) + 1 \in 1..Len(t') /\ t'[Len(t) + 1] = p
          /\ \A i \in 1..Len(t) : i \in 1..Len(t') /\ t'[i] = t[i]
      BY <1>1, <2>1
    <2>3. QED
      BY <1>3, <2>2 DEF SendBootRepo, Announced, Repository
  <1>4. CASE GetRepoNames
    BY <1>4 DEF GetRepoNames, WatcherLearns, Announced, Repository
  <1>5. CASE SchedulerStep /\ ~SendPendingRepo
    BY <1>5 DEF SchedulerStep, ReceiveTrigger, GetPipeline, WritePipeline, CreatePVCIfRequired,
                ListRuns, CreatePipelineRun, LogAndReturn, Drop, AwaitNext, Announced
  <1>6. CASE UNCHANGED <<pendingRunRepos, schedPc, pData, bootScan, bootTodo>>
    BY <1>6 DEF Announced, Repository
  <1>7. QED
    BY <1>2, <1>3, <1>4, <1>5, <1>6
       DEF Next, ManagerStep, Rest, SchedulerStep, HandleWebhook, SendTrigger, AdvanceQueues,
           WatchTimerFires, ClusterStep

(* A run that is pending now was pending before, or the scheduler has just *)
(* created it and is about to announce it.                                 *)
LEMMA NewPendingAnnounced ==
  ASSUME WatcherLearns, TypeOK, [Next]_vars, NEW r \in Reqs, phase'[r] = "pending"
  PROVE  phase[r] = "pending" \/ Announced(RepoOf[r])'
  <1>1. CASE CreatePipelineRun
    <2>1. pData \in Reqs
      BY <1>1 DEF CreatePipelineRun, TypeOK, SchedulerTypeOK
    <2>2. CASE r = pData
      BY <1>1, <2>1, <2>2
         DEF CreatePipelineRun, CreateRunAs, LogAndReturn, Drop, GoTo, WatcherLearns, Announced,
             Repository, TypeOK, RunsTypeOK
    <2>3. CASE r # pData
      BY <1>1, <2>1, <2>3 DEF CreatePipelineRun, CreateRunAs, TypeOK, RunsTypeOK
    <2>4. QED
      BY <2>2, <2>3
  <1>2. CASE StartOldest
    BY <1>2 DEF StartOldest, TypeOK, RunsTypeOK
  <1>3. ASSUME NEW s \in Reqs, ClusterStep(s)
        PROVE  phase[r] = "pending"
    BY <1>3 DEF ClusterStep, Complete, CancelOrTimeOut, TypeOK, RunsTypeOK
  <1>4. CASE UNCHANGED phase
    BY <1>4
  <1>5. QED
    BY <1>1, <1>2, <1>3, <1>4
       DEF Next, ManagerStep, Rest, HandleWebhook, SendTrigger, GetRepoNames, SendBootRepo,
           SchedulerStep, ReceiveTrigger, GetPipeline, WritePipeline, CreatePVCIfRequired,
           ListRuns, SendPendingRepo, ReceiveRepo, WatchRepo, AdvanceQueues, ReceiveTick,
           ListQueue, WatchTimerFires, TimerFires, Restart

(* The watcher takes a repository off the channel by polling it.           *)
LEMMA ReceiveRepoPolls ==
  ASSUME TypeOK, ReceiveRepo, NEW q \in Repos, Polled(q) \/ Announced(q)
  PROVE  Polled(q)' \/ Announced(q)'
  <1> DEFINE t == pendingRunRepos
             p == Head(t)
  <1>1. t \in Seq(Repos) /\ t # <<>> /\ t' = Tail(t) /\ p \in Repos
    BY DEF ReceiveRepo, TypeOK, SchedulerTypeOK
  <1>2. /\ watchPc = "select" /\ watchPc' = "select"
        /\ queues' = [queues EXCEPT ![p] = TRUE]
        /\ UNCHANGED <<schedPc, pData, bootScan, bootTodo>>
        /\ RearmTimer
    BY DEF ReceiveRepo, WatchRepo
  <1>3. queues \in [Repos -> BOOLEAN]
    BY DEF TypeOK, WatcherTypeOK
  <1>4. queues'[p] /\ (queues[q] => queues'[q])
    BY <1>1, <1>2, <1>3
  <1>5. timer' = "armed"
    BY <1>1, <1>2, <1>4 DEF RearmTimer, Active
  <1>6. CASE queues[q] \/ q = p
    BY <1>4, <1>5, <1>6 DEF Polled
  <1>7. CASE \E i \in 1..Len(t) : t[i] = q /\ i # 1
    <2>1. PICK i \in 1..Len(t) : t[i] = q /\ i # 1
      BY <1>7
    <2>2. i - 1 \in 1..Len(t') /\ t'[i - 1] = q
      BY <1>1, <2>1
    <2>3. QED
      BY <2>2 DEF Announced
  <1>8. CASE (schedPc = "send" /\ Repository = q) \/ (bootScan /\ q \in Listed) \/ q \in bootTodo
    BY <1>2, <1>8 DEF Announced, Repository
  <1>9. QED
    BY <1>1, <1>6, <1>7, <1>8 DEF Announced, Polled

(* When the advance of p is over, every other queue is polled as before,   *)
(* and p is if runs remain.                                                *)
LEMMA QueueAdvancedPolls ==
  ASSUME TypeOK, NEW p \in Repos, NEW remaining \in BOOLEAN, QueueAdvanced(p, remaining),
         watchPc # "select", NEW q \in Repos,
         IF q = p THEN remaining ELSE Polled(q)
  PROVE  Polled(q)'
  <1>1. queues'[q]
    BY DEF QueueAdvanced, Polled, TypeOK, WatcherTypeOK
  <1>2. CASE watchPc' = "select"
    <2>1. timer' = "armed"
      BY <1>1, <1>2 DEF QueueAdvanced, RearmTimer, Active
    <2>2. QED
      BY <1>1, <2>1 DEF Polled
  <1>3. CASE watchPc' # "select"
    BY <1>1, <1>3 DEF Polled
  <1>4. QED
    BY <1>2, <1>3

(* A queue is made inactive only if it has no pending run, or one that is  *)
(* being announced.                                                        *)
LEMMA AdvanceKeepsPending ==
  ASSUME WatcherLearns, TypeOK, PendingInv, AdvanceQueues
  PROVE  /\ \A r \in Reqs : phase'[r] = "pending" /\ Reached(RepoOf[r]) =>
              Polled(RepoOf[r])' \/ Announced(RepoOf[r])'
         /\ watchPc' = "update" /\ ~more' =>
              \A r \in Pending(queue)' : r = oldestPR' \/ Announced(queue)'
  <1>0. /\ \A q \in Repos : Announced(q) => Announced(q)'
        /\ \A r \in Reqs : phase'[r] = "pending" => phase[r] = "pending"
    <2>1. \A q \in Repos : Announced(q) => Announced(q)'
      BY DEF AdvanceQueues, Announced, Repository
    <2>2. \A r \in Reqs : phase'[r] = "pending" => phase[r] = "pending"
      BY DEF AdvanceQueues, ReceiveTick, ListQueue, StartOldest, TypeOK, RunsTypeOK
    <2>3. QED
      BY <2>1, <2>2
  <1>1. CASE ReceiveTick
    <2>1. /\ watchPc = "select" /\ queues' = queues /\ watchPc' # "update"
          /\ watchPc' = "select" => Active(queues) = {}
      BY <1>1 DEF ReceiveTick
    <2>2. \A q \in Repos : Polled(q) => Polled(q)'
      BY <2>1 DEF Polled, Active
    <2>3. QED
      BY <1>0, <2>1, <2>2 DEF PendingInv, ReachedNotForgotten
  <1>2. ASSUME NEW p \in Repos, QueueAdvanced(p, Pending(p) # {}), UNCHANGED runVars,
               watchPc = "list"
        PROVE  /\ watchPc' # "update"
               /\ \A r \in Reqs : phase'[r] = "pending" /\ Reached(RepoOf[r]) =>
                    Polled(RepoOf[r])' \/ Announced(RepoOf[r])'
    <2>1. watchPc' # "update"
      BY <1>2 DEF QueueAdvanced
    <2>2. ASSUME NEW r \in Reqs, phase[r] = "pending", Reached(RepoOf[r])
          PROVE  Polled(RepoOf[r])' \/ Announced(RepoOf[r])'
      <3>1. RepoOf[r] = p => Pending(p) # {}
        BY <2>2 DEF Pending, RunsOf
      <3>2. QED
        BY <1>0, <1>2, <2>2, <3>1, QueueAdvancedPolls DEF PendingInv, ReachedNotForgotten
    <2>3. QED
      BY <2>1, <2>2, <1>2
  <1>3. ASSUME NEW p \in Repos, queue' = p, more' = (Pending(p) # {oldestPR'}),
               oldestPR' \in OldestPending(p), watchPc' = "update", watchPc = "list",
               UNCHANGED <<runVars, queues>>
        PROVE  /\ \A r \in Reqs : phase'[r] = "pending" /\ Reached(RepoOf[r]) =>
                    Polled(RepoOf[r])' \/ Announced(RepoOf[r])'
               /\ ~more' => \A r \in Pending(queue)' : r = oldestPR'
    <2>1. \A q \in Repos : Polled(q) => Polled(q)'
      BY <1>3 DEF Polled
    <2>2. Pending(queue)' = Pending(p)
      BY <1>3 DEF Pending, RunsOf
    <2>3. QED
      BY <1>0, <1>3, <2>1, <2>2 DEF PendingInv, ReachedNotForgotten
  <1>4. CASE StartOldest
    <2>1. /\ QueueAdvanced(queue, more) /\ watchPc = "update"
          /\ queue \in Repos /\ more \in BOOLEAN /\ oldestPR \in RunsOf(queue)
      BY <1>4 DEF StartOldest, TypeOK, WatcherTypeOK
    <2>2. phase'[oldestPR] # "pending"
      BY <1>4, <2>1 DEF StartOldest, WatcherLearns, RunsOf, TypeOK, RunsTypeOK
    <2>3. ASSUME NEW r \in Reqs, phase'[r] = "pending", Reached(RepoOf[r])
          PROVE  Polled(RepoOf[r])' \/ Announced(RepoOf[r])'
      <3>1. phase[r] = "pending" /\ RepoOf[r] \in Repos
        BY <1>0, <2>3
      <3>2. CASE RepoOf[r] = queue /\ ~more
        BY <1>0, <2>1, <2>2, <2>3, <3>1, <3>2 DEF PendingInv, ReachedNotForgotten, Pending, RunsOf
      <3>3. CASE RepoOf[r] # queue \/ more
        BY <1>0, <2>1, <2>3, <3>1, <3>3, QueueAdvancedPolls DEF PendingInv, ReachedNotForgotten
      <3>4. QED
        BY <3>2, <3>3
    <2>4. QED
      BY <2>1, <2>3 DEF QueueAdvanced
  <1>5. ASSUME NEW p \in Repos, ListQueue(p)
        PROVE  /\ \A r \in Reqs : phase'[r] = "pending" /\ Reached(RepoOf[r]) =>
                    Polled(RepoOf[r])' \/ Announced(RepoOf[r])'
               /\ watchPc' = "update" /\ ~more' =>
                    \A r \in Pending(queue)' : r = oldestPR' \/ Announced(queue)'
    BY <1>2, <1>3, <1>5 DEF ListQueue, WatcherLearns
  <1>6. QED
    BY <1>1, <1>4, <1>5 DEF AdvanceQueues

(* No pending run of a repository that is reached is forgotten.            *)
LEMMA PendingInvStep ==
  ASSUME WatcherLearns, TypeOK, PendingInv, [Next]_vars
  PROVE  PendingInv'
  <1> USE DEF ReachedNotForgotten
  <1>0. bootTodo' \subseteq Listed
    BY DEF PendingInv, Next, ManagerStep, Rest, HandleWebhook, SendTrigger, GetRepoNames,
           SendBootRepo, SchedulerStep, ReceiveRepo, AdvanceQueues, WatchTimerFires,
           ClusterStep, Restart
  <1>1. CASE AdvanceQueues
    <2>1. \A q \in Repos : Reached(q)' = Reached(q)
      BY <1>1 DEF AdvanceQueues, Reached
    <2>2. QED
      BY <1>0, <1>1, <2>1, AdvanceKeepsPending DEF PendingInv
  <1>2. CASE ReceiveRepo
    <2>1. \A q \in Repos : Reached(q)' = Reached(q)
      BY <1>2 DEF ReceiveRepo, Reached
    <2>2. \A r \in Reqs : phase'[r] = "pending" /\ Reached(RepoOf[r]) =>
            Polled(RepoOf[r])' \/ Announced(RepoOf[r])'
      BY <1>2, ReceiveRepoPolls DEF ReceiveRepo, WatchRepo, PendingInv
    <2>3. watchPc' # "update"
      BY <1>2 DEF ReceiveRepo, WatchRepo
    <2>4. QED
      BY <1>0, <2>1, <2>2, <2>3 DEF PendingInv
  <1>3. CASE Restart
    <2>1. bootScan' /\ watchPc' = "select" /\ restarts' # 0
      BY <1>3 DEF Restart, WatcherBoots, TypeOK
    <2>2. \A q \in Repos : Reached(q)' => Announced(q)'
      BY <2>1 DEF Reached, Announced
    <2>3. QED
      BY <1>0, <2>1, <2>2 DEF PendingInv
  <1>4. CASE ~AdvanceQueues /\ ~ReceiveRepo /\ ~Restart
    <2>1. UNCHANGED watchVars \/ TimerFires
      BY <1>4 DEF Next, ManagerStep, Rest, HandleWebhook, SendTrigger, GetRepoNames,
                  SendBootRepo, SchedulerStep, WatchTimerFires, ClusterStep
    <2>2. /\ UNCHANGED <<queues, watchPc, queue, oldestPR, more>>
          /\ \A q \in Repos : Polled(q) => Polled(q)'
      BY <2>1 DEF TimerFires, Polled
    <2>3. \A q \in Repos : (Announced(q) => Announced(q)') /\ Reached(q)' = Reached(q)
      <3>1. UNCHANGED restarts
        BY <1>4 DEF Next, ManagerStep, Rest, HandleWebhook, SendTrigger, GetRepoNames,
                    SendBootRepo, SchedulerStep, WatchTimerFires, ClusterStep
      <3>2. QED
        BY <1>4, <3>1, AnnouncedStays DEF Reached, PendingInv
    <2>4. \A r \in Reqs : phase'[r] = "pending" =>
            phase[r] = "pending" \/ Announced(RepoOf[r])'
      BY NewPendingAnnounced
    <2>5. watchPc = "update" => queue \in Repos
      BY DEF TypeOK, WatcherTypeOK
    <2>6. ReachedNotForgotten'
      BY <2>2, <2>3, <2>4 DEF PendingInv
    <2>7. QED
      BY <1>0, <2>2, <2>3, <2>4, <2>5, <2>6 DEF PendingInv, Pending, RunsOf
  <1>5. QED
    BY <1>1, <1>2, <1>3, <1>4

LEMMA PendingInvariant ==
  ASSUME WatcherLearns
  PROVE  Spec => []PendingInv
  <1>1. Init => PendingInv
    BY DEF Init, RunsInit, WatcherInit, PendingInv, ReachedNotForgotten
  <1>2. TypeOK /\ PendingInv /\ [Next]_vars => PendingInv'
    BY PendingInvStep
  <1>3. QED
    BY <1>1, <1>2, TypeCorrect, PTL DEF Spec

(* If no call by which the watcher learns of runs fails, a pending run is  *)
(* forgotten only by a restart, and only if the boot scan does not reach   *)
(* its repository.                                                         *)
THEOREM ReachedNeverForgotten ==
  ASSUME WatcherLearns
  PROVE  Spec => []ReachedNotForgotten
  <1>1. PendingInv => ReachedNotForgotten
    BY DEF PendingInv
  <1>2. QED
    BY <1>1, PendingInvariant, PTL

(* No pending run is forgotten if no call by which the watcher learns of   *)
(* runs fails and the boot scan reaches every repository.                  *)
THEOREM PendingNeverForgotten ==
  ASSUME WatcherLearns, Listed = Repos
  PROVE  Spec => []NoPendingForgotten
  <1>1. ReachedNotForgotten => NoPendingForgotten
    BY DEF ReachedNotForgotten, Reached, NoPendingForgotten, Announced
  <1>2. QED
    BY <1>1, ReachedNeverForgotten, PTL

(***************************************************************************)
(* At rest                                                                 *)
(***************************************************************************)

(* Some goroutine of the manager other than a handler that has yet to read *)
(* its request, its timer, or a run in progress can take a step: these are *)
(* the guards of the steps that fairness is assumed of.                    *)
ManagerCanStep ==
  \/ \E r \in Reqs : hook[r] = "sending" /\ HasRoom(triggeredPipelines)
  \/ bootScan
  \/ bootTodo # {} /\ HasRoom(pendingRunRepos)
  \/ schedPc = "receive" /\ triggeredPipelines # <<>>
  \/ schedPc = "send" /\ HasRoom(pendingRunRepos)
  \/ schedPc \notin {"receive", "send"}
  \/ watchPc = "select" /\ (pendingRunRepos # <<>> \/ timer = "fired")
  \/ watchPc = "list" /\ todo # {}
  \/ watchPc = "update"
  \/ timer = "armed"
  \/ \E r \in Reqs : phase[r] \in {"progressing", "stopping"}

(* Nobody waits for a channel, and nothing is left in one.                 *)
NobodyWaits ==
  /\ \A r \in Reqs : hook[r] # "sending"
  /\ channels = <<<<>>, <<>>>>
  /\ schedPc = "receive" /\ watchPc = "select"
  /\ ~bootScan /\ bootTodo = {}

(* Every accepted trigger has had its run, or is one that was dropped; the *)
(* runs left pending are those a restart has forgotten.                    *)
AcceptedDealtWith ==
  \A r \in Reqs : hook[r] = "accepted" =>
    \/ phase[r] = "done"
    \/ r \in dropped
    \/ phase[r] = "pending" /\ ~Reached(RepoOf[r])

(* The watcher goes back to its select when no queue of the tick is left.  *)
TodoLeft == watchPc = "list" => todo # {}

LEMMA TodoLeftInvariant == Spec => []TodoLeft
  <1>1. Init => TodoLeft
    BY DEF Init, WatcherInit, TodoLeft
  <1>2. TypeOK /\ TodoLeft /\ [Next]_vars => TodoLeft'
    <2> SUFFICES ASSUME TypeOK, TodoLeft, [Next]_vars
                 PROVE  TodoLeft'
      OBVIOUS
    <2>1. ASSUME NEW q \in todo, NEW remaining, QueueAdvanced(q, remaining)
          PROVE  TodoLeft'
      BY <2>1 DEF QueueAdvanced, TodoLeft
    <2>2. CASE StartOldest
      BY <2>1, <2>2 DEF StartOldest, TypeOK, WatcherTypeOK
    <2>3. ASSUME NEW q \in Repos, ListQueue(q)
          PROVE  TodoLeft'
      BY <2>1, <2>3 DEF ListQueue, TodoLeft
    <2>4. CASE ReceiveTick
      BY <2>4 DEF ReceiveTick, TodoLeft
    <2>5. CASE watchPc' = "select" \/ UNCHANGED <<watchPc, todo>>
      BY <2>5 DEF TodoLeft
    <2>6. QED
      BY <2>2, <2>3, <2>4, <2>5
         DEF Next, ManagerStep, Rest, HandleWebhook, SendTrigger, GetRepoNames, SendBootRepo,
             SchedulerStep, ReceiveRepo, WatchRepo, AdvanceQueues, WatchTimerFires, TimerFires,
             ClusterStep, Restart, WatcherBoots
  <1>3. QED
    BY <1>1, <1>2, TypeCorrect, PTL DEF Spec

LEMMA StoppedChannels ==
  ASSUME TypeOK, TodoLeft, ~ManagerCanStep
  PROVE  NobodyWaits /\ timer = "stopped"
  <1>1. watchPc = "select" /\ timer = "stopped" /\ pendingRunRepos = <<>>
    BY DEF ManagerCanStep, TodoLeft, TypeOK, WatcherTypeOK
  <1>2. HasRoom(pendingRunRepos)
    BY <1>1 DEF HasRoom
  <1>3. schedPc = "receive" /\ triggeredPipelines = <<>> /\ ~bootScan /\ bootTodo = {}
    BY <1>2 DEF ManagerCanStep, TypeOK
  <1>4. HasRoom(triggeredPipelines)
    BY <1>3 DEF HasRoom
  <1>5. QED
    BY <1>1, <1>3, <1>4 DEF ManagerCanStep, NobodyWaits

(* The handlers, the scheduler, the watcher and the boot scan never wait   *)
(* for each other in a circle: when none of them can go on, none is        *)
(* waiting for a channel.                                                  *)
THEOREM NoCircularWait == Spec => [](~ManagerCanStep => NobodyWaits)
  <1>1. TypeOK /\ TodoLeft => (~ManagerCanStep => NobodyWaits)
    BY StoppedChannels
  <1>2. QED
    BY <1>1, TypeCorrect, TodoLeftInvariant, PTL

(* When the manager has come to rest it has dealt with all it accepted: it *)
(* does not stop polling, nor wait for a tick, with a run still pending.   *)
THEOREM RestsWhenDone ==
  ASSUME WatcherLearns
  PROVE  Spec => [](~ManagerCanStep => AcceptedDealtWith)
  <1>1. ASSUME TypeOK, TodoLeft, TriggerInv, ReachedNotForgotten, ~ManagerCanStep,
               NEW r \in Reqs, hook[r] = "accepted", r \notin dropped
        PROVE  phase[r] = "done" \/ (phase[r] = "pending" /\ ~Reached(RepoOf[r]))
    <2>1. NobodyWaits /\ timer = "stopped"
      BY <1>1, StoppedChannels
    <2>2. triggeredPipelines = <<>> /\ pendingRunRepos = <<>>
      BY <2>1 DEF NobodyWaits
    <2>3. phase[r] # "absent"
      BY <1>1, <2>1, <2>2 DEF NobodyWaits, TriggerInv, TriggerAccountedFor
    <2>4. phase[r] \in {"pending", "done"}
      BY <1>1, <2>3 DEF ManagerCanStep, TypeOK, RunsTypeOK, Phases
    <2>5. ~Polled(RepoOf[r]) /\ ~Announced(RepoOf[r])
      BY <2>1, <2>2 DEF NobodyWaits, Polled, Announced
    <2>6. QED
      BY <1>1, <2>4, <2>5 DEF ReachedNotForgotten
  <1>2. TypeOK /\ TodoLeft /\ TriggerInv /\ ReachedNotForgotten
          => (~ManagerCanStep => AcceptedDealtWith)
    BY <1>1 DEF AcceptedDealtWith
  <1>3. QED
    BY <1>2, TypeCorrect, TodoLeftInvariant, TriggerInvariant, ReachedNeverForgotten, PTL

=============================================================================
