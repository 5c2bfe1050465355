-------------------------- MODULE PipelineManager --------------------------
(***************************************************************************)
(* The pipeline manager process: webhook handlers, scheduler and watcher   *)
(* connected by bounded channels, the boot scan that makes up for the      *)
(* state a restart loses, and restarts.  Tekton and the users act beside   *)
(* it.                                                                     *)
(***************************************************************************)
EXTENDS Scheduler, Watcher, FiniteSets

CONSTANTS
  Listed,      \* the repositories the boot scan reaches: those on the first
               \* page of the repository list whose name is also their
               \* lower-case slug, which is what runs are labelled with
  MaxRestarts  \* how often the process restarts

ASSUME ManagerAssumption ==
  /\ Listed \subseteq Repos
  /\ MaxRestarts \in Nat

VARIABLES
  hook,      \* the webhook request: "new", "sending", "accepted", "refused"
  bootScan,  \* whether the boot scan is still to be started
  bootTodo,  \* the repositories the boot scan has yet to send
  restarts   \* the number of restarts so far

receiverVars == <<hook>>
bootVars == <<bootScan, bootTodo>>
vars == <<runVars, schedVars, watchVars, receiverVars, bootVars, restarts>>

TypeOK ==
  /\ RunsTypeOK
  /\ SchedulerTypeOK
  /\ WatcherTypeOK
  /\ hook \in [Reqs -> {"new", "sending", "accepted", "refused"}]
  /\ bootScan \in BOOLEAN
  /\ bootTodo \subseteq Repos
  /\ restarts \in 0..MaxRestarts
  /\ Len(triggeredPipelines) <= ChannelBufferSize
  /\ Len(pendingRunRepos) <= ChannelBufferSize

Init ==
  /\ RunsInit
  /\ SchedulerInit
  /\ WatcherInit
  /\ hook = [r \in Reqs |-> "new"]
  /\ bootScan = TRUE
  /\ bootTodo = {}
  /\ restarts = 0

-----------------------------------------------------------------------------
(***************************************************************************)
(* Webhook handlers, one goroutine per request.                            *)
(***************************************************************************)

(* Up to the send on the channel a handler only reads: it ends with an     *)
(* error status or holds the configuration of the pipeline to trigger.     *)
HandleWebhook(r) ==
  /\ hook[r] = "new"
  /\ \E outcome \in {"sending", "refused"} : hook' = [hook EXCEPT ![r] = outcome]
  /\ UNCHANGED <<runVars, schedVars, watchVars, bootVars, restarts>>

(* Mutant: the handler does not wait for room in the channel. *)
SendTriggerWithoutBlocking(r) ==
  /\ hook[r] = "sending"
  /\ triggeredPipelines' =
       IF HasRoom(triggeredPipelines) THEN Append(triggeredPipelines, r) ELSE triggeredPipelines
  /\ hook' = [hook EXCEPT ![r] = "accepted"]
  /\ UNCHANGED <<runVars, pendingRunRepos, resources, schedLocals, dropped,
                 watchVars, bootVars, restarts>>

(* The send blocks while the channel is full; only then is it answered.    *)
SendTrigger(r) ==
  /\ hook[r] = "sending"
  /\ HasRoom(triggeredPipelines)
  /\ triggeredPipelines' = Append(triggeredPipelines, r)
  /\ hook' = [hook EXCEPT ![r] = "accepted"]
  /\ UNCHANGED <<runVars, pendingRunRepos, resources, schedLocals, dropped,
                 watchVars, bootVars, restarts>>

(* Mutant: nothing is scanned after boot. *)
GetNoRepoNames ==
  /\ bootScan
  /\ bootScan' = FALSE
  /\ bootTodo' = {}
  /\ UNCHANGED <<runVars, schedVars, watchVars, receiverVars, restarts>>

(***************************************************************************)
(* The boot scan, a goroutine started once, initialWatchWait after boot.   *)
(***************************************************************************)
GetRepoNames ==
  /\ bootScan
  /\ bootScan' = FALSE
  /\ \/ bootTodo' = Listed
     \/ /\ "repoList" \in Faults
        /\ bootTodo' = {}
  /\ UNCHANGED <<runVars, schedVars, watchVars, receiverVars, restarts>>

SendBootRepo(q) ==
  /\ q \in bootTodo
  /\ HasRoom(pendingRunRepos)
  /\ pendingRunRepos' = Append(pendingRunRepos, q)
  /\ bootTodo' = bootTodo \ {q}
  /\ UNCHANGED <<runVars, triggeredPipelines, resources, schedLocals, dropped,
                 watchVars, receiverVars, bootScan, restarts>>

-----------------------------------------------------------------------------
(***************************************************************************)
(* The scheduler and the watcher as parts of the process.                  *)
(***************************************************************************)
SchedulerStep ==
  /\ \/ ReceiveTrigger
     \/ GetPipeline
     \/ WritePipeline
     \/ CreatePVCIfRequired
     \/ ListRuns
     \/ CreatePipelineRun
     \/ SendPendingRepo
  /\ UNCHANGED <<watchVars, receiverVars, bootVars, restarts>>

ReceiveRepo ==
  /\ pendingRunRepos # <<>>
  /\ WatchRepo(Head(pendingRunRepos))
  /\ pendingRunRepos' = Tail(pendingRunRepos)
  /\ UNCHANGED <<triggeredPipelines, resources, schedLocals, dropped,
                 receiverVars, bootVars, restarts>>

AdvanceQueues ==
  /\ \/ ReceiveTick
     \/ \E q \in Repos : ListQueue(q)
     \/ StartOldest
  /\ UNCHANGED <<schedVars, receiverVars, bootVars, restarts>>

WatchTimerFires ==
  /\ TimerFires
  /\ UNCHANGED <<schedVars, receiverVars, bootVars, restarts>>

(***************************************************************************)
(* The process dies and is started again.  The channels, the queues and    *)
(* the local variables of every goroutine are lost; the resources stay.    *)
(***************************************************************************)
Restart ==
  /\ restarts < MaxRestarts
  /\ restarts' = restarts + 1
  /\ dropped' = dropped \cup {r \in Reqs : hook[r] = "accepted" /\ phase[r] = "absent"}
  /\ hook' = [r \in Reqs |-> IF hook[r] = "sending" THEN "refused" ELSE hook[r]]
  /\ triggeredPipelines' = <<>>
  /\ pendingRunRepos' = <<>>
  /\ AwaitNext
  /\ WatcherBoots
  /\ bootScan' = TRUE
  /\ bootTodo' = {}
  /\ UNCHANGED <<runVars, resources>>

(***************************************************************************)
(* Tekton and the users.                                                   *)
(***************************************************************************)
ClusterStep(r) ==
  /\ Complete(r) \/ CancelOrTimeOut(r)
  /\ UNCHANGED <<schedVars, watchVars, receiverVars, bootVars, restarts>>

(* Every request is answered, every run is done, and nobody has anything   *)
(* left to do: the only states in which the process may come to rest.      *)
Settled ==
  /\ \A r \in Reqs : hook[r] \in {"accepted", "refused"} /\ phase[r] \in {"absent", "done"}
  /\ channels = <<<<>>, <<>>>>
  /\ schedPc = "receive"
  /\ watchPc = "select" /\ timer = "stopped"
  /\ ~bootScan /\ bootTodo = {}

Rest == Settled /\ UNCHANGED vars

ManagerStep ==
  \/ \E r \in Reqs : HandleWebhook(r) \/ SendTrigger(r)
  \/ GetRepoNames
  \/ \E q \in Repos : SendBootRepo(q)
  \/ SchedulerStep
  \/ ReceiveRepo
  \/ AdvanceQueues
  \/ WatchTimerFires

Next ==
  \/ ManagerStep
  \/ Restart
  \/ \E r \in Reqs : ClusterStep(r)
  \/ Rest

Spec == Init /\ [][Next]_vars

(***************************************************************************)
(* Fairness.  Goroutines that can run do run; select picks at random among *)
(* the cases that are ready, so a message that is ready again and again is *)
(* received; timers fire; handlers blocked on a channel are served; Tekton *)
(* ends every run, by its timeout if need be.  Nothing forces a webhook, a *)
(* cancellation, a restart or an API error.                                *)
(***************************************************************************)
RunEnds(r) == Complete(r) /\ ClusterStep(r)

Fairness ==
  /\ WF_vars(SchedulerStep)
  /\ SF_vars(ReceiveRepo)
  /\ WF_vars(AdvanceQueues)
  /\ WF_vars(WatchTimerFires)
  /\ WF_vars(GetRepoNames)
  /\ \A q \in Repos : WF_vars(SendBootRepo(q))
  /\ \A r \in Reqs : WF_vars(SendTrigger(r))
  /\ \A r \in Reqs : WF_vars(RunEnds(r))

FairSpec == Spec /\ Fairness

-----------------------------------------------------------------------------
(***************************************************************************)
(* Safety                                                                  *)
(***************************************************************************)

(* "The pipeline manager shall prevent concurrent pipeline runs for one    *)
(* repository": the scheduler's list and create and the watcher's list and *)
(* update interleave, and still no two runs of a repository progress.      *)
AtMostOneProgressing ==
  \A q \in Repos : \A r, s \in Progressing(q) : r = s

(* The timer that will make the watcher look at q is running, or the       *)
(* watcher is looking at its queues right now.                             *)
Polled(q) == queues[q] /\ (watchPc = "select" => timer # "stopped")

(* A pending run is started by nobody but the watcher, so as long as it is *)
(* pending its repository is polled, or is on its way to the watcher: in   *)
(* the channel, about to be sent by the scheduler, or in the boot scan.    *)
NoPendingForgotten ==
  \A r \in Reqs : phase[r] = "pending" =>
    LET q == RepoOf[r] IN
      \/ Polled(q)
      \/ \E i \in 1..Len(pendingRunRepos) : pendingRunRepos[i] = q
      \/ schedPc = "send" /\ Repository = q
      \/ bootScan
      \/ q \in bootTodo

(* A trigger for which the webhook was answered with success is in the     *)
(* channel, in the scheduler's hands, or has become a run, unless it is    *)
(* one that an API error or a restart has dropped.                         *)
TriggerAccountedFor ==
  \A r \in Reqs : hook[r] = "accepted" =>
    \/ \E i \in 1..Len(triggeredPipelines) : triggeredPipelines[i] = r
    \/ pData = r
    \/ phase[r] # "absent"
    \/ r \in dropped

(* A run comes into being only after its Pipeline was written for the very *)
(* same request and its workspace PVC exists, whatever API calls failed.   *)
CreatedFromOwnDefinition ==
  [][\A r \in Reqs : phase[r] = "absent" /\ phase'[r] # "absent" =>
       pipelineDef[PipelineOf[r]] = r /\ RepoOf[r] \in pvcs]_vars

(* A pending run refers to its Pipeline by name, and executes whatever the *)
(* Pipeline holds when it starts: what was written for its own request, or *)
(* for one of the same branch whose run is not older.                      *)
DefinitionNotOlder ==
  \A r \in Reqs : phase[r] = "pending" =>
    LET d == pipelineDef[PipelineOf[r]] IN
      /\ d \in Reqs /\ PipelineOf[d] = PipelineOf[r]
      /\ d = r \/ phase[d] = "absent" \/ created[d] >= created[r]

(* The runs of a repository start in the order in which they were created: *)
(* the watcher starts no run while an older one is pending, and the        *)
(* scheduler starts none directly while any is.                            *)
StartsInOrder ==
  [][\A r \in Reqs : phase[r] # "progressing" /\ phase'[r] = "progressing" =>
       \A s \in Pending(RepoOf[r]) : phase[r] = "pending" /\ created[r] <= created[s]]_vars

(* To its environment the manager is the atomic run queue of RunQueue.     *)
RQ == INSTANCE RunQueue
ImplementsRunQueue == RQ!Spec

(***************************************************************************)
(* Why the interleavings are harmless: what the scheduler and the watcher  *)
(* have read stays true for as long as they rely on it.  Conjoined with    *)
(* TypeOK this is inductive.                                               *)
(***************************************************************************)
TimestampsPast == \A r \in Reqs : created[r] <= clock

(* A request is triggered once: in the channel at most once, then in the   *)
(* scheduler's hands, and without a run until the scheduler creates it.    *)
TriggeredOnce ==
  /\ \A r \in Reqs : hook[r] # "accepted" => phase[r] = "absent"
  /\ pData # NoReq => hook[pData] = "accepted"
  /\ schedPc \notin {"receive", "send"} => phase[pData] = "absent"
  /\ \A i \in 1..Len(triggeredPipelines) :
       /\ hook[triggeredPipelines[i]] = "accepted"
       /\ phase[triggeredPipelines[i]] = "absent"
       /\ triggeredPipelines[i] # pData
       /\ \A j \in 1..Len(triggeredPipelines) :
            triggeredPipelines[i] = triggeredPipelines[j] => i = j

(* The Pipeline and the PVC the scheduler has written are still there.     *)
ResourcesWritten ==
  /\ schedPc \in {"pvc", "list", "create", "send"} => pipelineDef[PipelineOf[pData]] = pData
  /\ schedPc \in {"list", "create", "send"} => Repository \in pvcs

(* A list that showed neither a pending nor a progressing run still holds. *)
EmptyListHolds ==
  schedPc = "create" /\ ~needQueueing =>
    Pending(Repository) = {} /\ Progressing(Repository) = {}

(* So does what the watcher saw, unless the API server refuses its update. *)
SnapshotHolds ==
  watchPc = "update" =>
    /\ phase[oldestPR] # "absent"
    /\ phase[oldestPR] = "pending" =>
         Progressing(queue) = {} /\ oldestPR \in OldestPending(queue)

ManagerInv ==
  /\ AtMostOneProgressing
  /\ TimestampsPast
  /\ TriggeredOnce
  /\ ResourcesWritten
  /\ EmptyListHolds
  /\ SnapshotHolds

(***************************************************************************)
(* Liveness                                                                *)
(***************************************************************************)

(* An accepted trigger eventually runs, unless it was dropped: no run      *)
(* stays pending for ever, across restarts.                                *)
TriggerEventuallyRuns ==
  \A r \in Reqs :
    hook[r] = "accepted" ~> (phase[r] \in {"progressing", "stopping", "done"} \/ r \in dropped)

(* The watcher does not poll for ever: once the runs are through, its      *)
(* timer stays stopped.                                                    *)
PollingEnds == <>[](timer = "stopped")

=============================================================================
