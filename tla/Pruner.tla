------------------------------- MODULE Pruner -------------------------------
(***************************************************************************)
(* The pruner of the pipeline manager.  A trigger of a repository plans a  *)
(* prune, unless one is already planned; when its delay has passed, the    *)
(* prune runs in a goroutine of its own: it lists the runs, and for each   *)
(* stage deletes what is neither recent nor among the latest.              *)
(*                                                                         *)
(* Every API call is a step, so that the scheduler and other prunes act    *)
(* between the list and any delete.  Whether the runs of a pipeline depend *)
(* on it is Tekton's matter, as nothing in the code makes them: RunsDepend *)
(* says whether they go when it is deleted.  Pipelines of several          *)
(* repositories or stages may have the same name.                          *)
(***************************************************************************)
EXTENDS Naturals, FiniteSets

CONSTANTS
  Runs,          \* the pipeline runs there may ever be
  Repos,
  RepoOf,        \* the repository of each run
  Pipelines,
  PipelineOf,    \* the name of the pipeline that each run refers to
  Stages,
  StageOf,       \* the stage label of each run
  MinKeepHours,
  MaxKeepRuns,
  Prunes,        \* bound: the prunes that may be planned or under way at once
  MaxTime,       \* bound: the hours that pass
  NoRepo,        \* no repository
  NoStage,       \* no stage
  RunsDepend,    \* whether the runs of a pipeline are deleted with it
  CallsFail      \* whether calls of the API may fail

ASSUME PrunerAssumption ==
  /\ RepoOf \in [Runs -> Repos]
  /\ PipelineOf \in [Runs -> Pipelines]
  /\ StageOf \in [Runs -> Stages]
  /\ MinKeepHours \in Nat \ {0} /\ MaxKeepRuns \in Nat /\ MaxTime \in Nat
  /\ Stages # {}
  /\ NoRepo \notin Repos /\ NoStage \notin Stages
  /\ RunsDepend \in BOOLEAN /\ CallsFail \in BOOLEAN

VARIABLES
  runs,           \* the runs that exist
  pipelines,      \* the pipelines that exist
  created,        \* CreationTimestamp of the runs; of one not yet created, "never"
  now,            \* the current time
  upcomingPrune,  \* the planned prune: "none", "future" or "past"
  awaiting,       \* history: triggered repositories no prune has listed since,
  owed            \* and the runs that are to go since their repository was triggered

VARIABLES  \* of each prune
  prunePc,            \* "idle", "planned", "due", "stage", "delete"
  pruneRepo,          \* the repository
  pipelineRuns,       \* the runs it has listed
  stagesLeft,         \* the stages it has yet to look at
  stage,              \* the stage it is looking at
  protectedRuns,      \* of every stage so far: the runs to keep
  prunablePipelines,  \* of its stage: the pipelines and
  prunablePipelineRuns  \* the runs still to be deleted

cluster == <<runs, pipelines, created, now>>
prunes == <<prunePc, pruneRepo, pipelineRuns, stagesLeft, stage, protectedRuns,
            prunablePipelines, prunablePipelineRuns>>
history == <<awaiting, owed>>
vars == <<cluster, upcomingPrune, history, prunes>>

Times == 0..MaxTime
Never == MaxTime + 1

NoRuns == [st \in Stages |-> {}]

TypeOK ==
  /\ runs \subseteq Runs
  /\ pipelines \subseteq Pipelines
  /\ created \in [Runs -> Times \cup {Never}]
  /\ now \in Times
  /\ upcomingPrune \in [Repos -> {"none", "future", "past"}]
  /\ awaiting \subseteq Repos /\ owed \subseteq Runs
  /\ prunePc \in [Prunes -> {"idle", "planned", "due", "stage", "delete"}]
  /\ pruneRepo \in [Prunes -> Repos \cup {NoRepo}]
  /\ pipelineRuns \in [Prunes -> SUBSET Runs]
  /\ stagesLeft \in [Prunes -> SUBSET Stages]
  /\ stage \in [Prunes -> Stages \cup {NoStage}]
  /\ protectedRuns \in [Prunes -> [Stages -> SUBSET Runs]]
  /\ prunablePipelines \in [Prunes -> SUBSET Pipelines]
  /\ prunablePipelineRuns \in [Prunes -> SUBSET Runs]
  /\ \A j \in Prunes :
       /\ prunePc[j] = "idle" <=> pruneRepo[j] = NoRepo
       /\ prunePc[j] = "stage" => stagesLeft[j] # {}
       /\ prunePc[j] = "delete" <=> prunablePipelines[j] # {} \/ prunablePipelineRuns[j] # {}

Init ==
  /\ runs = {} /\ pipelines = {}
  /\ created = [r \in Runs |-> Never]
  /\ now = 0
  /\ upcomingPrune = [q \in Repos |-> "none"]
  /\ awaiting = {} /\ owed = {}
  /\ prunePc = [j \in Prunes |-> "idle"]
  /\ pruneRepo = [j \in Prunes |-> NoRepo]
  /\ pipelineRuns = [j \in Prunes |-> {}]
  /\ stagesLeft = [j \in Prunes |-> {}]
  /\ stage = [j \in Prunes |-> NoStage]
  /\ protectedRuns = [j \in Prunes |-> NoRuns]
  /\ prunablePipelines = [j \in Prunes |-> {}]
  /\ prunablePipelineRuns = [j \in Prunes |-> {}]

-----------------------------------------------------------------------------
(***************************************************************************)
(* What to prune.                                                          *)
(***************************************************************************)

(* Mutant: only the number of runs counts. *)
ProtectedChoicesByNumber(rs) ==
  {keep \in SUBSET rs :
     /\ Cardinality(keep) = IF Cardinality(rs) < MaxKeepRuns THEN Cardinality(rs) ELSE MaxKeepRuns
     /\ \A r \in keep, s \in rs \ keep : created[r] >= created[s]}

Recent(r) == created[r] + MinKeepHours > now

(* The run r and its pipeline exist, it is not recent, and as many later   *)
(* runs of its repository and stage as are to be kept exist.               *)
Excess(r) ==
  /\ r \in runs /\ PipelineOf[r] \in pipelines
  /\ ~Recent(r)
  /\ Cardinality({s \in runs : /\ RepoOf[s] = RepoOf[r] /\ StageOf[s] = StageOf[r]
                               /\ created[s] > created[r]}) >= MaxKeepRuns

(* From the latest to the earliest, a run is kept if it is recent or fewer *)
(* than MaxKeepRuns are kept already; runs created at the same time come   *)
(* in any order.                                                           *)
ProtectedChoices(rs) ==
  LET recent == {r \in rs : Recent(r)} IN
  {keep \in SUBSET rs :
     /\ recent \subseteq keep
     /\ \/ keep = rs
        \/ Cardinality(keep) >= MaxKeepRuns
     /\ keep = recent \/ Cardinality(keep) <= MaxKeepRuns
     /\ \A r \in keep, s \in rs \ keep : created[r] >= created[s]}

(* Mutant: the runs kept are not looked at. *)
PipelineIsNeverProtected(p, keep) == FALSE

PipelineIsProtected(p, keep) == \E r \in keep : PipelineOf[r] = p

(* A run that is not kept goes by its name if a kept one shares its        *)
(* pipeline, and otherwise with its pipeline.                              *)
ByName(rs, keep) == {r \in rs \ keep : PipelineIsProtected(PipelineOf[r], keep)}

AsPipelines(rs, keep) == {PipelineOf[r] : r \in (rs \ keep) \ ByName(rs, keep)}

ListedOfStage(j, st) == {r \in pipelineRuns[j] : StageOf[r] = st}

(* Mutant: the prune does not notice that no stage is left. *)
AfterStageForEver(j, left, kept) ==
  /\ stagesLeft' = [stagesLeft EXCEPT ![j] = left]
  /\ stage' = [stage EXCEPT ![j] = NoStage]
  /\ protectedRuns' = [protectedRuns EXCEPT ![j] = kept]
  /\ prunablePipelines' = [prunablePipelines EXCEPT ![j] = {}]
  /\ prunablePipelineRuns' = [prunablePipelineRuns EXCEPT ![j] = {}]
  /\ prunePc' = [prunePc EXCEPT ![j] = "stage"]
  /\ UNCHANGED <<pruneRepo, pipelineRuns>>

(* The prune j has nothing more to do for its stage: it goes on to the     *)
(* next one with what it has kept so far, or ends.                         *)
AfterStage(j, left, kept) ==
  /\ stagesLeft' = [stagesLeft EXCEPT ![j] = left]
  /\ stage' = [stage EXCEPT ![j] = NoStage]
  /\ prunablePipelines' = [prunablePipelines EXCEPT ![j] = {}]
  /\ prunablePipelineRuns' = [prunablePipelineRuns EXCEPT ![j] = {}]
  /\ IF left = {}
     THEN /\ prunePc' = [prunePc EXCEPT ![j] = "idle"]
          /\ pruneRepo' = [pruneRepo EXCEPT ![j] = NoRepo]
          /\ pipelineRuns' = [pipelineRuns EXCEPT ![j] = {}]
          /\ protectedRuns' = [protectedRuns EXCEPT ![j] = NoRuns]
     ELSE /\ prunePc' = [prunePc EXCEPT ![j] = "stage"]
          /\ protectedRuns' = [protectedRuns EXCEPT ![j] = kept]
          /\ UNCHANGED <<pruneRepo, pipelineRuns>>

-----------------------------------------------------------------------------
(***************************************************************************)
(* Planning                                                                *)
(***************************************************************************)

(* Mutant: a prune that was once planned counts as planned for ever. *)
PlannedOnce(q) == upcomingPrune[q] # "none"

PruneIsPlanned(q) == upcomingPrune[q] = "future"

(* A triggered repository arrives on the TriggeredRepos channel.  Its      *)
(* prune may be any of those not in use.                                   *)
ReceiveTriggeredRepo(q) ==
  /\ awaiting' = awaiting \cup {q}
  /\ owed' = owed \cup {r \in runs : RepoOf[r] = q /\ Excess(r)}
  /\ \/ /\ PruneIsPlanned(q)
        /\ UNCHANGED <<upcomingPrune, prunes>>
     \/ /\ ~PruneIsPlanned(q)
        /\ \E j \in Prunes : prunePc[j] = "idle"
        /\ LET j == CHOOSE k \in Prunes : prunePc[k] = "idle" IN
             /\ prunePc' = [prunePc EXCEPT ![j] = "planned"]
             /\ pruneRepo' = [pruneRepo EXCEPT ![j] = q]
        /\ upcomingPrune' = [upcomingPrune EXCEPT ![q] = "future"]
        /\ UNCHANGED <<pipelineRuns, stagesLeft, stage, protectedRuns, prunablePipelines,
                       prunablePipelineRuns>>
  /\ UNCHANGED cluster

(* The time of the planned prune passes; its timer fires no earlier.       *)
PruneFallsDue(j) ==
  /\ prunePc[j] = "planned"
  /\ prunePc' = [prunePc EXCEPT ![j] = "due"]
  /\ upcomingPrune' = [upcomingPrune EXCEPT ![pruneRepo[j]] = "past"]
  /\ UNCHANGED <<cluster, history, pruneRepo, pipelineRuns, stagesLeft, stage, protectedRuns,
                 prunablePipelines, prunablePipelineRuns>>

-----------------------------------------------------------------------------
(***************************************************************************)
(* Pruning                                                                 *)
(***************************************************************************)

(* prune lists the runs of the repository.  An error ends it.              *)
ListForPrune(j) ==
  /\ prunePc[j] = "due"
  /\ awaiting' = awaiting \ {pruneRepo[j]}
  /\ \/ /\ prunePc' = [prunePc EXCEPT ![j] = "stage"]
        /\ pipelineRuns' = [pipelineRuns EXCEPT ![j] = {r \in runs : RepoOf[r] = pruneRepo[j]}]
        /\ stagesLeft' = [stagesLeft EXCEPT ![j] = Stages]
        /\ UNCHANGED <<owed, pruneRepo, stage, protectedRuns, prunablePipelines,
                       prunablePipelineRuns>>
     \/ /\ CallsFail
        /\ prunePc' = [prunePc EXCEPT ![j] = "idle"]
        /\ pruneRepo' = [pruneRepo EXCEPT ![j] = NoRepo]
        /\ owed' = {r \in owed : RepoOf[r] # pruneRepo[j]}
        /\ UNCHANGED <<pipelineRuns, stagesLeft, stage, protectedRuns, prunablePipelines,
                       prunablePipelineRuns>>
  /\ UNCHANGED <<cluster, upcomingPrune>>

(* findPrunableResources for one of the stages, in any order.  The cutoff  *)
(* is taken now, the runs are those of the list.                           *)
FindPrunableResources(j) ==
  /\ prunePc[j] = "stage"
  /\ \E st \in stagesLeft[j] : \E keep \in ProtectedChoices(ListedOfStage(j, st)) :
       LET kept == [protectedRuns[j] EXCEPT ![st] = keep] IN
       IF keep = ListedOfStage(j, st)
       THEN AfterStage(j, stagesLeft[j] \ {st}, kept)
       ELSE /\ prunePc' = [prunePc EXCEPT ![j] = "delete"]
            /\ stagesLeft' = [stagesLeft EXCEPT ![j] = @ \ {st}]
            /\ stage' = [stage EXCEPT ![j] = st]
            /\ protectedRuns' = [protectedRuns EXCEPT ![j] = kept]
            /\ prunablePipelines' =
                 [prunablePipelines EXCEPT ![j] = AsPipelines(ListedOfStage(j, st), keep)]
            /\ prunablePipelineRuns' =
                 [prunablePipelineRuns EXCEPT ![j] = ByName(ListedOfStage(j, st), keep)]
            /\ UNCHANGED <<pruneRepo, pipelineRuns>>
  /\ UNCHANGED <<cluster, upcomingPrune, history>>

(* The runs that go with the pipeline p, deleted in the foreground.        *)
Dependents(p) == IF RunsDepend THEN {r \in runs : PipelineOf[r] = p} ELSE {}

DeleteSucceeds == owed' = {r \in owed : Excess(r)'}

(* A delete that fails is logged, and the next one is tried.               *)
DeleteFails(j) ==
  /\ owed' = {r \in owed : RepoOf[r] # pruneRepo[j]}
  /\ UNCHANGED <<runs, pipelines>>

(* The pipelines go first.                                                 *)
PrunePipeline(j) ==
  /\ prunePc[j] = "delete"
  /\ UNCHANGED <<created, now, upcomingPrune, awaiting>>
  /\ \E p \in prunablePipelines[j] :
       /\ \/ /\ p \in pipelines
             /\ pipelines' = pipelines \ {p}
             /\ runs' = runs \ Dependents(p)
             /\ DeleteSucceeds
          \/ (CallsFail \/ p \notin pipelines) /\ DeleteFails(j)
       /\ IF prunablePipelines[j] = {p} /\ prunablePipelineRuns[j] = {}
          THEN AfterStage(j, stagesLeft[j], protectedRuns[j])
          ELSE /\ prunablePipelines' = [prunablePipelines EXCEPT ![j] = @ \ {p}]
               /\ UNCHANGED <<prunePc, pruneRepo, pipelineRuns, stagesLeft, stage,
                              protectedRuns, prunablePipelineRuns>>

(* Then the runs whose pipeline is kept.                                   *)
PruneRun(j) ==
  /\ prunePc[j] = "delete"
  /\ UNCHANGED <<created, now, upcomingPrune, awaiting>>
  /\ prunablePipelines[j] = {}
  /\ \E r \in prunablePipelineRuns[j] :
       /\ \/ /\ r \in runs
             /\ runs' = runs \ {r}
             /\ UNCHANGED pipelines
             /\ DeleteSucceeds
          \/ (CallsFail \/ r \notin runs) /\ DeleteFails(j)
       /\ IF prunablePipelineRuns[j] = {r}
          THEN AfterStage(j, stagesLeft[j], protectedRuns[j])
          ELSE /\ prunablePipelineRuns' = [prunablePipelineRuns EXCEPT ![j] = @ \ {r}]
               /\ UNCHANGED <<prunePc, pruneRepo, pipelineRuns, stagesLeft, stage,
                              protectedRuns, prunablePipelines>>

-----------------------------------------------------------------------------
(***************************************************************************)
(* The scheduler and the clock.                                            *)
(***************************************************************************)

(* The scheduler writes the pipeline, and then creates the run.  Of runs   *)
(* that only their generated name tells apart, one is as good as another.  *)
CreateRun(r) ==
  /\ created[r] = Never
  /\ r = CHOOSE s \in Runs : /\ created[s] = Never
                            /\ <<RepoOf[s], PipelineOf[s], StageOf[s]>> =
                                 <<RepoOf[r], PipelineOf[r], StageOf[r]>>
  /\ runs' = runs \cup {r}
  /\ pipelines' = pipelines \cup {PipelineOf[r]}
  /\ created' = [created EXCEPT ![r] = now]
  /\ UNCHANGED <<now, upcomingPrune, history, prunes>>

HourPasses ==
  /\ now < MaxTime
  /\ now' = now + 1
  /\ UNCHANGED <<runs, pipelines, created, upcomingPrune, history, prunes>>

PruneStep(j) == ListForPrune(j) \/ FindPrunableResources(j) \/ PrunePipeline(j) \/ PruneRun(j)

Next ==
  \/ \E q \in Repos : ReceiveTriggeredRepo(q)
  \/ \E j \in Prunes : PruneFallsDue(j) \/ PruneStep(j)
  \/ \E r \in Runs : CreateRun(r)
  \/ HourPasses

Spec == Init /\ [][Next]_vars

(* Timers fire and goroutines run; nothing forces triggers, runs or calls  *)
(* to fail.                                                                *)
Fairness == \A j \in Prunes : WF_vars(PruneFallsDue(j)) /\ WF_vars(PruneStep(j))

FairSpec == Spec /\ Fairness

-----------------------------------------------------------------------------
(***************************************************************************)
(* Properties                                                              *)
(***************************************************************************)

(* Skipping a trigger because a prune is already planned loses nothing:    *)
(* every repository triggered and not listed since has a prune that has    *)
(* yet to list it.                                                         *)
TriggerCovered ==
  \A q \in awaiting : \E j \in Prunes : prunePc[j] \in {"planned", "due"} /\ pruneRepo[j] = q

(* The prune j deletes in this step the run r, which exists, or the        *)
(* pipeline that r refers to.                                              *)
Deletes(j, r) ==
  /\ r \in runs
  /\ r \notin runs' \/ PipelineOf[r] \in pipelines \ pipelines'
  /\ \/ prunablePipelines'[j] # prunablePipelines[j]
     \/ prunablePipelineRuns'[j] # prunablePipelineRuns[j]

(* Among the runs that the prune j has listed are runs of the pipeline p   *)
(* of two stages, as when its branch was mapped to another environment.    *)
OfTwoStages(j, p) ==
  \E r, s \in pipelineRuns[j] : PipelineOf[r] = p /\ PipelineOf[s] = p /\ StageOf[r] # StageOf[s]

(* "If pruning would prune all pipeline runs of one pipeline, then the     *)
(* pipeline is pruned instead": a prune deletes neither a run that it has  *)
(* decided to keep, in whatever stage, nor the pipeline of one.            *)
ProtectedRunsSurvive ==
  [][\A j \in Prunes, st \in Stages : \A r \in protectedRuns[j][st] : ~Deletes(j, r)]_vars

(* What a prune has decided to keep for one of its stages, it deletes in   *)
(* none of them, neither by name nor with the pipeline, unless it has      *)
(* listed runs of two stages of that pipeline; whatever other prunes, the  *)
(* scheduler and failing calls do meanwhile, and whether or not runs go    *)
(* with their pipeline.                                                    *)
KeptUnlessMoved ==
  [][\A j \in Prunes, st \in Stages : \A r \in protectedRuns[j][st] :
       Deletes(j, r) => OfTwoStages(j, PipelineOf[r])]_vars

(* Of a run that a prune has listed, and that it deletes or whose pipeline *)
(* it deletes: it was created at least MinKeepHours ago, and as many other *)
(* runs of its stage, none created earlier, as are to be kept were listed  *)
(* with it.  Again runs of two stages of one pipeline are the exception.   *)
OnlyOldRunsGo ==
  [][\A j \in Prunes : \A r \in pipelineRuns[j] :
       Deletes(j, r) /\ ~OfTwoStages(j, PipelineOf[r]) =>
         /\ ~Recent(r)
         /\ Cardinality({s \in pipelineRuns[j] \ {r} :
              StageOf[s] = StageOf[r] /\ created[s] >= created[r]}) >= MaxKeepRuns]_vars

(* A run in excess when its repository is triggered goes some time after,  *)
(* or its pipeline does, or the later runs do, unless a call of a prune of *)
(* the repository fails.  (Where runs do not depend on their pipeline, one *)
(* whose pipeline is gone stays: prunes ask for the pipeline again.)       *)
TriggerPruned ==
  \A q \in Repos : (\E r \in owed : RepoOf[r] = q) ~> (\A r \in owed : RepoOf[r] # q)

=============================================================================
