---------------------------- MODULE PrunerProofs ----------------------------
(***************************************************************************)
(* No trigger is lost by the deduplication of Pruner, and what a prune     *)
(* deletes is not what it keeps in any of its stages, is old, and behind   *)
(* as many later runs as are to be kept, unless the runs of a pipeline     *)
(* that it has listed are of two stages, for every value of the constants. *)
(***************************************************************************)
EXTENDS Pruner, FiniteSetTheorems, TLAPS

USE PrunerAssumption
USE DEF vars, cluster, history, prunes

(* A trigger that finds no plan takes an idle prune, and this one only.    *)
LEMMA PruneTaken ==
  ASSUME TypeOK, NEW q \in Repos, ReceiveTriggeredRepo(q), ~PruneIsPlanned(q)
  PROVE  \E j \in Prunes :
           /\ prunePc[j] = "idle" /\ prunePc'[j] = "planned" /\ pruneRepo'[j] = q
           /\ prunePc' = [prunePc EXCEPT ![j] = "planned"]
           /\ pruneRepo' = [pruneRepo EXCEPT ![j] = q]
           /\ upcomingPrune' = [upcomingPrune EXCEPT ![q] = "future"]
           /\ UNCHANGED <<pipelineRuns, stagesLeft, stage, protectedRuns, prunablePipelines,
                          prunablePipelineRuns>>
  <1> DEFINE j == CHOOSE k \in Prunes : prunePc[k] = "idle"
  <1>1. j \in Prunes /\ prunePc[j] = "idle"
    BY DEF ReceiveTriggeredRepo
  <1>2. /\ prunePc' = [prunePc EXCEPT ![j] = "planned"]
        /\ pruneRepo' = [pruneRepo EXCEPT ![j] = q]
        /\ upcomingPrune' = [upcomingPrune EXCEPT ![q] = "future"]
        /\ UNCHANGED <<pipelineRuns, stagesLeft, stage, protectedRuns, prunablePipelines,
                       prunablePipelineRuns>>
    BY DEF ReceiveTriggeredRepo
  <1> HIDE DEF j
  <1>3. prunePc'[j] = "planned" /\ pruneRepo'[j] = q
    BY <1>1, <1>2 DEF TypeOK
  <1>4. QED
    BY <1>1, <1>2, <1>3

(* What creating a run does, whichever it is.                              *)
LEMMA CreateRunEffect ==
  ASSUME NEW r \in Runs, CreateRun(r)
  PROVE  /\ created[r] = Never /\ created' = [created EXCEPT ![r] = now]
         /\ runs' = runs \cup {r} /\ pipelines' = pipelines \cup {PipelineOf[r]}
         /\ UNCHANGED <<now, upcomingPrune, history, prunes>>
  BY DEF CreateRun

-----------------------------------------------------------------------------
(* Types.                                                                  *)

(* The end of a stage keeps the types, and resets what the stage used.     *)
LEMMA AfterStageTypes ==
  ASSUME TypeOK, NEW j \in Prunes, prunePc[j] # "idle",
         NEW left \in SUBSET Stages, NEW kept \in [Stages -> SUBSET Runs],
         AfterStage(j, left, kept),
         runs' \subseteq Runs, pipelines' \subseteq Pipelines, owed' \subseteq Runs,
         UNCHANGED <<created, now, upcomingPrune, awaiting>>
  PROVE  TypeOK'
  <1>1. /\ prunePc' \in [Prunes -> {"idle", "planned", "due", "stage", "delete"}]
        /\ pruneRepo' \in [Prunes -> Repos \cup {NoRepo}]
        /\ pipelineRuns' \in [Prunes -> SUBSET Runs]
    BY DEF AfterStage, TypeOK
  <1>2. /\ stagesLeft' \in [Prunes -> SUBSET Stages]
        /\ stage' \in [Prunes -> Stages \cup {NoStage}]
        /\ prunablePipelines' \in [Prunes -> SUBSET Pipelines]
        /\ prunablePipelineRuns' \in [Prunes -> SUBSET Runs]
    BY DEF AfterStage, TypeOK
  <1>7. protectedRuns' \in [Prunes -> [Stages -> SUBSET Runs]]
    <2>1. NoRuns \in [Stages -> SUBSET Runs]
      BY DEF NoRuns
    <2>2. protectedRuns' = [protectedRuns EXCEPT ![j] = IF left = {} THEN NoRuns ELSE kept]
      BY DEF AfterStage
    <2>3. QED
      BY <2>1, <2>2 DEF TypeOK
  <1>3. /\ prunablePipelines'[j] = {} /\ prunablePipelineRuns'[j] = {}
        /\ stagesLeft'[j] = left
        /\ \/ left = {} /\ prunePc'[j] = "idle" /\ pruneRepo'[j] = NoRepo
           \/ left # {} /\ prunePc'[j] = "stage" /\ pruneRepo'[j] = pruneRepo[j]
    BY DEF AfterStage, TypeOK
  <1>4. ASSUME NEW k \in Prunes, k # j
        PROVE  /\ prunePc'[k] = prunePc[k] /\ pruneRepo'[k] = pruneRepo[k]
               /\ stagesLeft'[k] = stagesLeft[k]
               /\ prunablePipelines'[k] = prunablePipelines[k]
               /\ prunablePipelineRuns'[k] = prunablePipelineRuns[k]
    BY <1>4 DEF AfterStage, TypeOK
  <1>5. \A k \in Prunes :
          /\ prunePc'[k] = "idle" <=> pruneRepo'[k] = NoRepo
          /\ prunePc'[k] = "stage" => stagesLeft'[k] # {}
          /\ prunePc'[k] = "delete" <=> prunablePipelines'[k] # {} \/ prunablePipelineRuns'[k] # {}
    <2>1. ASSUME NEW k \in Prunes, k = j
          PROVE  /\ prunePc'[k] = "idle" <=> pruneRepo'[k] = NoRepo
                 /\ prunePc'[k] = "stage" => stagesLeft'[k] # {}
                 /\ prunePc'[k] = "delete" <=>
                      prunablePipelines'[k] # {} \/ prunablePipelineRuns'[k] # {}
      BY <1>3, <2>1 DEF TypeOK
    <2>2. ASSUME NEW k \in Prunes, k # j
          PROVE  /\ prunePc'[k] = "idle" <=> pruneRepo'[k] = NoRepo
                 /\ prunePc'[k] = "stage" => stagesLeft'[k] # {}
                 /\ prunePc'[k] = "delete" <=>
                      prunablePipelines'[k] # {} \/ prunablePipelineRuns'[k] # {}
      BY <1>4, <2>2 DEF TypeOK
    <2>3. QED
      BY <2>1, <2>2
  <1>6. QED
    BY <1>1, <1>2, <1>5, <1>7 DEF TypeOK

LEMMA TypeStep ==
  ASSUME TypeOK, [Next]_vars
  PROVE  TypeOK'
  <1>1. ASSUME NEW q \in Repos, ReceiveTriggeredRepo(q)
        PROVE  TypeOK'
    <2>1. awaiting' \subseteq Repos /\ owed' \subseteq Runs /\ UNCHANGED cluster
      BY <1>1 DEF ReceiveTriggeredRepo, TypeOK
    <2>2. CASE PruneIsPlanned(q)
      <3>1. UNCHANGED <<upcomingPrune, prunes>>
        BY <1>1, <2>2 DEF ReceiveTriggeredRepo
      <3>2. QED
        BY <2>1, <3>1 DEF TypeOK
    <2>3. CASE ~PruneIsPlanned(q)
      <3>1. PICK j \in Prunes :
              /\ prunePc[j] = "idle"
              /\ prunePc' = [prunePc EXCEPT ![j] = "planned"]
              /\ pruneRepo' = [pruneRepo EXCEPT ![j] = q]
              /\ upcomingPrune' = [upcomingPrune EXCEPT ![q] = "future"]
              /\ UNCHANGED <<pipelineRuns, stagesLeft, stage, protectedRuns, prunablePipelines,
                             prunablePipelineRuns>>
        BY <1>1, <2>3, PruneTaken
      <3>2. /\ prunePc' \in [Prunes -> {"idle", "planned", "due", "stage", "delete"}]
            /\ pruneRepo' \in [Prunes -> Repos \cup {NoRepo}]
            /\ upcomingPrune' \in [Repos -> {"none", "future", "past"}]
        BY <3>1 DEF TypeOK
      <3>3. prunePc'[j] = "planned" /\ pruneRepo'[j] # NoRepo /\ prunePc[j] # "delete"
        BY <3>1 DEF TypeOK
      <3>4. \A k \in Prunes : k # j => prunePc'[k] = prunePc[k] /\ pruneRepo'[k] = pruneRepo[k]
        BY <3>1 DEF TypeOK
      <3>5. \A k \in Prunes :
              /\ prunePc'[k] = "idle" <=> pruneRepo'[k] = NoRepo
              /\ prunePc'[k] = "stage" => stagesLeft'[k] # {}
              /\ prunePc'[k] = "delete" <=>
                   prunablePipelines'[k] # {} \/ prunablePipelineRuns'[k] # {}
        BY <3>1, <3>3, <3>4 DEF TypeOK
      <3>6. QED
        BY <2>1, <3>1, <3>2, <3>5 DEF TypeOK
    <2>4. QED
      BY <2>2, <2>3
  <1>2. ASSUME NEW j \in Prunes, PruneFallsDue(j)
        PROVE  TypeOK'
    BY <1>2 DEF PruneFallsDue, TypeOK
  <1>3. ASSUME NEW j \in Prunes, ListForPrune(j)
        PROVE  TypeOK'
    <2>1. /\ prunePc[j] = "due" /\ UNCHANGED <<cluster, upcomingPrune>>
          /\ awaiting' \subseteq Repos /\ owed' \subseteq Runs
      BY <1>3 DEF ListForPrune, TypeOK
    <2>2. CASE /\ prunePc' = [prunePc EXCEPT ![j] = "stage"]
               /\ pipelineRuns' = [pipelineRuns EXCEPT ![j] = {r \in runs : RepoOf[r] = pruneRepo[j]}]
               /\ stagesLeft' = [stagesLeft EXCEPT ![j] = Stages]
               /\ UNCHANGED <<pruneRepo, stage, protectedRuns, prunablePipelines,
                              prunablePipelineRuns>>
      BY <2>1, <2>2 DEF TypeOK
    <2>3. CASE /\ prunePc' = [prunePc EXCEPT ![j] = "idle"]
               /\ pruneRepo' = [pruneRepo EXCEPT ![j] = NoRepo]
               /\ UNCHANGED <<pipelineRuns, stagesLeft, stage, protectedRuns, prunablePipelines,
                              prunablePipelineRuns>>
      BY <2>1, <2>3 DEF TypeOK
    <2>4. QED
      BY <1>3, <2>2, <2>3 DEF ListForPrune
  <1>4. ASSUME NEW j \in Prunes, FindPrunableResources(j)
        PROVE  TypeOK'
    <2>1. PICK st \in stagesLeft[j] : \E keep \in ProtectedChoices(ListedOfStage(j, st)) :
            LET kept == [protectedRuns[j] EXCEPT ![st] = keep] IN
            IF keep = ListedOfStage(j, st)
            THEN AfterStage(j, stagesLeft[j] \ {st}, kept)
            ELSE /\ prunePc' = [prunePc EXCEPT ![j] = "delete"]
                 /\ stagesLeft' = [stagesLeft EXCEPT ![j] = @ \ {st}]
                 /\ stage' = [stage EXCEPT ![j] = st]
                 /\ protectedRuns' = [protectedRuns EXCEPT ![j] = kept]
                 /\ prunablePipelines' =
                      [prunablePipelines EXCEPT ![j] = AsPipelines(ListedOfStage(j, st), keep)]
                 /\ prunablePipelineRuns' =
                      [prunablePipelineRuns EXCEPT ![j] = ByName(ListedOfStage(j, st), keep)]
                 /\ UNCHANGED <<pruneRepo, pipelineRuns>>
      BY <1>4 DEF FindPrunableResources
    <2>2. /\ prunePc[j] = "stage" /\ UNCHANGED <<cluster, upcomingPrune, history>>
          /\ st \in Stages /\ stagesLeft[j] \in SUBSET Stages
      BY <1>4 DEF FindPrunableResources, TypeOK
    <2> DEFINE rs == ListedOfStage(j, st)
    <2>3. PICK keep \in ProtectedChoices(rs) :
            \/ AfterStage(j, stagesLeft[j] \ {st}, [protectedRuns[j] EXCEPT ![st] = keep])
            \/ /\ keep # rs
               /\ prunePc' = [prunePc EXCEPT ![j] = "delete"]
               /\ stagesLeft' = [stagesLeft EXCEPT ![j] = @ \ {st}]
               /\ stage' = [stage EXCEPT ![j] = st]
               /\ protectedRuns' = [protectedRuns EXCEPT ![j] = [@ EXCEPT ![st] = keep]]
               /\ prunablePipelines' = [prunablePipelines EXCEPT ![j] = AsPipelines(rs, keep)]
               /\ prunablePipelineRuns' = [prunablePipelineRuns EXCEPT ![j] = ByName(rs, keep)]
               /\ UNCHANGED <<pruneRepo, pipelineRuns>>
      BY <2>1
    <2> DEFINE kept == [protectedRuns[j] EXCEPT ![st] = keep]
    <2>6. rs \subseteq Runs /\ keep \subseteq rs /\ kept \in [Stages -> SUBSET Runs]
      BY <2>2 DEF ProtectedChoices, ListedOfStage, TypeOK
    <2>4. CASE AfterStage(j, stagesLeft[j] \ {st}, kept)
      <3> HIDE DEF kept
      <3>1. runs' \subseteq Runs /\ pipelines' \subseteq Pipelines /\ owed' \subseteq Runs
        BY <2>2 DEF TypeOK
      <3>2. QED
        BY <2>2, <2>6, <2>4, <3>1, AfterStageTypes
    <2>5. CASE ~AfterStage(j, stagesLeft[j] \ {st}, kept)
      <3> DEFINE byPipeline == AsPipelines(rs, keep)
                 byName == ByName(rs, keep)
      <3>1. rs \subseteq Runs /\ keep \subseteq rs
        BY <2>6
      <3>2. byPipeline \subseteq Pipelines /\ byName \subseteq Runs
        BY <3>1 DEF AsPipelines, ByName
      <3>3. byPipeline # {} \/ byName # {}
        <4>1. PICK r \in rs : r \notin keep
          BY <2>3, <2>5, <3>1
        <4>2. CASE r \in byName
          BY <4>2
        <4>3. CASE r \notin byName
          <5>1. PipelineOf[r] \in byPipeline
            BY <4>1, <4>3 DEF AsPipelines
          <5>2. QED
            BY <5>1
        <4>4. QED
          BY <4>2, <4>3
      <3> HIDE DEF rs, byPipeline, byName
      <3>4. /\ prunePc' = [prunePc EXCEPT ![j] = "delete"]
            /\ stagesLeft' = [stagesLeft EXCEPT ![j] = @ \ {st}]
            /\ stage' = [stage EXCEPT ![j] = st]
            /\ protectedRuns' = [protectedRuns EXCEPT ![j] = [@ EXCEPT ![st] = keep]]
            /\ prunablePipelines' = [prunablePipelines EXCEPT ![j] = byPipeline]
            /\ prunablePipelineRuns' = [prunablePipelineRuns EXCEPT ![j] = byName]
            /\ UNCHANGED <<pruneRepo, pipelineRuns>>
        BY <2>3, <2>5 DEF rs, byPipeline, byName
      <3>5. /\ prunePc' \in [Prunes -> {"idle", "planned", "due", "stage", "delete"}]
            /\ stagesLeft' \in [Prunes -> SUBSET Stages]
            /\ stage' \in [Prunes -> Stages \cup {NoStage}]
            /\ protectedRuns' \in [Prunes -> [Stages -> SUBSET Runs]]
            /\ prunablePipelines' \in [Prunes -> SUBSET Pipelines]
            /\ prunablePipelineRuns' \in [Prunes -> SUBSET Runs]
        BY <2>2, <3>1, <3>2, <3>4 DEF TypeOK
      <3>6. /\ prunePc'[j] = "delete" /\ pruneRepo'[j] # NoRepo
            /\ prunablePipelines'[j] # {} \/ prunablePipelineRuns'[j] # {}
        BY <2>2, <3>3, <3>4 DEF TypeOK
      <3>7. ASSUME NEW k \in Prunes, k # j
            PROVE  /\ prunePc'[k] = prunePc[k] /\ stagesLeft'[k] = stagesLeft[k]
                   /\ prunablePipelines'[k] = prunablePipelines[k]
                   /\ prunablePipelineRuns'[k] = prunablePipelineRuns[k]
        BY <3>4, <3>7 DEF TypeOK
      <3>8. \A k \in Prunes :
              /\ prunePc'[k] = "idle" <=> pruneRepo'[k] = NoRepo
              /\ prunePc'[k] = "stage" => stagesLeft'[k] # {}
              /\ prunePc'[k] = "delete" <=>
                   prunablePipelines'[k] # {} \/ prunablePipelineRuns'[k] # {}
        <4>1. prunePc'[j] # "stage" /\ pruneRepo' = pruneRepo
          BY <3>4, <3>6
        <4>2. ASSUME NEW k \in Prunes, k # j
              PROVE  /\ prunePc'[k] = "idle" <=> pruneRepo'[k] = NoRepo
                     /\ prunePc'[k] = "stage" => stagesLeft'[k] # {}
                     /\ prunePc'[k] = "delete" <=>
                          prunablePipelines'[k] # {} \/ prunablePipelineRuns'[k] # {}
          BY <3>7, <4>1, <4>2 DEF TypeOK
        <4>3. QED
          BY <3>6, <4>1, <4>2
      <3>9. QED
        BY <2>2, <3>4, <3>5, <3>8 DEF TypeOK
    <2>7. QED
      BY <2>3, <2>4, <2>5
  <1>5. ASSUME NEW j \in Prunes, PrunePipeline(j)
        PROVE  TypeOK'
    <2>1. /\ prunePc[j] = "delete"
          /\ runs' \subseteq Runs /\ pipelines' \subseteq Pipelines /\ owed' \subseteq Runs
          /\ UNCHANGED <<created, now, upcomingPrune, awaiting>>
          /\ stagesLeft[j] \in SUBSET Stages /\ protectedRuns[j] \in [Stages -> SUBSET Runs]
      BY <1>5 DEF PrunePipeline, TypeOK, DeleteSucceeds, DeleteFails
    <2>2. CASE AfterStage(j, stagesLeft[j], protectedRuns[j])
      BY <2>1, <2>2, AfterStageTypes
    <2>3. CASE ~AfterStage(j, stagesLeft[j], protectedRuns[j])
      <3>1. PICK p \in prunablePipelines[j] :
              /\ prunablePipelines[j] # {p} \/ prunablePipelineRuns[j] # {}
              /\ prunablePipelines' = [prunablePipelines EXCEPT ![j] = @ \ {p}]
              /\ UNCHANGED <<prunePc, pruneRepo, pipelineRuns, stagesLeft, stage,
                             protectedRuns, prunablePipelineRuns>>
        BY <1>5, <2>3 DEF PrunePipeline
      <3>2. prunablePipelines' \in [Prunes -> SUBSET Pipelines]
        BY <3>1 DEF TypeOK
      <3>3. prunablePipelines'[j] # {} \/ prunablePipelineRuns'[j] # {}
        BY <3>1 DEF TypeOK
      <3>4. \A k \in Prunes : prunePc'[k] = "delete" <=>
                               prunablePipelines'[k] # {} \/ prunablePipelineRuns'[k] # {}
        BY <2>1, <3>1, <3>3 DEF TypeOK
      <3>5. QED
        BY <2>1, <3>1, <3>2, <3>4 DEF TypeOK
    <2>4. QED
      BY <2>2, <2>3
  <1>6. ASSUME NEW j \in Prunes, PruneRun(j)
        PROVE  TypeOK'
    <2>1. /\ prunePc[j] = "delete"
          /\ runs' \subseteq Runs /\ pipelines' \subseteq Pipelines /\ owed' \subseteq Runs
          /\ UNCHANGED <<created, now, upcomingPrune, awaiting>>
          /\ stagesLeft[j] \in SUBSET Stages /\ protectedRuns[j] \in [Stages -> SUBSET Runs]
      BY <1>6 DEF PruneRun, TypeOK, DeleteSucceeds, DeleteFails
    <2>2. CASE AfterStage(j, stagesLeft[j], protectedRuns[j])
      BY <2>1, <2>2, AfterStageTypes
    <2>3. CASE ~AfterStage(j, stagesLeft[j], protectedRuns[j])
      <3>1. PICK r \in prunablePipelineRuns[j] :
              /\ prunablePipelineRuns[j] # {r}
              /\ prunablePipelineRuns' = [prunablePipelineRuns EXCEPT ![j] = @ \ {r}]
              /\ UNCHANGED <<prunePc, pruneRepo, pipelineRuns, stagesLeft, stage,
                             protectedRuns, prunablePipelines>>
        BY <1>6, <2>3 DEF PruneRun
      <3>2. QED
        BY <2>1, <3>1 DEF TypeOK
    <2>4. QED
      BY <2>2, <2>3
  <1>7. ASSUME NEW r \in Runs, CreateRun(r)
        PROVE  TypeOK'
    <2>1. /\ created' = [created EXCEPT ![r] = now]
          /\ runs' = runs \cup {r} /\ pipelines' = pipelines \cup {PipelineOf[r]}
          /\ UNCHANGED <<now, upcomingPrune, history, prunes>>
      BY <1>7, CreateRunEffect
    <2>2. runs' \subseteq Runs /\ pipelines' \subseteq Pipelines
      BY <2>1 DEF TypeOK
    <2>3. created' \in [Runs -> Times \cup {Never}]
      BY <2>1 DEF TypeOK
    <2>4. QED
      BY <2>1, <2>2, <2>3 DEF TypeOK
  <1>8. CASE HourPasses
    <2>1. now' \in Times
      BY <1>8 DEF HourPasses, TypeOK, Times
    <2>2. QED
      BY <1>8, <2>1 DEF HourPasses, TypeOK
  <1>9. CASE UNCHANGED vars
    BY <1>9 DEF TypeOK
  <1>10. QED
    BY <1>1, <1>2, <1>3, <1>4, <1>5, <1>6, <1>7, <1>8, <1>9 DEF Next, PruneStep

(* The variables keep their types: a prune that is at work has a stage or  *)
(* something to delete left, and is idle otherwise.                        *)
THEOREM TypeCorrect == Spec => []TypeOK
  <1>1. Init => TypeOK
    BY DEF Init, TypeOK, Times, Never, NoRuns
  <1>2. QED
    BY <1>1, TypeStep, PTL DEF Spec

-----------------------------------------------------------------------------
(***************************************************************************)
(* Triggers.                                                               *)
(***************************************************************************)

(* A plan recorded in the map is that of a prune whose timer is running.   *)
PlansAreReal ==
  \A q \in Repos : upcomingPrune[q] = "future" =>
    \E j \in Prunes : prunePc[j] = "planned" /\ pruneRepo[j] = q

PrunerInv == PlansAreReal /\ TriggerCovered

LEMMA PrunerInvStep ==
  ASSUME TypeOK, PrunerInv, [Next]_vars
  PROVE  PrunerInv'
  <1> USE DEF PrunerInv
  <1>1. ASSUME NEW q \in Repos, ReceiveTriggeredRepo(q)
        PROVE  PrunerInv'
    <2>1. awaiting' = awaiting \cup {q}
      BY <1>1 DEF ReceiveTriggeredRepo
    <2>2. CASE PruneIsPlanned(q)
      BY <1>1, <2>1, <2>2 DEF ReceiveTriggeredRepo, PruneIsPlanned, PlansAreReal, TriggerCovered
    <2>3. CASE ~PruneIsPlanned(q)
      <3>1. PICK j \in Prunes :
              /\ prunePc[j] = "idle" /\ prunePc'[j] = "planned" /\ pruneRepo'[j] = q
              /\ prunePc' = [prunePc EXCEPT ![j] = "planned"]
              /\ pruneRepo' = [pruneRepo EXCEPT ![j] = q]
              /\ upcomingPrune' = [upcomingPrune EXCEPT ![q] = "future"]
        BY <1>1, <2>3, PruneTaken
      <3>2. \A k \in Prunes : k # j => prunePc'[k] = prunePc[k] /\ pruneRepo'[k] = pruneRepo[k]
        BY <3>1 DEF TypeOK
      <3>3. PlansAreReal'
        BY <3>1, <3>2 DEF TypeOK, PlansAreReal
      <3>4. TriggerCovered'
        BY <2>1, <3>1, <3>2 DEF TriggerCovered
      <3>5. QED
        BY <3>3, <3>4
    <2>4. QED
      BY <2>2, <2>3
  <1>2. ASSUME NEW j \in Prunes, PruneFallsDue(j)
        PROVE  PrunerInv'
    <2>1. pruneRepo[j] \in Repos
      BY <1>2 DEF PruneFallsDue, TypeOK
    <2>2. PlansAreReal'
      BY <1>2, <2>1 DEF PruneFallsDue, TypeOK, PlansAreReal
    <2>3. TriggerCovered'
      BY <1>2 DEF PruneFallsDue, TypeOK, TriggerCovered
    <2>4. QED
      BY <2>2, <2>3
  <1>3. ASSUME NEW j \in Prunes, ListForPrune(j)
        PROVE  PrunerInv'
    <2>1. \A k \in Prunes : k # j => prunePc'[k] = prunePc[k] /\ pruneRepo'[k] = pruneRepo[k]
      BY <1>3 DEF ListForPrune, TypeOK
    <2>2. /\ prunePc[j] = "due" /\ awaiting' = awaiting \ {pruneRepo[j]}
          /\ UNCHANGED upcomingPrune
      BY <1>3 DEF ListForPrune
    <2>3. QED
      BY <2>1, <2>2 DEF PlansAreReal, TriggerCovered
  <1>4. ASSUME NEW j \in Prunes, FindPrunableResources(j) \/ PrunePipeline(j) \/ PruneRun(j)
        PROVE  PrunerInv'
    <2>1. prunePc[j] \in {"stage", "delete"} /\ UNCHANGED <<upcomingPrune, awaiting>>
      BY <1>4 DEF FindPrunableResources, PrunePipeline, PruneRun
    <2>2. \A k \in Prunes : k # j => prunePc'[k] = prunePc[k] /\ pruneRepo'[k] = pruneRepo[k]
      BY <1>4 DEF FindPrunableResources, PrunePipeline, PruneRun, AfterStage, TypeOK
    <2>3. QED
      BY <2>1, <2>2 DEF PlansAreReal, TriggerCovered
  <1>5. CASE (\E r \in Runs : CreateRun(r)) \/ HourPasses \/ UNCHANGED vars
    BY <1>5 DEF CreateRun, HourPasses, PlansAreReal, TriggerCovered
  <1>6. QED
    BY <1>1, <1>2, <1>3, <1>4, <1>5 DEF Next, PruneStep

(* A plan lies ahead, and a trigger has a plan.                            *)
THEOREM PrunerInvariant == Spec => []PrunerInv
  <1>1. Init => PrunerInv
    BY DEF Init, PrunerInv, PlansAreReal, TriggerCovered
  <1>2. TypeOK /\ PrunerInv /\ [Next]_vars => PrunerInv'
    BY PrunerInvStep
  <1>3. QED
    BY <1>1, <1>2, TypeCorrect, PTL DEF Spec

(* A repository that was triggered and not listed since has a prune that   *)
(* will still list it: skipping triggers loses none.                       *)
THEOREM TriggersCovered == Spec => []TriggerCovered
  <1>1. PrunerInv => TriggerCovered
    BY DEF PrunerInv
  <1>2. QED
    BY <1>1, PrunerInvariant, PTL

-----------------------------------------------------------------------------
(***************************************************************************)
(* What is deleted.                                                        *)
(***************************************************************************)

(* The runs that exist are finitely many, and none is of the future.       *)
RunsKnown == IsFiniteSet(runs) /\ \A r \in runs : created[r] <= now

(* A prune has listed runs of its repository only, all created by now, and *)
(* none before it is due; what it keeps of a stage it has listed of it.    *)
ListsKnown ==
  \A j \in Prunes :
    /\ IsFiniteSet(pipelineRuns[j])
    /\ \A r \in pipelineRuns[j] : created[r] <= now
    /\ \A st \in Stages : protectedRuns[j][st] \subseteq ListedOfStage(j, st)
    /\ prunePc[j] \in {"idle", "planned", "due"} => pipelineRuns[j] = {} /\ protectedRuns[j] = NoRuns

(* What a prune has decided for its stage: enough runs are kept, the rest  *)
(* is old and not later than any kept, and only that is to be deleted.     *)
DecisionSound(j) ==
  LET rs == ListedOfStage(j, stage[j])
      keep == protectedRuns[j][stage[j]]
  IN  /\ stage[j] \in Stages
      /\ Cardinality(keep) >= MaxKeepRuns
      /\ \A r \in rs \ keep : ~Recent(r) /\ \A s \in keep : created[s] >= created[r]
      /\ prunablePipelineRuns[j] \subseteq rs \ keep
      /\ \A p \in prunablePipelines[j] :
           /\ \E r \in rs \ keep : PipelineOf[r] = p
           /\ \A r \in keep : PipelineOf[r] # p

DecisionsSound == \A j \in Prunes : prunePc[j] = "delete" => DecisionSound(j)

DecisionInv == RunsKnown /\ ListsKnown /\ DecisionsSound

(* Time passes forwards, runs keep their time of creation, and a run is    *)
(* created now.                                                            *)
LEMMA ClockStep ==
  ASSUME TypeOK, RunsKnown, [Next]_vars
  PROVE  /\ RunsKnown'
         /\ now \in Nat /\ now' \in Nat /\ now <= now'
         /\ \A r \in Runs : created[r] \in Nat /\ (created[r] <= now => created'[r] = created[r])
  <1>1. now \in Nat /\ now <= MaxTime /\ \A r \in Runs : created[r] \in Nat
    BY DEF TypeOK, Times, Never
  <1>2. ASSUME NEW r \in Runs, CreateRun(r)
        PROVE  /\ RunsKnown' /\ now' = now
               /\ \A s \in Runs : created[s] <= now => created'[s] = created[s]
    <2>1. IsFiniteSet(runs')
      BY <1>2, CreateRunEffect, FS_AddElement DEF RunsKnown
    <2>2. created[r] = MaxTime + 1 /\ now' = now
      BY <1>2, CreateRunEffect DEF Never
    <2>3. \A s \in Runs : created'[s] = IF s = r THEN now ELSE created[s]
      BY <1>2, CreateRunEffect DEF TypeOK
    <2>4. \A s \in runs' : created'[s] <= now'
      <3>1. runs' = runs \cup {r} /\ runs \subseteq Runs
        BY <1>2, CreateRunEffect DEF TypeOK
      <3>2. QED
        BY <1>1, <2>2, <2>3, <3>1 DEF RunsKnown
    <2>5. \A s \in Runs : created[s] <= now => created'[s] = created[s]
      BY <1>1, <2>2, <2>3
    <2>6. QED
      BY <2>1, <2>2, <2>4, <2>5 DEF RunsKnown
  <1>3. ASSUME runs' \subseteq runs, created' = created, now' \in {now, now + 1}
        PROVE  RunsKnown' /\ now <= now'
    <2>1. IsFiniteSet(runs')
      BY <1>3, FS_Subset DEF RunsKnown
    <2>2. now <= now' /\ \A r \in runs' : created'[r] <= now'
      BY <1>1, <1>3 DEF RunsKnown, TypeOK
    <2>3. QED
      BY <2>1, <2>2 DEF RunsKnown
  <1>4. ASSUME \A r \in Runs : ~CreateRun(r)
        PROVE  runs' \subseteq runs /\ created' = created /\ now' \in {now, now + 1}
    <2>1. CASE HourPasses
      BY <2>1 DEF HourPasses
    <2>2. CASE UNCHANGED vars
      BY <2>2
    <2>3. CASE \E q \in Repos : ReceiveTriggeredRepo(q)
      BY <2>3 DEF ReceiveTriggeredRepo
    <2>4. CASE \E j \in Prunes : PruneFallsDue(j) \/ ListForPrune(j) \/ FindPrunableResources(j)
      BY <2>4 DEF PruneFallsDue, ListForPrune, FindPrunableResources
    <2>5. CASE \E j \in Prunes : PrunePipeline(j) \/ PruneRun(j)
      <3>1. PICK j \in Prunes : PrunePipeline(j) \/ PruneRun(j)
        BY <2>5
      <3>2. CASE PrunePipeline(j)
        BY <3>2 DEF PrunePipeline, DeleteFails
      <3>3. CASE PruneRun(j)
        BY <3>3 DEF PruneRun, DeleteFails
      <3>4. QED
        BY <3>1, <3>2, <3>3
    <2>6. QED
      BY <1>4, <2>1, <2>2, <2>3, <2>4, <2>5 DEF Next, PruneStep
  <1>5. CASE \E r \in Runs : CreateRun(r)
    BY <1>1, <1>2, <1>5
  <1>6. CASE \A r \in Runs : ~CreateRun(r)
    BY <1>1, <1>3, <1>4, <1>6
  <1>7. QED
    BY <1>5, <1>6

Unlisted == {"idle", "planned", "due"}

(* The prune keeps its list, and what it has kept of the stages so far.    *)
SameList(j) ==
  /\ pipelineRuns'[j] = pipelineRuns[j]
  /\ \A st \in Stages : \/ protectedRuns'[j][st] = protectedRuns[j][st]
                         \/ protectedRuns'[j][st] \subseteq ListedOfStage(j, st)
  /\ prunePc'[j] \in Unlisted => prunePc[j] \in Unlisted /\ protectedRuns'[j] = protectedRuns[j]

(* What it is still to delete of its stage shrinks.                        *)
SameDecision(j) ==
  /\ prunePc[j] = "delete"
  /\ stage'[j] = stage[j] /\ protectedRuns'[j] = protectedRuns[j]
  /\ prunablePipelines'[j] \subseteq prunablePipelines[j]
  /\ prunablePipelineRuns'[j] \subseteq prunablePipelineRuns[j]

(* It decides about a stage of which not everything is to be kept.         *)
NewDecision(j) ==
  LET rs == ListedOfStage(j, stage'[j])
      keep == protectedRuns'[j][stage'[j]]
  IN  /\ stage'[j] \in Stages
      /\ keep \in ProtectedChoices(rs)
      /\ keep # rs
      /\ prunablePipelines'[j] = AsPipelines(rs, keep)
      /\ prunablePipelineRuns'[j] = ByName(rs, keep)

(* The three ways a step leaves a prune.                                   *)
Moved(j) ==
  \/ /\ SameList(j)
     /\ prunePc'[j] = "delete" => SameDecision(j) \/ (NewDecision(j) /\ now' = now)
  \/ pipelineRuns'[j] = {} /\ protectedRuns'[j] = NoRuns /\ prunePc'[j] # "delete"
  \/ /\ pipelineRuns'[j] = {r \in runs : RepoOf[r] = pruneRepo[j]}
     /\ protectedRuns'[j] = NoRuns /\ prunePc'[j] = "stage"

LEMMA AfterStageMoves ==
  ASSUME TypeOK, NEW j \in Prunes, NEW left, NEW kept \in [Stages -> SUBSET Runs],
         AfterStage(j, left, kept), prunePc[j] \notin Unlisted,
         \A st \in Stages : \/ kept[st] = protectedRuns[j][st]
                            \/ kept[st] \subseteq ListedOfStage(j, st)
  PROVE  \A k \in Prunes : Moved(k)
  <1>1. ASSUME NEW k \in Prunes, k # j
        PROVE  SameList(k) /\ (prunePc'[k] = "delete" => SameDecision(k))
    BY <1>1 DEF AfterStage, TypeOK, SameList, SameDecision
  <1>2. \/ prunePc'[j] = "stage" /\ SameList(j)
        \/ prunePc'[j] = "idle" /\ pipelineRuns'[j] = {} /\ protectedRuns'[j] = NoRuns
    BY DEF AfterStage, TypeOK, SameList, Unlisted
  <1>3. QED
    BY <1>1, <1>2 DEF Moved

LEMMA PrunesMove ==
  ASSUME TypeOK, ListsKnown, [Next]_vars
  PROVE  \A k \in Prunes : Moved(k)
  <1>1. ASSUME prunePc' = prunePc, pipelineRuns' = pipelineRuns,
               stage' = stage, protectedRuns' = protectedRuns,
               prunablePipelines' = prunablePipelines,
               prunablePipelineRuns' = prunablePipelineRuns
        PROVE  \A k \in Prunes : Moved(k)
    BY <1>1 DEF Moved, SameList, SameDecision
  <1>2. CASE (\E r \in Runs : CreateRun(r)) \/ HourPasses \/ UNCHANGED vars
    BY <1>1, <1>2 DEF CreateRun, HourPasses
  <1>3. ASSUME NEW q \in Repos, ReceiveTriggeredRepo(q)
        PROVE  \A k \in Prunes : Moved(k)
    <2>1. CASE PruneIsPlanned(q)
      BY <1>1, <1>3, <2>1 DEF ReceiveTriggeredRepo
    <2>2. CASE ~PruneIsPlanned(q)
      <3>1. PICK j \in Prunes :
              /\ prunePc[j] = "idle" /\ prunePc'[j] = "planned"
              /\ prunePc' = [prunePc EXCEPT ![j] = "planned"]
              /\ UNCHANGED <<pipelineRuns, stagesLeft, stage, protectedRuns, prunablePipelines,
                             prunablePipelineRuns>>
        BY <1>3, <2>2, PruneTaken
      <3>2. \A k \in Prunes : k # j => prunePc'[k] = prunePc[k]
        BY <3>1 DEF TypeOK
      <3>3. QED
        BY <3>1, <3>2 DEF Moved, SameList, SameDecision, Unlisted
    <2>3. QED
      BY <2>1, <2>2
  <1>4. ASSUME NEW j \in Prunes, PruneFallsDue(j)
        PROVE  \A k \in Prunes : Moved(k)
    <2>1. /\ prunePc[j] = "planned" /\ prunePc' = [prunePc EXCEPT ![j] = "due"]
          /\ UNCHANGED <<pruneRepo, pipelineRuns, stage, protectedRuns, prunablePipelines,
                         prunablePipelineRuns>>
      BY <1>4 DEF PruneFallsDue
    <2>2. QED
      BY <2>1 DEF TypeOK, Moved, SameList, SameDecision, Unlisted
  <1>5. ASSUME NEW j \in Prunes, ListForPrune(j)
        PROVE  \A k \in Prunes : Moved(k)
    <2>1. /\ prunePc[j] = "due"
          /\ UNCHANGED <<stage, protectedRuns, prunablePipelines, prunablePipelineRuns>>
      BY <1>5 DEF ListForPrune
    <2>2. protectedRuns'[j] = NoRuns
      BY <2>1 DEF ListsKnown
    <2>3. CASE /\ prunePc' = [prunePc EXCEPT ![j] = "stage"]
               /\ pipelineRuns' = [pipelineRuns EXCEPT ![j] = {r \in runs : RepoOf[r] = pruneRepo[j]}]
      BY <2>1, <2>2, <2>3 DEF TypeOK, Moved, SameList, SameDecision
    <2>4. CASE prunePc' = [prunePc EXCEPT ![j] = "idle"] /\ UNCHANGED pipelineRuns
      BY <2>1, <2>4 DEF TypeOK, Moved, SameList, SameDecision, Unlisted
    <2>5. QED
      BY <1>5, <2>3, <2>4 DEF ListForPrune
  <1>6. ASSUME NEW j \in Prunes, FindPrunableResources(j)
        PROVE  \A k \in Prunes : Moved(k)
    <2>1. prunePc[j] = "stage" /\ now' = now
      BY <1>6 DEF FindPrunableResources
    <2>2. PICK st \in stagesLeft[j] : \E keep \in ProtectedChoices(ListedOfStage(j, st)) :
            LET kept == [protectedRuns[j] EXCEPT ![st] = keep] IN
            IF keep = ListedOfStage(j, st)
            THEN AfterStage(j, stagesLeft[j] \ {st}, kept)
            ELSE /\ prunePc' = [prunePc EXCEPT ![j] = "delete"]
                 /\ stage' = [stage EXCEPT ![j] = st]
                 /\ protectedRuns' = [protectedRuns EXCEPT ![j] = kept]
                 /\ prunablePipelines' =
                      [prunablePipelines EXCEPT ![j] = AsPipelines(ListedOfStage(j, st), keep)]
                 /\ prunablePipelineRuns' =
                      [prunablePipelineRuns EXCEPT ![j] = ByName(ListedOfStage(j, st), keep)]
                 /\ UNCHANGED pipelineRuns
      BY <1>6 DEF FindPrunableResources
    <2> DEFINE rs == ListedOfStage(j, st)
    <2>3. PICK keep \in ProtectedChoices(rs) :
            LET kept == [protectedRuns[j] EXCEPT ![st] = keep] IN
            IF keep = rs
            THEN AfterStage(j, stagesLeft[j] \ {st}, kept)
            ELSE /\ prunePc' = [prunePc EXCEPT ![j] = "delete"]
                 /\ stage' = [stage EXCEPT ![j] = st]
                 /\ protectedRuns' = [protectedRuns EXCEPT ![j] = kept]
                 /\ prunablePipelines' = [prunablePipelines EXCEPT ![j] = AsPipelines(rs, keep)]
                 /\ prunablePipelineRuns' = [prunablePipelineRuns EXCEPT ![j] = ByName(rs, keep)]
                 /\ UNCHANGED pipelineRuns
      BY <2>2
    <2> DEFINE kept == [protectedRuns[j] EXCEPT ![st] = keep]
    <2>4. st \in Stages /\ keep \subseteq rs /\ rs \subseteq Runs
      BY DEF TypeOK, ProtectedChoices, ListedOfStage
    <2>5. /\ kept \in [Stages -> SUBSET Runs] /\ kept[st] = keep
          /\ \A s \in Stages : kept[s] = protectedRuns[j][s] \/ kept[s] \subseteq ListedOfStage(j, s)
      BY <2>4 DEF TypeOK
    <2>6. CASE AfterStage(j, stagesLeft[j] \ {st}, kept)
      <3> HIDE DEF kept
      <3>1. prunePc[j] \notin Unlisted
        BY <2>1 DEF Unlisted
      <3>2. QED
        BY <2>5, <2>6, <3>1, AfterStageMoves
    <2>7. CASE ~AfterStage(j, stagesLeft[j] \ {st}, kept)
      <3> HIDE DEF kept
      <3>1. /\ keep # rs
            /\ prunePc' = [prunePc EXCEPT ![j] = "delete"]
            /\ stage' = [stage EXCEPT ![j] = st]
            /\ protectedRuns' = [protectedRuns EXCEPT ![j] = kept]
            /\ prunablePipelines' = [prunablePipelines EXCEPT ![j] = AsPipelines(rs, keep)]
            /\ prunablePipelineRuns' = [prunablePipelineRuns EXCEPT ![j] = ByName(rs, keep)]
            /\ UNCHANGED pipelineRuns
        BY <2>3, <2>7 DEF kept
      <3>2. stage'[j] = st /\ protectedRuns'[j] = kept /\ prunePc'[j] = "delete"
        BY <3>1 DEF TypeOK
      <3>3. NewDecision(j)
        BY <2>4, <2>5, <3>1, <3>2 DEF TypeOK, NewDecision
      <3>4. SameList(j)
        BY <2>5, <3>1, <3>2 DEF SameList, Unlisted
      <3>5. ASSUME NEW k \in Prunes, k # j
            PROVE  SameList(k) /\ (prunePc'[k] = "delete" => SameDecision(k))
        BY <3>1, <3>5 DEF TypeOK, SameList, SameDecision
      <3>6. QED
        BY <2>1, <3>3, <3>4, <3>5 DEF Moved
    <2>8. QED
      BY <2>6, <2>7
  <1>7. ASSUME NEW j \in Prunes, PrunePipeline(j) \/ PruneRun(j)
        PROVE  \A k \in Prunes : Moved(k)
    <2>1. prunePc[j] = "delete" /\ protectedRuns[j] \in [Stages -> SUBSET Runs]
      BY <1>7 DEF PrunePipeline, PruneRun, TypeOK
    <2>2. CASE AfterStage(j, stagesLeft[j], protectedRuns[j])
      BY <2>1, <2>2, AfterStageMoves DEF Unlisted
    <2>3. CASE ~AfterStage(j, stagesLeft[j], protectedRuns[j])
      <3>1. /\ UNCHANGED <<prunePc, pruneRepo, pipelineRuns, stage, protectedRuns>>
            /\ \A k \in Prunes : /\ prunablePipelines'[k] \subseteq prunablePipelines[k]
                                 /\ prunablePipelineRuns'[k] \subseteq prunablePipelineRuns[k]
        <4>1. CASE PrunePipeline(j)
          <5>1. PICK p \in prunablePipelines[j] :
                  prunablePipelines' = [prunablePipelines EXCEPT ![j] = @ \ {p}]
            BY <2>3, <4>1 DEF PrunePipeline
          <5>2. UNCHANGED <<prunePc, pruneRepo, pipelineRuns, stage, protectedRuns,
                            prunablePipelineRuns>>
            BY <2>3, <4>1 DEF PrunePipeline
          <5>3. QED
            BY <5>1, <5>2 DEF TypeOK
        <4>2. CASE PruneRun(j)
          <5>1. PICK r \in prunablePipelineRuns[j] :
                  prunablePipelineRuns' = [prunablePipelineRuns EXCEPT ![j] = @ \ {r}]
            BY <2>3, <4>2 DEF PruneRun
          <5>2. UNCHANGED <<prunePc, pruneRepo, pipelineRuns, stage, protectedRuns,
                            prunablePipelines>>
            BY <2>3, <4>2 DEF PruneRun
          <5>3. QED
            BY <5>1, <5>2 DEF TypeOK
        <4>3. QED
          BY <1>7, <4>1, <4>2
      <3>2. QED
        BY <3>1 DEF Moved, SameList, SameDecision
    <2>4. QED
      BY <2>2, <2>3
  <1>8. QED
    BY <1>2, <1>3, <1>4, <1>5, <1>6, <1>7 DEF Next, PruneStep

(* What is not kept of a stage is deleted with something of that stage,    *)
(* and with no pipeline of what is kept.                                   *)
LEMMA ChoiceSound ==
  ASSUME NEW rs, NEW keep \in ProtectedChoices(rs), keep # rs
  PROVE  /\ Cardinality(keep) >= MaxKeepRuns
         /\ \A r \in rs \ keep : ~Recent(r) /\ \A s \in keep : created[s] >= created[r]
         /\ ByName(rs, keep) \subseteq rs \ keep
         /\ \A p \in AsPipelines(rs, keep) : /\ \E r \in rs \ keep : PipelineOf[r] = p
                                            /\ \A r \in keep : PipelineOf[r] # p
  <1>1. /\ keep \subseteq rs /\ Cardinality(keep) >= MaxKeepRuns
        /\ \A r \in rs \ keep : ~Recent(r) /\ \A s \in keep : created[s] >= created[r]
    BY DEF ProtectedChoices
  <1>2. ByName(rs, keep) \subseteq rs \ keep
    BY DEF ByName
  <1>3. \A p \in AsPipelines(rs, keep) : /\ \E r \in rs \ keep : PipelineOf[r] = p
                                        /\ \A r \in keep : PipelineOf[r] # p
    BY DEF AsPipelines, ByName, PipelineIsProtected
  <1>4. QED
    BY <1>1, <1>2, <1>3

LEMMA DecisionInvStep ==
  ASSUME TypeOK, DecisionInv, TypeOK', [Next]_vars
  PROVE  DecisionInv'
  <1> USE DEF DecisionInv
  <1>1. /\ RunsKnown' /\ now \in Nat /\ now' \in Nat /\ now <= now'
        /\ \A r \in Runs : created[r] \in Nat /\ (created[r] <= now => created'[r] = created[r])
    BY ClockStep
  <1>2. \A j \in Prunes : Moved(j)
    BY PrunesMove
  <1>3. runs \subseteq Runs /\ \A j \in Prunes : pipelineRuns[j] \subseteq Runs
    BY DEF TypeOK
  <1>4. ASSUME NEW j \in Prunes
        PROVE  /\ IsFiniteSet(pipelineRuns'[j])
               /\ \A r \in pipelineRuns'[j] : created'[r] <= now'
               /\ \A st \in Stages : protectedRuns'[j][st] \subseteq ListedOfStage(j, st)'
               /\ prunePc'[j] \in Unlisted => pipelineRuns'[j] = {} /\ protectedRuns'[j] = NoRuns
    <2>1. CASE SameList(j)
      <3>1. \A r \in pipelineRuns[j] : created[r] <= now /\ created[r] \in Nat /\ r \in Runs
        BY <1>1, <1>3 DEF ListsKnown
      <3>2. \A r \in pipelineRuns[j] : created'[r] <= now'
        BY <1>1, <3>1
      <3>3. \A st \in Stages : protectedRuns'[j][st] \subseteq ListedOfStage(j, st)'
        BY <2>1 DEF SameList, ListsKnown, ListedOfStage
      <3>4. QED
        BY <2>1, <3>2, <3>3 DEF SameList, ListsKnown, Unlisted
    <2>2. CASE pipelineRuns'[j] = {} /\ protectedRuns'[j] = NoRuns
      BY <2>2, FS_EmptySet DEF NoRuns
    <2>3. CASE /\ pipelineRuns'[j] = {r \in runs : RepoOf[r] = pruneRepo[j]}
               /\ protectedRuns'[j] = NoRuns /\ prunePc'[j] = "stage"
      <3>1. IsFiniteSet(pipelineRuns'[j])
        BY <2>3, FS_Subset DEF RunsKnown
      <3>2. \A r \in runs : created'[r] <= now'
        BY <1>1, <1>3 DEF RunsKnown
      <3>3. QED
        BY <2>3, <3>1, <3>2 DEF Unlisted, NoRuns
    <2>4. QED
      BY <1>2, <2>1, <2>2, <2>3 DEF Moved
  <1>5. ListsKnown'
    BY <1>4 DEF ListsKnown, Unlisted
  <1>6. ASSUME NEW j \in Prunes, prunePc'[j] = "delete"
        PROVE  DecisionSound(j)'
    <2> DEFINE rs == ListedOfStage(j, stage'[j])
               keep == protectedRuns'[j][stage'[j]]
    <2>1. SameList(j) /\ (SameDecision(j) \/ (NewDecision(j) /\ now' = now))
      BY <1>2, <1>6 DEF Moved
    <2>2. rs \subseteq pipelineRuns[j] /\ \A r \in rs : created'[r] = created[r]
      BY <1>1, <1>3 DEF ListedOfStage, ListsKnown
    <2>3. ListedOfStage(j, stage[j])' = rs
      BY <2>1 DEF SameList, ListedOfStage
    <2>4. /\ stage'[j] \in Stages
          /\ Cardinality(keep) >= MaxKeepRuns
          /\ \A r \in rs \ keep : ~Recent(r) /\ \A s \in keep : created[s] >= created[r]
          /\ prunablePipelineRuns'[j] \subseteq rs \ keep
          /\ \A p \in prunablePipelines'[j] : /\ \E r \in rs \ keep : PipelineOf[r] = p
                                             /\ \A r \in keep : PipelineOf[r] # p
      <3>1. CASE SameDecision(j)
        BY <3>1 DEF SameDecision, DecisionsSound, DecisionSound
      <3>2. CASE NewDecision(j)
        BY <3>2, ChoiceSound DEF NewDecision
      <3>3. QED
        BY <2>1, <3>1, <3>2
    <2>5. keep \subseteq rs
      BY <1>4, <2>3, <2>4 DEF ListsKnown
    <2>6. \A r \in rs \ keep : ~Recent(r)'
      BY <1>1, <1>3, <2>2, <2>4 DEF Recent
    <2>7. \A r \in rs \ keep : \A s \in keep : created'[s] >= created'[r]
      BY <2>2, <2>4, <2>5
    <2> HIDE DEF rs, keep
    <2>8. QED
      BY <2>3, <2>4, <2>6, <2>7 DEF DecisionSound, keep
  <1>7. DecisionsSound'
    BY <1>6 DEF DecisionsSound
  <1>8. QED
    BY <1>1, <1>5, <1>7

(* Whatever happens between the list of a prune and its deletes, which     *)
(* are one call each: what it is about to delete was right to delete by    *)
(* that list, and still is, since runs and the clock only move on.         *)
THEOREM DecisionInvariant == Spec => []DecisionInv
  <1>1. Init => DecisionInv
    BY FS_EmptySet DEF Init, RunsKnown, ListsKnown, DecisionsSound, DecisionInv, NoRuns
  <1>2. TypeOK /\ DecisionInv /\ TypeOK' /\ [Next]_vars => DecisionInv'
    BY DecisionInvStep
  <1>3. QED
    BY <1>1, <1>2, TypeCorrect, PTL DEF Spec

(* What a step deletes for a prune is a run to be deleted by name, or a    *)
(* pipeline to be deleted and what depends on it.                          *)
LEMMA DeletedIsPrunable ==
  ASSUME TypeOK, [Next]_vars, NEW j \in Prunes, NEW r \in Runs, Deletes(j, r)
  PROVE  /\ prunePc[j] = "delete"
         /\ r \in prunablePipelineRuns[j] \/ PipelineOf[r] \in prunablePipelines[j]
  <1>1. r \in runs \ runs' \/ PipelineOf[r] \in pipelines \ pipelines'
    BY DEF Deletes
  <1>2. PICK k \in Prunes : PrunePipeline(k) \/ PruneRun(k)
    BY <1>1 DEF Next, PruneStep, ReceiveTriggeredRepo, PruneFallsDue, ListForPrune,
                FindPrunableResources, CreateRun, HourPasses
  <1>3. CASE k = j
    <2>1. CASE PrunePipeline(j)
      BY <1>1, <2>1 DEF PrunePipeline, DeleteFails, Dependents
    <2>2. CASE PruneRun(j)
      BY <1>1, <2>2 DEF PruneRun, DeleteFails
    <2>3. QED
      BY <1>2, <1>3, <2>1, <2>2
  <1>4. CASE k # j
    <2>1. /\ prunablePipelines'[j] = prunablePipelines[j]
          /\ prunablePipelineRuns'[j] = prunablePipelineRuns[j]
      BY <1>2, <1>4 DEF PrunePipeline, PruneRun, AfterStage, TypeOK
    <2>2. QED
      BY <2>1 DEF Deletes
  <1>5. QED
    BY <1>3, <1>4

(* A listed run that a step deletes for a prune, not of a pipeline of two  *)
(* stages, is of the stage looked at and not kept.                         *)
LEMMA DeletedIsOfStage ==
  ASSUME TypeOK, DecisionInv, [Next]_vars, NEW j \in Prunes, NEW r \in pipelineRuns[j],
         Deletes(j, r), ~OfTwoStages(j, PipelineOf[r])
  PROVE  /\ DecisionSound(j)
         /\ r \in ListedOfStage(j, stage[j]) \ protectedRuns[j][stage[j]]
  <1>1. r \in Runs
    BY DEF TypeOK
  <1>2. /\ prunePc[j] = "delete"
        /\ r \in prunablePipelineRuns[j] \/ PipelineOf[r] \in prunablePipelines[j]
    BY <1>1, DeletedIsPrunable
  <1>3. DecisionSound(j)
    BY <1>2 DEF DecisionInv, DecisionsSound
  <1>4. CASE r \in prunablePipelineRuns[j]
    BY <1>3, <1>4 DEF DecisionSound
  <1>5. CASE PipelineOf[r] \in prunablePipelines[j]
    <2>1. PICK s \in ListedOfStage(j, stage[j]) : PipelineOf[s] = PipelineOf[r]
      BY <1>3, <1>5 DEF DecisionSound
    <2>2. StageOf[r] = stage[j]
      BY <2>1 DEF ListedOfStage, OfTwoStages
    <2>3. r \notin protectedRuns[j][stage[j]]
      BY <1>3, <1>5 DEF DecisionSound
    <2>4. QED
      BY <1>3, <2>2, <2>3 DEF ListedOfStage
  <1>6. QED
    BY <1>2, <1>4, <1>5

(* What a prune keeps in one stage it deletes in no stage, by name or with *)
(* the pipeline, unless it has listed runs of two stages of that pipeline. *)
THEOREM ProtectedKept == Spec => KeptUnlessMoved
  <1> DEFINE Survive == \A j \in Prunes, st \in Stages : \A r \in protectedRuns[j][st] :
                          Deletes(j, r) => OfTwoStages(j, PipelineOf[r])
  <1>1. TypeOK /\ DecisionInv /\ [Next]_vars => [Survive]_vars
    <2> SUFFICES ASSUME TypeOK, DecisionInv, [Next]_vars, NEW j \in Prunes, NEW st \in Stages,
                        NEW r \in protectedRuns[j][st], Deletes(j, r),
                        ~OfTwoStages(j, PipelineOf[r])
                 PROVE  FALSE
      OBVIOUS
    <2>1. r \in pipelineRuns[j] /\ StageOf[r] = st
      BY DEF DecisionInv, ListsKnown, ListedOfStage
    <2>2. r \in ListedOfStage(j, stage[j]) \ protectedRuns[j][stage[j]]
      BY <2>1, DeletedIsOfStage
    <2>3. QED
      BY <2>1, <2>2 DEF ListedOfStage
  <1>2. QED
    BY <1>1, TypeCorrect, DecisionInvariant, PTL DEF Spec, KeptUnlessMoved

(* A run that a prune deletes, or whose pipeline it deletes, is neither    *)
(* recent nor among the latest MaxKeepRuns of those listed of its stage,   *)
(* unless runs of two stages were listed of its pipeline.                  *)
THEOREM OnlyOldRunsDeleted == Spec => OnlyOldRunsGo
  <1> DEFINE Old == \A j \in Prunes : \A r \in pipelineRuns[j] :
                      Deletes(j, r) /\ ~OfTwoStages(j, PipelineOf[r]) =>
                        /\ ~Recent(r)
                        /\ Cardinality({s \in pipelineRuns[j] \ {r} :
                             StageOf[s] = StageOf[r] /\ created[s] >= created[r]}) >= MaxKeepRuns
  <1>1. TypeOK /\ DecisionInv /\ [Next]_vars => [Old]_vars
    <2> SUFFICES ASSUME TypeOK, DecisionInv, [Next]_vars, NEW j \in Prunes,
                        NEW r \in pipelineRuns[j], Deletes(j, r),
                        ~OfTwoStages(j, PipelineOf[r])
                 PROVE  /\ ~Recent(r)
                        /\ Cardinality({s \in pipelineRuns[j] \ {r} :
                             StageOf[s] = StageOf[r] /\ created[s] >= created[r]}) >= MaxKeepRuns
      OBVIOUS
    <2> DEFINE later == {s \in pipelineRuns[j] \ {r} :
                           StageOf[s] = StageOf[r] /\ created[s] >= created[r]}
               keep == protectedRuns[j][stage[j]]
    <2>1. DecisionSound(j) /\ r \in ListedOfStage(j, stage[j]) \ keep
      BY DeletedIsOfStage
    <2>2. ~Recent(r) /\ \A s \in keep : created[s] >= created[r]
      BY <2>1 DEF DecisionSound
    <2>3. keep \subseteq ListedOfStage(j, stage[j])
      BY <2>1 DEF DecisionInv, ListsKnown, DecisionSound
    <2>4. keep \subseteq later
      BY <2>1, <2>2, <2>3 DEF ListedOfStage
    <2>5. IsFiniteSet(later)
      BY FS_Subset DEF DecisionInv, ListsKnown
    <2>6. Cardinality(keep) >= MaxKeepRuns
      BY <2>1 DEF DecisionSound
    <2> HIDE DEF later, keep
    <2>7. Cardinality(keep) <= Cardinality(later)
          /\ Cardinality(keep) \in Nat /\ Cardinality(later) \in Nat
      BY <2>4, <2>5, FS_Subset, FS_CardinalityType
    <2>8. Cardinality(later) >= MaxKeepRuns
      BY <2>6, <2>7
    <2>9. QED
      BY <2>2, <2>8 DEF later
  <1>2. QED
    BY <1>1, TypeCorrect, DecisionInvariant, PTL DEF Spec, OnlyOldRunsGo

=============================================================================
