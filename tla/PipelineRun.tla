----------------------------- MODULE PipelineRun -----------------------------
(***************************************************************************)
(* The runs of the pipelines of all repositories, from ods-start to        *)
(* ods-finish.  Runs of one repository follow each other (module Scheduler *)
(* and Watcher); runs of a repository and of an umbrella repository that   *)
(* has it as a subrepository overlap, and meet in Bitbucket, Nexus and the *)
(* registry.  Any step of a task may fail, a pod may never start, a run    *)
(* may be cancelled, and branches move at any time.                        *)
(***************************************************************************)
EXTENDS OdsStart, OdsBuild, PackageImage, DeployHelm, OdsFinish

NoChart == [q \in Repos |-> NoCommit]
Environments == {"dev", "qa", "prod"}

TaskPlaces   == {"clean", "checkout", "download", "build", "save", "stamp", "scan",
                 "analysis", "gate", "package", "push", "aqua", "deploy", "diff", "upgrade"}
FinishPlaces == {"finish", "archive", "collect", "upload"}

Init ==
  /\ pc = [r \in Repos |-> "idle"]
  /\ job = [r \in Repos |-> NoJob]
  /\ head = [r \in Repos |-> [q \in Repos |-> NoCommit]]
  /\ files = [r \in Repos |-> [q \in Repos |-> {}]]
  /\ manifest = [r \in Repos |-> [q \in Repos |-> NoManifest]]
  /\ built = [r \in Repos |-> {}]
  /\ cache = [r \in Repos |-> {}]
  /\ tip \in {t \in [Repos -> Commits] : \A q \in Repos : RepoOf[t[q]] = q}
  /\ status = [c \in Commits |-> "none"]
  /\ assets = {}
  /\ image = [c \in Commits |-> 0]
  /\ sonar = [r \in Repos |-> [queue |-> << >>, gate |-> [run |-> 0, status |-> "NONE"],
                               failed |-> {}]]
  /\ spaces = [s \in Environments |-> [d \in Destinations |-> 0]]
  /\ release = [r \in Repos |-> [s \in Environments |-> [chart |-> NoChart, deployed |-> FALSE]]]
  /\ runs = 0 /\ faults = 0
  /\ succeeded = {}
  /\ misread = {}

\* A pipeline run is created for a repository none of whose runs progresses.
Trigger(r, s) ==
  /\ At(r, "idle") /\ runs < MaxRuns
  /\ runs' = runs + 1
  /\ job' = [job EXCEPT ![r] = JobOf(runs + 1, TRUE, s)]
  /\ Goto(r, "clean")
  /\ UNCHANGED <<checkout, files, builds, git, assets, registry, cluster, faults, succeeded>>

\* The branch of a repository moves.
MoveBranch(c) ==
  /\ tip[RepoOf[c]] # c
  /\ tip' = [tip EXCEPT ![RepoOf[c]] = c]
  /\ UNCHANGED <<run, checkout, files, builds, status, assets, registry, cluster, counts, succeeded>>

(***************************************************************************)
(* A task exits at a call that fails, its pod is lost or does not start,   *)
(* or it runs into its timeout.                                            *)
(***************************************************************************)
TaskFails(r) ==
  /\ pc[r] \in TaskPlaces /\ Fault
  /\ Fatal(r)
  /\ UNCHANGED <<checkout, files, builds, git, assets, registry, cluster, runs, succeeded>>

\* The run is cancelled (which spares ods-finish), or ods-finish fails.
RunStops(r) ==
  /\ pc[r] # "idle" /\ Fault
  /\ EndRun(r)
  /\ UNCHANGED <<checkout, files, builds, git, assets, registry, cluster, runs, succeeded>>

Step(r) == StartStep(r) \/ BuildStep(r) \/ PackageStep(r) \/ DeployStep(r) \/ FinishStep(r)

Next ==
  \/ \E r \in Repos : \/ Step(r) \/ TaskFails(r) \/ RunStops(r) \/ AnalysisPasses(r)
                      \/ AnalysisFails(r)
                      \/ \E s \in Stages[r] : Trigger(r, s)
  \/ \E c \in Commits : MoveBranch(c)

Spec == Init /\ [][Next]_vars

-----------------------------------------------------------------------------
(* Types of the state. *)
Job == [id : Nat, ok : BOOLEAN, stage : Environments \cup {"none"}, at : Nat \ {0},
        todo : SUBSET Artifact]

RunsTyped ==
  /\ pc \in [Repos -> TaskPlaces \cup FinishPlaces \cup {"idle"}]
  /\ job \in [Repos -> Job]
  /\ \A r \in Repos : job[r].at \in DOMAIN Checkouts[r]

WorkspacesTyped ==
  /\ head \in [Repos -> [Repos -> Commits \cup {NoCommit}]]
  /\ \A r, q \in Repos : head[r][q] # NoCommit => RepoOf[head[r][q]] = q
  /\ files \in [Repos -> [Repos -> SUBSET Artifact]]
  /\ manifest \in [Repos -> [Repos -> [store : Stores \cup {"none", "absent"},
                                       ids : SUBSET (Kinds \X Nat)]]]
  /\ built \in [Repos -> SUBSET [tree : Trees, whole : BOOLEAN]]
  /\ cache \in [Repos -> SUBSET [tree : Trees, whole : BOOLEAN, stamped : BOOLEAN]]

ServersTyped ==
  /\ tip \in [Repos -> Commits]
  /\ \A q \in Repos : RepoOf[tip[q]] = q
  /\ status \in [Commits -> {"none", "INPROGRESS", "SUCCESSFUL", "FAILED"}]
  /\ assets \in SUBSET Asset
  /\ image \in [Commits -> Digests]
  /\ sonar \in [Repos -> [queue : Seq(Nat), gate : [run : Nat, status : {"NONE", "OK", "ERROR"}],
                          failed : SUBSET Nat]]
  /\ spaces \in [Environments -> [Destinations -> Digests]]
  /\ release \in [Repos -> [Environments -> [chart : [Repos -> Commits \cup {NoCommit}],
                                             deployed : BOOLEAN]]]
  /\ runs \in Nat /\ faults \in Nat
  /\ succeeded \in SUBSET Commits
  /\ misread \in SUBSET Commits

TypeOK == RunsTyped /\ WorkspacesTyped /\ ServersTyped

-----------------------------------------------------------------------------
(* Properties. *)

StartPlaces == {"clean", "checkout", "download"}

\* The run got past ods-start, and nothing failed since.
PastStart(r) == job[r].ok /\ pc[r] \notin StartPlaces

\* It is through the last task.
TasksDone(r) == job[r].ok /\ pc[r] \in FinishPlaces

(***************************************************************************)
(* A pipeline run artifact that a download puts in sight says Success (or  *)
(* cannot be read), and some run of that commit did succeed: ods-start of  *)
(* an umbrella looks no further than that the artifact exists.             *)
(***************************************************************************)
NexusHonest ==
  \A a \in assets : a.folder = 0 /\ a.file.kind = "run" =>
    a.file.value \in {Success, Garbled} /\ a.commit \in succeeded

(***************************************************************************)
(* No task of an umbrella's run starts unless a run has succeeded of the   *)
(* very commit that is checked out of each subrepository, whatever moved,  *)
(* failed or was uploaded meanwhile.                                       *)
(***************************************************************************)
ChildrenSucceeded ==
  \A r \in Repos : PastStart(r) => \A q \in Children(r) : head[r][q] \in succeeded

(***************************************************************************)
(* What goes into an image is a complete build of the commit's tree, also  *)
(* when it comes from the cache after a save that was interrupted.         *)
(***************************************************************************)
ReusedBuildComplete ==
  \A r \in Repos : \A b \in built[r] : b = [tree |-> Tree(r), whole |-> TRUE]

(***************************************************************************)
(* A digest recorded in Nexus is that of the image in the registry, over   *)
(* repeated runs and runs that failed after their push - unless an         *)
(* inspection failed although the image existed, which leads to a rebuild, *)
(* or a download was garbled.                                              *)
(***************************************************************************)
RecordedDigestCurrent ==
  \A a \in assets : a.file.kind = "image" /\ a.commit \notin misread =>
    a.file.value \in {image[a.commit], Garbled}

\* A commit that Bitbucket shows as successful and that is packaged has an image.
GreenCommitBuilt ==
  \A c \in Commits : status[c] = "SUCCESSFUL" =>
    /\ c \in succeeded
    /\ "package" \in Tasks[RepoOf[c]] => image[c] # 0

(***************************************************************************)
(* After a deployment the namespace has, for all checkouts and under the   *)
(* commits that the charts ask for, the images that the artifacts record,  *)
(* although they are copied by tag.  With a registryHost the copy has no   *)
(* tag, and no image need be there under the commit: those environments    *)
(* are excluded, and so are images that an inspection did not find.        *)
(***************************************************************************)
TagsCopied(r) == Stage(r) # "none" /\ Stage(r) \notin RegistryHosts
ShippedAsRecorded ==
  \A r, q \in Repos :
    TasksDone(r) /\ "deploy" \in Tasks[r] /\ TagsCopied(r) /\ head[r][q] \notin misread =>
      \A f \in Images(r, q) : spaces[Stage(r)][head[r][q]] = f.value

(***************************************************************************)
(* After a deployment the release is of the checked out commits of all     *)
(* checkouts, also when a diff failed.  It need not be one whose upgrade   *)
(* succeeded: a run that finds no difference to a release that an earlier  *)
(* upgrade left behind when it failed passes as well.                      *)
(***************************************************************************)
DeployedChartCurrent ==
  \A r \in Repos : TasksDone(r) /\ "deploy" \in Tasks[r] /\ Stage(r) # "none" =>
    release[r][Stage(r)].chart = Chart(r)

(***************************************************************************)
(* A quality gate is passed on the analysis of the run's own scan, not on  *)
(* that of an earlier one whose result the server still shows.             *)
(***************************************************************************)
PassesOwnGate(r) ==
  At(r, "gate") /\ pc'[r] \notin {"gate", "idle"} /\ job'[r].ok =>
    sonar[r].gate = [run |-> job[r].id, status |-> "OK"]
GateOfOwnAnalysis == [][\A r \in Repos : PassesOwnGate(r)]_vars

(***************************************************************************)
(* When ods-finish of a successful run ends by itself, every artifact of   *)
(* every checkout is in the repository of the stage, those that were       *)
(* downloaded from the other repository included.                          *)
(***************************************************************************)
Archived(r, q, f) ==
  \E a \in assets : /\ a.store = TargetRepository(r) /\ a.commit = head[r][q]
                    /\ a.folder = 0 /\ Id(a.file) = Id(f)
ArchivedInFull(r) ==
  /\ At(r, "upload") /\ LastHere(r) /\ pc'[r] = "idle" /\ UNCHANGED faults /\ job[r].ok
  => \A i \in DOMAIN Checkouts[r] :
       \A f \in files[r][Checkouts[r][i]] : Archived(r, Checkouts[r][i], f)
FinishedRunArchived == [][\A r \in Repos : ArchivedInFull(r)]_vars

(***************************************************************************)
(* What the pipelines promise of subrepositories: see module Promotion.    *)
(***************************************************************************)
Live == [r \in Repos |-> [s \in Environments |->
          {release[r][s].chart[q] : q \in Children(r)} \ {NoCommit}]]
PromotionOfRuns == INSTANCE Promotion WITH green <- succeeded, live <- Live
ImplementsPromotion == PromotionOfRuns!Spec
=============================================================================
