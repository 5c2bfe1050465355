------------------------------ MODULE Workspace ------------------------------
(***************************************************************************)
(* What the tasks of a pipeline run share: the workspace of the repository *)
(* (a volume per repository, used by all its runs one after the other) and *)
(* the servers the tasks talk to (Bitbucket, Nexus, the image registry,    *)
(* SonarQube, the cluster).  The modules OdsStart, OdsBuild, PackageImage, *)
(* DeployHelm and OdsFinish hold the steps of the tasks; PipelineRun puts  *)
(* them together.                                                          *)
(***************************************************************************)
EXTENDS Integers, Sequences, FiniteSets

CONSTANTS
  Repos, Commits, Trees,
  NoCommit,      \* no checkout
  RepoOf,        \* the repository of a commit
  TreeOf,        \* the Git tree of a commit: what the build cache is keyed by
  Checkouts,     \* a repository, then its subrepositories as in ods.yaml
  Tasks,         \* the tasks between ods-start and ods-finish
  Stages,        \* stages a run of a repository may be for; "none": no environment
  RegistryHosts, \* stages whose environment names the host of its registry
  AquaGate,      \* parameter aqua-gate of ods-package-image
  MaxRuns,       \* bound: runs triggered in all
  MaxFaults      \* bound: things that go wrong in all

ASSUME WorkspaceAssumption ==
  /\ NoCommit \notin Commits
  /\ Commits \cap Repos = {}
  /\ RepoOf \in [Commits -> Repos]
  /\ TreeOf \in [Commits -> Trees]
  /\ Checkouts \in [Repos -> Seq(Repos)]
  /\ \A r \in Repos : /\ Len(Checkouts[r]) > 0
                      /\ Checkouts[r][1] = r
                      /\ \A i \in 2..Len(Checkouts[r]) : Checkouts[r][i] # r
  /\ Tasks \in [Repos -> SUBSET {"build", "package", "deploy"}]
  /\ Stages \in [Repos -> SUBSET {"none", "dev", "qa", "prod"}]
  /\ AquaGate \in BOOLEAN
  /\ MaxRuns \in Nat /\ MaxFaults \in Nat

VARIABLES
  pc,         \* where the run of a repository is
  job,        \* its number, outcome so far, stage, current checkout, files to upload
  head,       \* [r][q]: commit of q that is checked out in r's workspace
  files,      \* [r][q]: artifacts of q in r's workspace
  manifest,   \* [r][q]: manifest.json, what was downloaded and from where
  built,      \* output of the build in r's workspace
  cache,      \* build cache in r's workspace, kept from run to run
  tip,        \* Bitbucket: tip of the branch of a repository that is built
  status,     \* Bitbucket: build status of a commit
  assets,     \* Nexus
  image,      \* registry: digest of the image tagged with a commit, 0: none
  sonar,      \* SonarQube: tasks in the queue and result of the last one
  spaces,     \* [s][c]: digest of the image tagged with c in the namespace of stage s;
              \* [s][q]: that of the image of repository q that has no tag
  release,    \* [r][s]: Helm release of r in the namespace of stage s
  runs,       \* history: runs triggered so far
  faults,     \* history: things that went wrong so far (calls, pods, builds, scans)
  succeeded,  \* history: commits of which a run succeeded
  misread     \* history: commits whose image an inspection did not find, though it existed

run      == <<pc, job>>
checkout == <<head, manifest>>
builds   == <<built, cache, sonar>>
git      == <<tip, status>>
registry == <<image, misread>>
cluster  == <<spaces, release>>
counts   == <<runs, faults>>
vars == <<run, checkout, files, builds, git, assets, registry, cluster, counts, succeeded>>

(***************************************************************************)
(* Data.  Artifacts are told apart by kind (the directory of the artifact) *)
(* and name (the number of the run for "run", 0 otherwise); the value is   *)
(* the aggregate status of a "run", the digest of an "image".              *)
(***************************************************************************)
Digests  == Nat                    \* a push makes a new one: the number of its run
Success  == 1
Failure  == 0
Garbled  == -1                     \* of a download that stored an error page
Stores   == {"permanent", "temporary"}
Kinds    == {"run", "image", "report", "deployment"}
Artifact == [kind : Kinds, name : Nat, value : Nat \cup {Garbled}]
Asset    == [store : Stores, commit : Commits, folder : Nat, file : Artifact]
Destinations == Commits \cup Repos  \* of images: with a tag, or without
NoManifest == [store |-> "absent", ids |-> {}]

Id(f)      == <<f.kind, f.name>>
Ids(F)     == {Id(f) : f \in F}
File(kind, name, value) == [kind |-> kind, name |-> name, value |-> value]

Children(r)  == {Checkouts[r][i] : i \in 2..Len(Checkouts[r])}
Here(r)      == Checkouts[r][job[r].at]
LastHere(r)  == job[r].at = Len(Checkouts[r])
OwnCommit(r) == head[r][r]

\* Writing files replaces those of the same directory and name.
Written(F, new) == {f \in F : Id(f) \notin Ids(new)} \cup new
Write(r, new)   == files' = [files EXCEPT ![r][r] = Written(@, new)]

\* Bitbucket keeps the last build status of a commit.
BuildStatusCreate(c, state) == status' = [status EXCEPT ![c] = state]

\* The steps of a run: the step of which the guard is, and where it goes.
At(r, place)   == pc[r] = place
Goto(r, place) == pc' = [pc EXCEPT ![r] = place]
Proceed(r, place) == Goto(r, place) /\ job' = [job EXCEPT ![r].at = 1]

JobOf(id, ok, stage) == [id |-> id, ok |-> ok, stage |-> stage, at |-> 1, todo |-> {}]

\* Something goes wrong at this step.
Fault == faults < MaxFaults /\ faults' = faults + 1

\* A task exits with an error: Tekton starts no further task but ods-finish.
Fatal(r) == /\ pc'  = [pc EXCEPT ![r] = "finish"]
            /\ job' = [job EXCEPT ![r] = JobOf(@.id, FALSE, @.stage)]

AfterPackage(r) == IF "deploy"  \in Tasks[r] THEN "deploy"  ELSE "finish"
AfterBuild(r)   == IF "package" \in Tasks[r] THEN "package" ELSE AfterPackage(r)
AfterStart(r)   == IF "build"   \in Tasks[r] THEN "build"   ELSE AfterBuild(r)
=============================================================================
